SPECIFICATION Spec
CONSTANTS
    Conn = {c1, c2}
    Fd = {5, 6}
    Sender = {s1, s2}
    Command = {"start", "stop"}
    MaxCmd = 2
    RxMax = 2
    Polite = TRUE
    Prompt = FALSE
    NoConn = NoConn
SYMMETRY Symmetry
CHECK_DEADLOCK FALSE
INVARIANTS
    OneReceiver
    FlagWillFall
PROPERTIES
    ClosedByItself
