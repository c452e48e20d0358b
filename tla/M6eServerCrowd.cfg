SPECIFICATION Spec
CONSTANTS
    Conn = {c1, c2}
    Fd = {5, 6}
    Sender = {s1}
    Command = {"start"}
    MaxCmd = 1
    RxMax = 1
    Polite = FALSE
    Prompt = FALSE
    NoConn = NoConn
SYMMETRY Symmetry
CHECK_DEADLOCK FALSE
INVARIANTS
    TypeOK
    RecentServed
