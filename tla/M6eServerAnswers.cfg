SPECIFICATION FairSpec
CONSTANTS
    Conn = {c1, c2}
    Fd = {5, 6}
    Sender = {}
    Command = {"a", "b", "gpi", "gpo"}
    MaxCmd = 2
    RxMax = 2
    Polite = TRUE
    Prompt = TRUE
    NoConn = NoConn
CHECK_DEADLOCK FALSE
PROPERTIES
    AnswerIsOwn
    CommandTaken
