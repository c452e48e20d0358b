SPECIFICATION FairSpec
CONSTANTS
    BufSize = 3
    ElemSize = 2
    client = client
    plain = plain
    Host = {client, plain}
    InSize = 8
    IacMax = 3
    Token <- Tokens
    CmdSize = 2
    NoHost = NoHost
CHECK_DEADLOCK FALSE
INVARIANTS
    TypeOK
    RingShape
    OutputInOrder
    OneSession
PROPERTIES
    LineIsTyped
    LineGetsRun
