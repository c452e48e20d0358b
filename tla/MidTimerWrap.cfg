SPECIFICATION Spec
CONSTANTS
    Node = {n1, n2}
    Func = {f, g}
    Arg = {a, b}
    Caller = {t1}
    Loop = loop
    Interval = {2}
    LoopCount = {0, 1}
    ClockMod = 5
    IdleTicks = 4
    MsgMax = 1
    CreateUntil = 2
    MaxTime = 4
    NoFunc = NoFunc
SYMMETRY NodeSymmetry
CHECK_DEADLOCK FALSE
INVARIANTS
    TypeOK
    NodesConserved
    Sorted
PROPERTIES
    CancelledStaysSilent
