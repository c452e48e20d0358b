SPECIFICATION Spec
CONSTANTS
    Node = {n1, n2}
    Func = {f, g}
    Arg = {a}
    Caller = {t1}
    Loop = loop
    Interval = {1, 2}
    LoopCount = {0, 1}
    ClockMod = 64
    IdleTicks = 4
    MsgMax = 2
    CreateUntil = 4
    MaxTime = 6
    NoFunc = NoFunc
SYMMETRY NodeSymmetry
PROPERTIES
    NotEarly
