SPECIFICATION FairSpec
CONSTANTS
    Node = {n1, n2}
    Func = {f, g}
    Arg = {a}
    Caller = {t1}
    Loop = loop
    Interval = {0, 1, 2}
    LoopCount = {0, 2}
    ClockMod = 64
    IdleTicks = 4
    MsgMax = 1
    CreateUntil = 2
    MaxTime = 2
    NoFunc = NoFunc
INVARIANTS
    OneTimerPerKey
    DealFits
    NoOversleep
PROPERTIES
    ArmedForInterval
    FiniteTimersEnd
