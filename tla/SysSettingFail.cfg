SPECIFICATION Spec
CONSTANTS
    Host = {h1, h2}
    Value = {v0, v1}
    Long = {w}
    Default = v0
    Prompt = FALSE
    DiskFails = TRUE
    MaxSet = 3
    MaxCrash = 1
SYMMETRY HostSymmetry
CHECK_DEADLOCK FALSE
INVARIANTS
    TypeOK
    DurableAtRest
    WriterHoldsLock
