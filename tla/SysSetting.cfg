SPECIFICATION FairSpec
CONSTANTS
    Host = {h1, h2}
    Value = {v0, v1}
    Long = {}
    Default = v0
    Prompt = TRUE
    DiskFails = FALSE
    MaxSet = 3
    MaxCrash = 2
CHECK_DEADLOCK FALSE
INVARIANTS
    ChangeIsComing
    WholeAtRest
PROPERTIES
    ChangeReachesFile
