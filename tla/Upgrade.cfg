SPECIFICATION FairSpec
CONSTANTS
    u1 = u1
    u2 = u2
    u3 = u3
    Image = {u1, u2, u3}
    Size <- SmallSize
    Signed = {u1, u2}
    Block = 3
    Sig = 1
    DiskFull = TRUE
    MaxBegin = 3
    MaxLoss = 1
    NoImage = NoImage
    NoFile = NoFile
    Stray = Stray
CHECK_DEADLOCK FALSE
INVARIANTS
    TypeOK
    FileIsUploads
    SentIsKept
    WholeIsInstalled
    SignedOnly
PROPERTIES
    WholeIsMoved
    UploadEnds
