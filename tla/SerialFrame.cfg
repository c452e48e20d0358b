SPECIFICATION FairSpec
CONSTANTS
    Header = 3
    MsgSize = 7
    Tries = 2
    Kind <- Kinds
    MaxFrame = 3
    MaxNoise = 2
INVARIANTS
    TypeOK
PROPERTIES
    LinkOfFrames
    FrameArrives
