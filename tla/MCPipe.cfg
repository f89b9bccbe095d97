\* Pipes of a few bytes.
CONSTANTS
    Iface = {1, 2}
    FrameLen <- MCFrameLen
    PIPE_SIZE = 8
    PIPE_BUF = 2
    MaxFrames = 3
SPECIFICATION FairSpec
CHECK_DEADLOCK FALSE
INVARIANTS
    NoStandoff
PROPERTIES
    FramesWhole
    CatchesUp
