SPECIFICATION FairSpec
CONSTANTS
    NumBufs = 2
    Workers = {w1}
    Bundled = TRUE
    Linkable = FALSE
    HasCb = FALSE
    Preloaded = {1}
    Faults <- LiveFaults
    MaxSessions = 1
PROPERTIES
    BufferRecycles
    FrameIsRead
    
CHECK_DEADLOCK FALSE
