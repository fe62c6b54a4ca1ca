SPECIFICATION FairSpec
CONSTANTS
    Modes <- Kinds
    PPBufs = 1
    MaxSessions = 2
    MaxFailures = 1
INVARIANTS
    
    EncoderOwnsFrame
    StopLeavesNothing
PROPERTIES
    PicturesEnd
CHECK_DEADLOCK FALSE
