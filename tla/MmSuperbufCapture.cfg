SPECIFICATION Spec
CONSTANTS
    Streams = {snap, meta}
    Meta = meta
    Snapshot = snap
    FirstFrame = 1
    MaxFrame = 2
    Repeats <- MetaTwice
    MaxSessions = 1
    MaxCmds = 1
    Controls <- Captures
    NotifyMode = "burst"
    WaterMark = 1
    LookBack = 0
    PostFrameSkip = 1
    MaxUnmatchedFrames = 0
    UserExpected = 0
    LowPriority = FALSE
    SnapshotOnly = TRUE
    SkipUnmatchedHead = TRUE
    FutureWait = 1
    DivertWidth = 8
    MetaInfos <- MetaCaptures
    AllocFails = FALSE
INVARIANTS
    
    ZslOffWhenIdle
CHECK_DEADLOCK FALSE
