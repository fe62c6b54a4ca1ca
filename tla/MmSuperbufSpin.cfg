SPECIFICATION FairSpec
CONSTANTS
    Streams = {snap, meta}
    Meta = meta
    Snapshot = snap
    FirstFrame = 1
    MaxFrame = 3
    Repeats = {}
    MaxSessions = 1
    MaxCmds = 1
    Controls <- NoCalls
    NotifyMode = "burst"
    WaterMark = 1
    LookBack = 0
    PostFrameSkip = 1
    MaxUnmatchedFrames = 1
    UserExpected = 0
    LowPriority = FALSE
    SnapshotOnly = TRUE
    SkipUnmatchedHead = FALSE
    FutureWait = 2
    DivertWidth = 8
    MetaInfos <- PlainOnly
    AllocFails = FALSE
PROPERTIES
    WaterMarkKept
CHECK_DEADLOCK FALSE
