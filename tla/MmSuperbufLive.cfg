SPECIFICATION FairSpec
CONSTANTS
    Streams = {main, meta}
    Meta = meta
    Snapshot = snap
    FirstFrame = 1
    MaxFrame = 2
    Repeats = {}
    MaxSessions = 1
    MaxCmds = 1
    Controls <- LiveModes
    NotifyMode = "burst"
    WaterMark = 1
    LookBack = 0
    PostFrameSkip = 1
    MaxUnmatchedFrames = 1
    UserExpected = 0
    LowPriority = TRUE
    SnapshotOnly = FALSE
    SkipUnmatchedHead = FALSE
    FutureWait = 2
    DivertWidth = 8
    MetaInfos <- MetaZoom1x
    AllocFails = TRUE
INVARIANTS
    BuffersConserved
PROPERTIES
    FlushReturns
    WaterMarkKept
    MatchedIsDispatched
CHECK_DEADLOCK FALSE
