SPECIFICATION Spec
CONSTANTS
    Streams = {main, aux, meta}
    Meta = meta
    Snapshot = snap
    FirstFrame = 1
    MaxFrame = 3
    Repeats = {}
    MaxSessions = 2
    MaxCmds = 1
    Controls <- Requests
    NotifyMode = "burst"
    WaterMark = 2
    LookBack = 2
    PostFrameSkip = 1
    MaxUnmatchedFrames = 1
    UserExpected = 0
    LowPriority = FALSE
    SnapshotOnly = FALSE
    SkipUnmatchedHead = FALSE
    FutureWait = 2
    DivertWidth = 8
    MetaInfos <- PlainOnly
    AllocFails = FALSE
INVARIANTS
    TypeOK
    BuffersConserved
    QueueShape
    SuperbufsAgree
PROPERTIES
    DispatchInOrder
CHECK_DEADLOCK FALSE
