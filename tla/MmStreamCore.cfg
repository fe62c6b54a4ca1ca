SPECIFICATION Spec
CONSTANTS
    NumBufs = 2
    Workers = {w1}
    Bundled = TRUE
    Linkable = TRUE
    HasCb = TRUE
    Preloaded = {1, 2}
    Faults <- CoreFaults
    MaxSessions = 1
INVARIANTS
    TypeOK
    RefsConserved
    NoKernelAlias
    NoDoubleFree
    PollCoversQueue
    NoBufferLost
    
PROPERTIES
    ImplementsLoan
CHECK_DEADLOCK FALSE
