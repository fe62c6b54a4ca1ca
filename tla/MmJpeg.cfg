SPECIFICATION FairSpec
CONSTANTS
    NumClients = 2
    NumSlots = 1
    MaxJobs <- TwoAndOne
    MaxCreates <- OneEach
    SkipDestroy = FALSE
    MaxFailures = 1
INVARIANTS
    HandlesConserved

    
    
CHECK_DEADLOCK FALSE
