SPECIFICATION FairSpec
CONSTANTS
    Devices = {"emmc", "ufs"}
    NumLuns = 2
    MaxCrashes = 3
    IoFails = TRUE
INVARIANTS
    TypeOK
    
    
    FinishedClean
PROPERTIES
    UpdateEnds
CHECK_DEADLOCK FALSE
