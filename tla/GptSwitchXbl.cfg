SPECIFICATION Spec
CONSTANTS
    Devices = {"ufs"}
    NumLuns = 1
    MaxCrashes = 1
    IoFails = FALSE
INVARIANT
    XblIntact
CHECK_DEADLOCK FALSE
