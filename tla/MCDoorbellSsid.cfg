CONSTANTS
    Nets <- MCNets
    SsidLen <- MCSsidLen
    MaxEvents = 3
    StartMayFail = FALSE
    SpawnCap = 1
    MaxServer = 0
    MallocMayFail = FALSE
SPECIFICATION Spec
CHECK_DEADLOCK FALSE
INVARIANT SsidIsNew
