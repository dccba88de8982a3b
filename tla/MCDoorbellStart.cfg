CONSTANTS
    Nets <- OneNet
    SsidLen <- OneSsidLen
    MaxEvents = 1
    StartMayFail = TRUE
    SpawnCap = 1
    MaxServer = 0
    MallocMayFail = FALSE
SPECIFICATION Spec
CHECK_DEADLOCK FALSE
PROPERTY ProfilesNeedStart
