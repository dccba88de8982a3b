CONSTANTS
    Nets <- OneNet
    SsidLen <- OneSsidLen
    MaxEvents = 5
    StartMayFail = TRUE
    SpawnCap = 2
    MaxServer = 3
    MallocMayFail = TRUE
SPECIFICATION Spec
CHECK_DEADLOCK FALSE
INVARIANTS
    TypeOK
    FlagsFollowWifi
    StartsPerConnection
    HeapAccounting
    RoleIsTrue
    IpNeedsConnection
PROPERTY LeaseStartsIotk
