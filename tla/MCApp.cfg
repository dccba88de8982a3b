CONSTANTS
    Port <- Windows
    SpawnCap = 2
    MaxCalls = 2
    MaxSdp = 2
    MaxPackets = 3
    MaxOther = 2
    Nets = {n1}
    SsidLen <- OneSsidLen
    MaxEvents = 3
    StartMayFail = TRUE
    MaxPings = 2
    MaxStarts = 2
    MaxProfiles = 7
    Stubborn = {0, 3, 6}
    KeyLens <- MCKeyLens
    DpTexts = {a, b}
    DpNumbers = {0, 5}
    DpComplex <- Packed
    DpCounts = {0, 1, 2, 3}
    DpLengths = {1, 4}
    DpJunk = junk
SPECIFICATION Spec
CHECK_DEADLOCK FALSE
INVARIANTS
    TypeOK
    NoDanglingMessage
    WaitUntilSent
    CallAgrees
    OutgoingInOrder
    OneStalePacket
    AddressIsCurrent
    CountIsARemoveSet
    AcksUnderstood
PROPERTIES
    CallbackReturns
    PingIsAnswered
    RemoveSetReports
