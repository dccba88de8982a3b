CONSTANTS
    Writers = {w1, w2}
    Readers = {r1, r2}
    MaxMsgs = 2
    Quota = 3
    Timeouts <- AnyTimeout
    CanDelete = TRUE
    NoOne = NoOne
SPECIFICATION Spec
CHECK_DEADLOCK FALSE
INVARIANTS
    TypeOK
    GuardExclusion
    TokenAccounting
    RingGeometry
    OverrunBound
PROPERTIES
    ImplementsLossyBox
    WritesReturn
    EveryMessageLeaves
    TokenYieldsMessage
