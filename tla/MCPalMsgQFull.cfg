CONSTANTS
    Writers = {w1}
    Readers = {r1}
    MaxMsgs = 1
    Quota = 2
    Timeouts <- Forever
    CanDelete = FALSE
    NoOne = NoOne
SPECIFICATION Spec
CHECK_DEADLOCK FALSE
INVARIANT AtMostMaxMsgs
