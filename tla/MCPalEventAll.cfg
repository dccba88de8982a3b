CONSTANTS
    InUse <- OnWindows
    Waiters = {t1, t2}
    MaxSets = 1
SPECIFICATION EvSpec
CHECK_DEADLOCK FALSE
PROPERTY AllResumed
