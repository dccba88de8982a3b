CONSTANTS
    InUse <- Fh8610
    Waiters = {t1, t2}
    MaxSets = 1
SPECIFICATION EvSpec
CHECK_DEADLOCK FALSE
INVARIANT WaitNeedsSet
