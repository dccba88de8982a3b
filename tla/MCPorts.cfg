CONSTANTS
    InUse <- Ports
    Waiters = {t1, t2}
    MaxSets = 4
    LxUsers = {u1, u2, u3}
    LxMax = 2
    LxNoOne = noone
    KqUsers = {u1, u2}
    KqMax = 1
    KqForever = 255
    KqTimeouts = {0, 5, 20, 255}
    KqRates = {50, 128, 200}
    TkTasks = {t1, t2, t3}
    TkMaxDepth = 2
    TkMaxLeaks = 1
    TkNoOne = noone
SPECIFICATION Spec
CHECK_DEADLOCK FALSE
INVARIANTS
    TypeOK
    WritesKept
    WaitHonoured
    AcquireIsTrue
PROPERTIES
    WaitMeansSet
    
