CONSTANTS
    KqUsers = {u1, u2}
    KqMax = 1
    KqForever = 255
    KqTimeouts = {0, 5, 20, 255}
    KqRates = {50, 128, 200}
SPECIFICATION KqSpec
CHECK_DEADLOCK FALSE
INVARIANT DeleteResumesReaders
