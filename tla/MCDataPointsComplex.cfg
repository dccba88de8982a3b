CONSTANTS
    DpTexts = {a, b}
    DpNumbers = {0, 5}
    DpComplex <- Packed
    DpCounts = {0, 1, 2, 3}
    DpLengths = {1, 4}
    DpJunk = junk
SPECIFICATION DpSpec
CHECK_DEADLOCK FALSE
INVARIANT ComplexUnderstood
