CONSTANTS
    Size <- MCSize
    Header = 2
    Data <- MCData
SPECIFICATION Spec
INVARIANTS
    NodesStand
    StringReadsBack
PROPERTY ImplementsStore
