SPECIFICATION FairSpec
CONSTANTS
    N = 2
    S = 2
    Tests <- Usual
    MaxPairs = 5
    Offsets = 2
INVARIANTS
    CollectivesMatch
    InOrder
    EqualWork
    ReadsWritten
PROPERTIES
    Finishes
