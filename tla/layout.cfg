SPECIFICATION FairSpec
CONSTANTS
    N = 3
    Jobs <- Usual
INVARIANTS
    ReadBack
    GivesUpForAReason
PROPERTIES
    Finishes
