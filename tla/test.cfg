SPECIFICATION FairSpec
CONSTANTS
    N = 3
    Repetitions = 2
    Tests <- Usable
    Shift = 2
    TaskPerNodeOffset = 1
    MinRandomOffset = 0
    TimeLimit = FALSE
    MaxCorruptions = 1
INVARIANTS
    NeverAborts
    ErrorsAreReal
    NothingLeft
PROPERTIES
    NoRemovalWhileOpen
    ErrorFilesKept
    Finishes
