SPECIFICATION FairSpec
CONSTANTS
    N = 3
    Offset = 1
    precreate = 2
    StartItem = 0
    Plans <- Usual
INVARIANTS
    NothingMissed
    Window
    Resumable
    CleanedUp
PROPERTIES
    Ends
