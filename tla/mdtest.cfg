SPECIFICATION FairSpec
CONSTANTS
    N = 3
    Plans <- Usual
INVARIANTS
    NothingMissed
    SameNumber
    NothingLeft
PROPERTIES
    Ends
