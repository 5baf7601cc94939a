SPECIFICATION FairSpec
CONSTANTS
    N = 3
    Length = 3
    MAX_RETRY = 1
    Jobs <- Usual
INVARIANTS
    ReadBack
    SizeIsRight
    GivesUpForAReason
    ContainerOutlivesUse
PROPERTIES
    NothingTruncated
    Finishes
