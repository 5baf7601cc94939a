SPECIFICATION FairSpec
CONSTANTS
    N = 3
    Apis = {"POSIX", "RADOS"}
    Talkative = {}
    NoStatfs = {"RADOS"}
    Scripts <- Usual
    Hosts <- Placements
INVARIANTS
    OptionsAsWritten
    NodesAgree
    OutputComplete
PROPERTIES
    Finishes
