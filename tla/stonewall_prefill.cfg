SPECIFICATION Spec
CONSTANTS
    N = 2
    S = 2
    Tests <- Prefill
    MaxPairs = 4
    Offsets = 2
INVARIANTS
    CollectivesMatch
