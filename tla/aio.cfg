SPECIFICATION FairSpec
CONSTANTS
    MaxPending = 8
    Granularity = 5
    Length = 2
    MaxRequests = 9
    Faults = {"setup", "submit", "short", "negative"}
    MaxFaults = 1
INVARIANTS
    InFlightExact
    WaitsAreMet
    ContextNeverFull
    FlushVouches
PROPERTIES
    PromiseKept
    CallsReturn
