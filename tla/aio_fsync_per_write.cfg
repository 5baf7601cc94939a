SPECIFICATION BufferSpec
CONSTANTS
    MaxPending = 8
    Granularity = 8
    Length = 1
    MaxRequests = 18
    Faults = {}
    MaxFaults = 0
    Writes = 9
    FsyncPerWrite = TRUE
INVARIANTS
    FileIntact
