SPECIFICATION BufferSpec
CONSTANTS
    MaxPending = 8
    Granularity = 2
    Length = 1
    MaxRequests = 10
    Faults = {}
    MaxFaults = 0
    Writes = 6
    FsyncPerWrite = FALSE
INVARIANTS
    FileIntact
