SPECIFICATION Spec
CONSTANTS
    N = 2
    Apis = {"POSIX"}
    Talkative = {}
    NoStatfs = {}
    Scripts <- AfterRun
    Hosts <- OneNode
INVARIANTS
    ModuleOptionsAsWritten
