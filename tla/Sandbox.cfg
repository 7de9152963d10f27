SPECIFICATION Spec
CONSTANTS
    MaxRuntime = 2
    MaxShell = 3
    MaxCall = 4
    MaxMishap = 1
    Environment = {"failure", "death", "exit", "crash"}
INVARIANTS
    HandleWorks
    NoStrayShell
    NoOrphan
CHECK_DEADLOCK FALSE
