SPECIFICATION FairSpec
CONSTANTS
    File = {f1, f2}
    MaxSocket = 2
    MaxSessions = 1
    MaxDocs = 1
    MaxRequest = 5
    Environment = {"failure"}
INVARIANTS
    SessionsCapped
    DirtyShown
    NothingHeld
PROPERTIES
    JoinAnswered
CHECK_DEADLOCK FALSE
