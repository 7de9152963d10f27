SPECIFICATION FairSpec
CONSTANTS
    File = {f1, f2}
    Project = Project
    NoFile = NoFile
    MaxSelect = 2
    MaxWatch = 2
    MaxSocket = 2
    MaxEdit = 1
    MaxDrop = 1
    Environment = {"timeout", "refusal", "unmount"}
INVARIANTS
    NoEditRefused
    NothingLeftBehind
    WatcherIsMember
PROPERTIES
    JoinEnds
CHECK_DEADLOCK FALSE
