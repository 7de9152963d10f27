SPECIFICATION Spec
CONSTANTS
    MaxEdit = 2
    MaxTurn = 2
    Environment = {"leave", "preview", "rewind", "load", "suggest", "other", "failure"}
INVARIANTS
    NothingDropped
    EditorFollows
    CleanIsStored
CHECK_DEADLOCK FALSE
