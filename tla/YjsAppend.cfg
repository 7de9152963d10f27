SPECIFICATION AppendFairSpec
CONSTANTS
    Appender = {a1, a2, a3}
    Nobody = Nobody
    MayFail = TRUE
CHECK_DEADLOCK FALSE
INVARIANTS
    StoredOnce
PROPERTIES
    ImplementsAppend
    AppendAnswered
