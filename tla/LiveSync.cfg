SPECIFICATION LiveFairSpec
CONSTANTS
    Terminal = {t1, t2}
    NoTerminal = NoTerminal
    MaxState = 2
    MaxChange = 1
    MayFail = TRUE
INVARIANTS
    WatchedWhileHeld
PROPERTIES
    ChangesReconciled
CHECK_DEADLOCK FALSE
