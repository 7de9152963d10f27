SPECIFICATION FairSetSpec
CONSTANTS
    Subject = {owner, guest}
    Owner = owner
    Nobody = Nobody
    Tab = {t1}
    Handler = {h1, h2}
    MaxSession = 2
    MaxConnection = 1
    Event = {"project", "terminal", "open", "input", "close"}
    Failures = TRUE
INVARIANTS
    ControlledByMembers
    StateTracksShell
    SilentAfterLeave
    WatchedWhileOpen
PROPERTIES
    OpAnswered
CHECK_DEADLOCK FALSE
