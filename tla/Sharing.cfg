SPECIFICATION SharingSpec
CONSTANTS
    Person = {ann, bob}
    NoPerson = NoPerson
    Elsewhere = {ann}
    MaxEvent = 6
    Environment = {"refusal"}
INVARIANTS
    ControlShown
    WaitingAsks
CHECK_DEADLOCK FALSE
