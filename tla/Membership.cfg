SPECIFICATION FairSpec
CONSTANTS
    Owner = owner
    Subject = {owner, guest}
    Invite = {i1, i2}
    Request = {r1, r2}
    None = None
    MaxRequest = 6
    Environment = {"failure"}
INVARIANTS
    UsedOnce
    MembersInvited
    RemovedStaysOut
PROPERTIES
    RequestsEnd
CHECK_DEADLOCK FALSE
