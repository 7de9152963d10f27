SPECIFICATION Spec
CONSTANTS
    Socket = {s1, s2}
    NoSocket = NoSocket
    Handler = {h1, h2}
    MaxEdit = 2
    MaxOpen = 2
    MaxSequence = 2
    SnapshotInterval = 1
    Environment = {"access", "failure", "crash"}
    Op <- MCOp
SYMMETRY Symmetry
CHECK_DEADLOCK FALSE
INVARIANTS
    RoomConsistent
    OneSeed
    ViewsTrackDocument
    Durable
    EdgesPointBack
