SPECIFICATION Spec
CONSTANTS
    Handler = {h1, h2}
    Live = Live
    Folder = {dir, lib}
    Top = top
    Name = {n1}
    Excluded = {}
    Content = {c1, c2}
    None = None
    MaxFile = 3
    Initial = 1
    MaxRequest = 2
    MaxEdit = 1
    Request = {"create", "patch", "delete", "renameFolder", "deleteFolder"}
    Environment = {"terminal", "failure", "crash"}
SYMMETRY Interchangeable
INVARIANTS
    BlobForRow
    HashTracksBlob
    Reconciled
CHECK_DEADLOCK FALSE
