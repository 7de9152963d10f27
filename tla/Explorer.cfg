CONSTANTS
    Folder = {a, b}
    Place = {a, b}
    Name = {x, y}
    Absent = Absent
    Unknown = Unknown
    MaxFile = 2
    MaxChange = 2
    MaxCut = 2
SPECIFICATION ExplorerSpec
SYMMETRY Symmetry
INVARIANTS
    ListFollows
PROPERTIES
    TabsKept
CHECK_DEADLOCK FALSE
