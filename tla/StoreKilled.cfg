\* One program that adds snapshots and can be killed anywhere.
SPECIFICATION Spec
CONSTANTS
    p1 = p1
    p2 = p2
    g1 = g1
    g2 = g2
    Paths = {p1, p2}
    Programs = {g1}
    CommandsOf <- Adding
    NoName = 0
    MaxClock = 3
    MaxEdits = 1
    MaxKills = 2
    MaxCorruptions = 0
INVARIANTS
    TypeOK
    BaseIsPrevious
    ReadsProtectedFiles
PROPERTIES
    ImplementsSnapshotLog
