\* add-snapshot after a file is deleted and a later one changed.
SPECIFICATION Spec
CONSTANTS
    w1 = w1
    w2 = w2
    Workers = {w1, w2}
    Commands <- SnapshotOfShrunk
    UInt64Size = 16
INVARIANTS
    DeletedNodesAreResolved
