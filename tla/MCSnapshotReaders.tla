------------------------- MODULE MCSnapshotReaders -------------------------
\* An instance of SnapshotReaders for TLC.
EXTENDS SnapshotReaders, TLC

CONSTANTS p1, p2, p3, text, empty, sha, md5

ThreePaths == {p1, p2, p3}
TextAndEmpty == {text, empty}
Sizes == [c \in Contents |-> IF c = empty THEN 0 ELSE 1]
TypesOf == [c \in Contents |-> "file"]
TwoAlgorithms == {sha, md5}
WritesAndRenames == {"write", "rename"}
Symmetry == Permutations(Paths) \cup Permutations(Algorithms)

\* Nothing edits the source while a snapshot is added: in which order its nodes are
\* indexed, hashed and piped changes nothing, and one order is enough.
TaskInOrder(before, after) ==
    before \ after = {} \/ before \ after = {CHOOSE p \in before : TRUE}
TasksInOrder ==
    /\ TaskInOrder(toVisit, toVisit')
    /\ TaskInOrder(toHash, toHash')
    /\ phase = phase' => TaskInOrder(ToPipe, ToPipe')
=============================================================================
