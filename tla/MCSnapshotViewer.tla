-------------------------- MODULE MCSnapshotViewer --------------------------
\* An instance of SnapshotViewer for TLC.
EXTENDS SnapshotViewer

CONSTANTS p1, p2, a, b, sha

TwoPaths == {p1, p2}
TwoContents == {a, b}
Sizes == [c \in Contents |-> 1]
TypesOf == [c \in Contents |-> "file"]
=============================================================================
