------------------------- MODULE MCSnapshotHistory -------------------------
\* Instances of SnapshotHistory for TLC.
EXTENDS SnapshotHistory, TLC

CONSTANTS p1, p2, a, b, dir, sha

TwoPaths == {p1, p2}
TwoContents == {a, b}
FilesAndDirectory == {a, b, dir}
\* a and b have the same size: only their times tell them apart.
Sizes == [c \in Contents |-> IF c = dir THEN 0 ELSE 1]
TypesOf == [c \in Contents |-> IF c = dir THEN "directory" ELSE "file"]
AllEdits == {"write", "remove", "rename"}
Renames == {"rename"}
Symmetry == Permutations(Paths) \cup Permutations({a, b})
=============================================================================
