-------------------------- MODULE MCSnapshotStore --------------------------
\* Instances of SnapshotStore for TLC.
EXTENDS SnapshotStore

CONSTANTS p1, p2, g1, g2

Adding == [g \in Programs |-> {"add-snapshot"}]
AddingWhileVerifying ==
    [g \in Programs |-> IF g = g1 THEN {"add-snapshot"} ELSE Commands \ {"add-snapshot"}]
=============================================================================
