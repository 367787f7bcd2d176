--------------------------- MODULE SnapshotViewer ---------------------------
(***************************************************************************)
(* The viewer's tree shows a file's revisions, and downloads them by node  *)
(* numbers (class FileRevisionNode).  SnapshotHistory leaves the numbers   *)
(* out; here they are the positions in one of the orders in which          *)
(* AddSnapshot can have added the nodes.                                   *)
(***************************************************************************)
EXTENDS SnapshotReaders

VARIABLE orders     \* for each snapshot its paths in the order of their numbers

ViewerInit == Init /\ orders = <<>>

\* FinishSnapshot appends the snapshot with the hash index that the order gives.
NumberNodes ==
    IF Len(snapshots') = Len(snapshots) THEN UNCHANGED orders
    ELSE \E o \in Orders :
            LET new == snapshots'[Len(snapshots')]
            IN  /\ new.hashIndex = HashIndex(o, new.nodes)
                /\ orders' = Append(orders, o)

ViewerNext == Next /\ NumberNodes
ViewerSpec == ViewerInit /\ [][ViewerNext]_<<vars, orders>>

GetNodeIndex(i, p) == CHOOSE n \in DOMAIN orders[i] : orders[i][n] = p

\* FileRevisionNode::DownloadTo of a revision that LoadRevisions has made: what is
\* read, None where it fails.
DownloadTo(revision) ==
    LET number == GetNodeIndex(revision.numberOf.snapshot, revision.numberOf.path)
        i == revision.data.snapshot
    IN  IF number \notin DOMAIN orders[i] THEN None
        ELSE IF snapshots[i].nodes[orders[i][number]].type = "directory" THEN None
        ELSE OpenFileForReading(i, orders[i][number], TRUE)

\* FileRevisionNode.hpp:38: a node with the text "Revision from snapshot: " and a name
\* gives that revision of the file it is shown under, or fails, but never the data of
\* another file.
RevisionsAreOfTheFile ==
    \A i \in DOMAIN snapshots : \A p \in DataNodes(i) : OwnReferencesOnly(i, p) =>
        \A k \in DOMAIN LoadRevisions(i, p) :
            LET revision == LoadRevisions(i, p)[k]
            IN  revision # None =>
                    DownloadTo(revision) \in
                        {None, HashOf(revision.data.snapshot, revision.data.path)}
=============================================================================
