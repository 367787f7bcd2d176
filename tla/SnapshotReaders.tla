-------------------------- MODULE SnapshotReaders --------------------------
(***************************************************************************)
(* What the programs that only read make of a history of snapshots:        *)
(* restore-snapshot, mount, hash-snapshot, diff and the list of revisions  *)
(* in the viewer.  They change nothing, so they are functions of the state *)
(* of SnapshotHistory.                                                     *)
(***************************************************************************)
EXTENDS SnapshotHistory

\* None is no revision, as it is no place of data.
ASSUME NoRevisionAssumption ==
    LET Place == [snapshot : Nat, path : Paths]
    IN  None \notin [data : Place, numberOf : Place]

\* Snapshot::Restore of one node: None where it throws, which it does for links
\* (ReadLinkTarget is not implemented) and for a file of another size.
WithSizeOf(n, content) ==
    IF content # None /\ SizeOf[content] = n.size THEN content ELSE None
RestoreNode(i, p) ==
    LET n == snapshots[i].nodes[p]
    IN  CASE n.type = "directory" -> "created"
          [] n.type = "file" -> WithSizeOf(n, RestoredContent(i, p))
          [] n.type = "link" -> None

\* VirtualSnapshotFilesystem::OpenFileForReading
OpenMounted(i, p) ==
    LET d == FindDataSnapshot(i)[p]
    IN  IF d = None THEN None ELSE OpenFileForReading(d.snapshot, d.path, TRUE)
QueryFileInfo(i, p) ==
    IF p \notin DOMAIN snapshots[i].nodes THEN None
    ELSE LET n == snapshots[i].nodes[p]
         IN  [type |-> n.type, size |-> n.size, mtime |-> n.mtime]

\* GenerateHashValue: the stored value, or one that is computed of the data; a slip
\* that looks for the data in the snapshot itself.
HashOfOwnBlocks(i, p, a) ==
    LET n == snapshots[i].nodes[p]
    IN  IF a \in DOMAIN n.hashes THEN n.hashes[a]
        ELSE WithSizeOf(n, OpenFileForReading(i, p, FALSE))
GenerateHashValue(i, p, a) ==
    LET n == snapshots[i].nodes[p]
        d == FindDataSnapshot(i)[p]
    IN  IF a \in DOMAIN n.hashes THEN n.hashes[a]
        ELSE IF d = None THEN None
        ELSE WithSizeOf(n, OpenFileForReading(d.snapshot, d.path, FALSE))

-----------------------------------------------------------------------------
\* NodeIndexDifferenceResolver::ComputeDiff of snapshot i and an index with the
\* attributes right, whose nodes RetrieveNodeHash gives the values in hash;
\* ResolveDifferences takes what was moved out of deleted, a slip does not.
Classes(i, right, hash) ==
    LET left == snapshots[i]
    IN  [p \in ComputeDifference(right, left.nodes) |->
            IF right[p].type = "directory" THEN NewData
            ELSE Classify(left.hashIndex[algorithm.is], left.nodes, p, hash[p])]
MovedFrom(classes) == {classes[p].from : p \in DOMAIN classes} \ {None}
DeletedOrMoved(i, right, classes) == ComputeDeleted(snapshots[i].nodes, right)
Deleted(i, right, classes) ==
    ComputeDeleted(snapshots[i].nodes, right) \ MovedFrom(classes)
ComputeDiff(i, right, hash) ==
    LET classes == Classes(i, right, hash)
    IN  [classes |-> classes, deleted |-> Deleted(i, right, classes)]

-----------------------------------------------------------------------------
\* DataFileTreeNode::LoadRevisions: the revisions of path p from snapshot i on, each
\* with the snapshot and the path of its data, and the snapshot and the path whose
\* node number it gets; None where FindDataSnapshot throws; if it went on from
\* the snapshot that it was at, and then from the one with the data.
LoadAllRevisions(i, p) ==
    LET from[j \in 0..i] ==
            [q \in Paths |->
                IF j = 0 THEN <<>>
                ELSE IF q \notin DOMAIN snapshots[j].nodes THEN <<>>
                ELSE LET d == FindDataSnapshot(j)[q]
                     IN  IF d = None THEN <<None>>
                         ELSE << [data |-> d, numberOf |-> [snapshot |-> j, path |-> q]] >>
                              \o from[j - 1][d.path]]
    IN  from[i][p]
LoadRevisions(i, p) ==
    LET from[j \in 0..i] ==
            [q \in Paths |->
                IF j = 0 THEN <<>>
                ELSE IF q \notin DOMAIN snapshots[j].nodes THEN <<>>
                ELSE LET d == FindDataSnapshot(j)[q]
                     IN  IF d = None THEN <<None>>
                         ELSE << [data |-> d, numberOf |-> [snapshot |-> j, path |-> q]] >>
                              \o from[d.snapshot - 1][d.path]]
    IN  from[i][p]

-----------------------------------------------------------------------------
\* The properties are of commands that run when no snapshot is being added: what
\* they read has not changed since.

\* Every reader gets the same of a node, and it is what the index records: restore
\* (of files only) and mount get its content if the configured algorithm is the one
\* that it was stored with, and mount shows its size beforehand; hash-snapshot -a
\* (main.cpp:87) is right for every algorithm, also for one that never was
\* configured or no longer is.
ReadersAgree ==
    phase = "idle" => \A i \in DOMAIN snapshots : \A p \in DataNodes(i) :
        OwnReferencesOnly(i, p) =>
            /\ \A a \in Algorithms : GenerateHashValue(i, p, a) = HashOf(i, p)
            /\ QueryFileInfo(i, p).size = SizeOf[HashOf(i, p)]
            /\ HasHash(i, p) =>
                /\ OpenMounted(i, p) = HashOf(i, p)
                /\ snapshots[i].nodes[p].type = "file" => RestoreNode(i, p) = HashOf(i, p)

\* A diff says the truth and accounts for every path: what it does not list is the
\* same in both, what has "metadata (only)" changed has the old content, a moved node
\* has that of the node it was moved from, data that "has changed" is in no old node,
\* and old paths that are gone are listed as deleted or moved, but not as both.
TruthfulDiff(i, right, content) ==
    LET diff_ == ComputeDiff(i, right, content)
        left == snapshots[i].nodes
        HasContent(q, p) == q \in DataNodes(i) /\ HashOf(i, q) = content[p]
        Listed(p, kind) == p \in DOMAIN diff_.classes /\ diff_.classes[p].kind = kind
    IN  /\ \A p \in {q \in DOMAIN right : right[q].type # "directory"} :
            /\ Listed(p, "data") => \A q \in DOMAIN left : ~HasContent(q, p)
            /\ Listed(p, "moved") =>
                 HasContent(diff_.classes[p].from, p) /\ diff_.classes[p].from # p
            /\ Listed(p, "metadata") \/ p \notin DOMAIN diff_.classes => HasContent(p, p)
        /\ \A q \in DOMAIN left \ DOMAIN right :
            (q \in diff_.deleted) # (q \in MovedFrom(diff_.classes))
AllHaveHash(i) == \A p \in DataNodes(i) : HasHash(i, p)
DiffIsTruthful ==
    phase = "idle" => \A i \in DOMAIN snapshots :
        AllHaveHash(i) /\ ~scanned.renamedBefore =>
        /\ \A j \in DOMAIN snapshots \ {i} : AllHaveHash(j) =>
            TruthfulDiff(i, snapshots[j].nodes, [p \in DataNodes(j) |-> HashOf(j, p)])
        /\ TruthfulDiff(i, [p \in DOMAIN source |-> AttributesOf(source[p])],
                        [p \in DOMAIN source |-> source[p].content])

\* The viewer lists every version of a file: of a path that was not moved since, each
\* snapshot that has stored it, and never one twice; two revisions that follow each
\* other have different contents (empty files, for which nothing is stored, files
\* that were edited between hashing and piping, versions that were stored with
\* different algorithms, and revisions that only a copied back reference leads to
\* aside).
RevisionsAreVersions ==
    phase = "idle" => \A i \in DOMAIN snapshots : \A p \in DataNodes(i) :
        LET revisions == LoadRevisions(i, p)
            listed == {k \in DOMAIN revisions : revisions[k] # None}
            At(k) == revisions[k].data
            Stayed(j) ==
                \A k \in j..i : p \in DataNodes(k) /\ snapshots[k].how[p] # "moved"
        IN  /\ \A j \in 1..i : Stayed(j) /\ snapshots[j].nodes[p].owns =>
                 \E k \in listed : At(k) = [snapshot |-> j, path |-> p]
            /\ \A k, l \in listed : k < l => At(k).snapshot > At(l).snapshot
            /\ \A k \in listed :
                 k + 1 \in listed /\ OwnReferencesOnly(At(k).snapshot - 1, At(k).path) =>
                 LET new == snapshots[At(k).snapshot].nodes[At(k).path]
                     old == snapshots[At(k + 1).snapshot].nodes[At(k + 1).path]
                 IN  new.size > 0 /\ ~EditsWhileAdding => new.hashes # old.hashes
=============================================================================
