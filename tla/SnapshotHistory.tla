-------------------------- MODULE SnapshotHistory --------------------------
(***************************************************************************)
(* The history of snapshots that SnapshotManager keeps of a source         *)
(* directory.  While the user edits the source, add-snapshot indexes it,   *)
(* finds the differences to the last snapshot, backs up the data of new    *)
(* and changed nodes and refers to older snapshots for all others:         *)
(* SnapshotManager::AddSnapshot, NodeIndexDifferenceResolver, and the      *)
(* Backup* methods and FindDataSnapshot of Snapshot.                       *)
(*                                                                         *)
(* An index is a function from the paths of its nodes to their attributes  *)
(* (pathMap is a bijection).  A hash value is the content it is the hash   *)
(* of, and the blocks of a node are one block that holds the content that  *)
(* was piped.  Paths are independent of each other.                        *)
(***************************************************************************)
EXTENDS IndexFormat, FiniteSets, Functions

CONSTANTS
    Paths,          \* the paths a node of the source can have
    Contents,       \* the contents of nodes
    SizeOf,         \* their sizes
    TypeOf,         \* and what type of node has them
    Algorithms,     \* the hash algorithms one can choose in the configuration
    None,           \* no path, no snapshot, no content
    EditKinds,      \* which edits of the source a run looks at,
    EditsWhileAdding,   \* and whether it does while a snapshot is added
    MaxEdits,       \* bound: edits of the source
    MaxSnapshots,   \* bound: length of the history
    MaxReconfigurations \* bound: changes of the hash algorithm

ASSUME PathsAssumption == IsFiniteSet(Paths)
ASSUME NoneAssumption == None \notin Paths \cup Contents \cup [snapshot : Nat, path : Paths]
ASSUME SizesAssumption == SizeOf \in [Contents -> Nat] /\ TypeOf \in [Contents -> Types]
ASSUME DirectoriesAssumption ==
    \A c \in Contents : TypeOf[c] = "directory" => SizeOf[c] = 0
\* There is one content without bytes, that of an empty file: the target of a link has some.
ASSUME EmptyAssumption ==
    \A c, d \in Contents :
        SizeOf[c] = 0 /\ TypeOf[c] # "directory" /\ SizeOf[d] = 0 /\ TypeOf[d] # "directory" =>
            c = d /\ TypeOf[c] = "file"
ASSUME BoundsAssumption ==
    MaxEdits \in Nat /\ MaxSnapshots \in Nat /\ MaxReconfigurations \in Nat

VARIABLES
    source,     \* the source directory: path -> content, mtime
    edits,      \* how often it was edited
    algorithm,  \* config.hashAlgorithm, and how often it was changed
    snapshots,  \* SnapshotManager.snapshots: their nodes and hash indexes, and,
                \* for the properties, the kinds of differences that they are from
    phase,      \* where add-snapshot is
    toVisit,    \* paths that the walk through the source has not come to
    index,      \* the OSFileSystemNodeIndex sourceIndex
    toHash,     \* nodes whose hash ComputeNodeDifferences still computes
    diff,       \* path -> the member of NodeIndexDifferences it is in
    piped,      \* path -> the content BackupNode has read
    scanned     \* observer: the source when the snapshot that is being added was
                \* begun, the paths that were edited since, whether one was renamed,
                \* and whether one was while an older snapshot was added

vars == <<source, edits, algorithm, snapshots, phase, toVisit, index, toHash, diff, piped,
          scanned>>

-----------------------------------------------------------------------------
PartialFunctions(S, T) == UNION {[D -> T] : D \in SUBSET S}
IsPartialFunction(f, S, T) == DOMAIN f \subseteq S /\ f \in [DOMAIN f -> T]
Times == 0..Cardinality(Paths) + MaxEdits
File == [content : Contents, mtime : Times]
Attributes == [type : Types, size : Nat, mtime : Times]
Difference == [kind : {"data", "metadata", "moved"}, from : Paths \cup {None}]

Extend(f, p, x) == [q \in DOMAIN f \cup {p} |-> IF q = p THEN x ELSE f[q]]
Without(f, p) == [q \in DOMAIN f \ {p} |-> f[q]]

LastIndex == snapshots[Len(snapshots)].nodes

\* FileSystemNodeAttributes(FileInfo) and its operator==; the latter without times.
AttributesOf(file) ==
    [type |-> TypeOf[file.content], size |-> SizeOf[file.content], mtime |-> file.mtime]
SameSize(a, b) == a.type = b.type /\ a.size = b.size
SameAttributes(a, b) == SameSize(a, b) /\ a.mtime = b.mtime

\* NodeIndexDifferenceResolver::ComputeDifference(left, right)
ComputeDifference(left, right) ==
    {p \in DOMAIN left : p \notin DOMAIN right \/ ~SameAttributes(left[p], right[p])}
\* ... and ComputeDeleted
ComputeDeleted(left, right) == {p \in ComputeDifference(left, right) : p \notin DOMAIN right}

\* BackupNodeIndex::HasNodeData
HasNodeData(node) == node.owns \/ node.size = 0

\* The index file is written and read in: what comes back of a node.
ReadIn(p, node) ==
    LET complete == Extend(Extend(node, "permissions", None), "compression", <<>>)
        read == Deserialize(Serialize(<< [path |-> p, attributes |-> complete] >>))
    IN  Restrict(read[1].attributes, DOMAIN node)

\* Snapshot::FindDataSnapshot for every node of snapshot i: the snapshot and the
\* path that have the data, None where it fails (GetNodeIndex of a path that the
\* previous snapshot does not have, or no previous snapshot).
Parent(node, p) == IF node.owner # <<>> THEN node.owner[1] ELSE p
FindDataSnapshot(i) ==
    LET find[j \in 0..i] ==
            [p \in Paths |->
                IF j = 0 THEN None
                ELSE LET nodes == snapshots[j].nodes
                     IN  IF p \notin DOMAIN nodes THEN None
                         ELSE IF HasNodeData(nodes[p]) THEN [snapshot |-> j, path |-> p]
                         ELSE find[j - 1][Parent(nodes[p], p)]]
    IN  find[i]

\* Snapshot::BackupNode, with the attributes a and the content c it piped; of a
\* directory it takes the attributes only.
BackupNode(a, c) ==
    [type |-> a.type, size |-> a.size, mtime |-> a.mtime,
     owns |-> a.size > 0, owner |-> <<>>,
     blocks |-> IF a.size > 0 THEN <<c>> ELSE <<>>,
     hashes |-> IF a.type = "directory" THEN <<>> ELSE [h \in {algorithm.is} |-> c]]

\* FileSystemNodeAttributes::CopyFrom: a copy of the old attributes gets the new
\* type, size and time.
CopyFrom(old, a) == [old EXCEPT !.type = a.type, !.size = a.size, !.mtime = a.mtime]

\* Snapshot::BackupNodeMetadata: OwnsBlocks(false); an old back reference is
\* copied too.  Two slips: CopyFrom is not called, or the copy stays the owner.
WithoutCopyFrom(old, a) == [old EXCEPT !.owns = FALSE]
KeepOwning(old, a) == CopyFrom(old, a)
BackupNodeMetadata(old, a) == [CopyFrom(old, a) EXCEPT !.owns = FALSE]

\* Snapshot::BackupMove: the same with a back reference to the old path; and
\* without it.
MoveWithoutTarget(old, a, oldPath) == [CopyFrom(old, a) EXCEPT !.owns = FALSE]
BackupMove(old, a, oldPath) ==
    [CopyFrom(old, a) EXCEPT !.owns = FALSE, !.owner = <<oldPath>>]

\* The node that AddSnapshot adds for path p.
NewNode(p) ==
    CASE diff[p].kind = "data" ->
            BackupNode(index[p], IF index[p].type = "directory" THEN None ELSE piped[p])
      [] diff[p].kind = "metadata" -> BackupNodeMetadata(LastIndex[p], index[p])
      [] diff[p].kind = "moved" ->
            BackupMove(LastIndex[diff[p].from], index[p], diff[p].from)

\* The orders in which AddSnapshot can add the nodes: the moved ones after those
\* of differentMetadata, and the thread pool adds data nodes at any time.
Orders ==
    {o \in [1..Cardinality(DOMAIN index) -> DOMAIN index] :
        /\ IsInjective(o)
        /\ \A i, j \in DOMAIN o :
            diff[o[i]].kind = "metadata" /\ diff[o[j]].kind = "moved" => i < j}
HashIndex(order, nodes) ==
    [a \in Algorithms |-> GenerateHashIndex(order, [p \in DOMAIN nodes |-> nodes[p].hashes], a)]

-----------------------------------------------------------------------------
Init ==
    /\ source \in PartialFunctions(Paths, File)
    /\ {source[p].mtime : p \in DOMAIN source} = 0..Cardinality(DOMAIN source) - 1
    /\ edits = 0
    /\ algorithm \in [is : Algorithms, changed : {0}]
    /\ snapshots = <<>>
    /\ phase = "idle"
    /\ toVisit = {}
    /\ index = <<>>
    /\ toHash = {}
    /\ diff = <<>>
    /\ piped = <<>>
    /\ scanned = [source |-> <<>>, touched |-> {}, renamed |-> FALSE, renamedBefore |-> FALSE]

\* The user edits the source, also while a snapshot is being added.
Edit(kind, paths, newSource) ==
    /\ kind \in EditKinds
    /\ phase = "idle" \/ EditsWhileAdding
    /\ edits < MaxEdits
    /\ edits' = edits + 1
    /\ source' = newSource
    /\ scanned' = IF phase = "idle" THEN scanned
                  ELSE [scanned EXCEPT !.touched = @ \cup paths,
                                       !.renamed = @ \/ kind = "rename"]
    /\ UNCHANGED <<algorithm, snapshots, phase, toVisit, index, toHash, diff, piped>>

\* The files that are there first have times of their own, each edit a later one;
\* only whether two times are equal matters.
Now == Cardinality(Paths) + edits
Write(p, c) == Edit("write", {p}, Extend(source, p, [content |-> c, mtime |-> Now]))
Remove(p) == p \in DOMAIN source /\ Edit("remove", {p}, Without(source, p))
Rename(p, q) ==
    /\ p \in DOMAIN source /\ p # q
    /\ Edit("rename", {p, q}, Without(Extend(source, q, source[p]), p))

EditSource ==
    \/ \E p \in Paths, c \in Contents : Write(p, c)
    \/ \E p \in Paths : Remove(p)
    \/ \E p, q \in Paths : Rename(p, q)

\* The user changes hashAlgorithm in config.json; a program that runs has read it.
Reconfigure ==
    /\ phase = "idle"
    /\ algorithm.changed < MaxReconfigurations
    /\ \E a \in Algorithms \ {algorithm.is} :
        algorithm' = [is |-> a, changed |-> algorithm.changed + 1]
    /\ UNCHANGED <<source, edits, snapshots, phase, toVisit, index, toHash, diff, piped, scanned>>

\* add-snapshot: OSFileSystemNodeIndex begins its walk.
BeginSnapshot ==
    /\ phase = "idle"
    /\ Len(snapshots) < MaxSnapshots
    /\ phase' = "indexing"
    /\ toVisit' = Paths
    /\ scanned' = [scanned EXCEPT !.source = source]
    /\ UNCHANGED <<source, edits, algorithm, snapshots, index, toHash, diff, piped>>

\* IndexFile: the walk comes to each path at some time and takes what it finds
\* there; a file that appears, or is renamed to the path, later is not found.
IndexFile(p) ==
    /\ phase = "indexing"
    /\ p \in toVisit
    /\ toVisit' = toVisit \ {p}
    /\ index' = IF p \in DOMAIN source THEN Extend(index, p, AttributesOf(source[p])) ELSE index
    /\ UNCHANGED <<source, edits, algorithm, snapshots, phase, toHash, diff, piped, scanned>>

\* SnapshotManager::ComputeDifference takes what has not changed for
\* differentMetadata (all for differentData if there is no snapshot).
CompareIndexes ==
    /\ phase = "indexing"
    /\ toVisit = {}
    /\ IF snapshots = <<>>
       THEN /\ toHash' = {}
            /\ diff' = [p \in DOMAIN index |-> [kind |-> "data", from |-> None]]
       ELSE /\ toHash' = ComputeDifference(index, LastIndex)
            /\ diff' = [p \in DOMAIN index \ toHash' |->
                            [kind |-> "metadata", from |-> None]]
    /\ phase' = "adding"
    /\ UNCHANGED <<source, edits, algorithm, snapshots, toVisit, index, piped, scanned>>

\* p is there, and what the code reads of it now has the size that was indexed;
\* without the comparison of readSize.
Exists(p) == p \in DOMAIN source
Readable(p) == p \in DOMAIN source /\ SameSize(AttributesOf(source[p]), index[p])

\* ComputeNodeDifferences: how the hash of p classifies it against an index with
\* this hash index (whose last nodes are hi) and these nodes; a form that takes a
\* known hash at a known path for the same node.
NewData == [kind |-> "data", from |-> None]
SameNode == [kind |-> "metadata", from |-> None]
ClassifyAsMetadata(hi, nodes, p, hash) ==
    IF hash \in DOMAIN hi /\ p \in DOMAIN nodes THEN SameNode ELSE NewData
Classify(hi, nodes, p, hash) ==
    IF hash \notin DOMAIN hi THEN NewData
    ELSE IF hi[hash] = p THEN SameNode
    ELSE [kind |-> "moved", from |-> hi[hash]]

HashNode(p) ==
    /\ phase = "adding"
    /\ p \in toHash
    /\ index[p].type = "directory" \/ Readable(p)
    /\ toHash' = toHash \ {p}
    /\ LET last == snapshots[Len(snapshots)]
       IN  diff' = Extend(diff, p,
                IF index[p].type = "directory" THEN NewData
                ELSE Classify(last.hashIndex[algorithm.is], last.nodes, p, source[p].content))
    /\ UNCHANGED <<source, edits, algorithm, snapshots, phase, toVisit, index, piped, scanned>>

\* One task of the thread pool; all hashes are known by then.
ToPipe ==
    {p \in DOMAIN diff : diff[p].kind = "data" /\ index[p].type # "directory"} \ DOMAIN piped
PipeNode(p) ==
    /\ phase = "adding"
    /\ toHash = {}
    /\ p \in ToPipe
    /\ Readable(p)
    /\ piped' = Extend(piped, p, source[p].content)
    /\ UNCHANGED <<source, edits, algorithm, snapshots, phase, toVisit, index, toHash, diff, scanned>>

\* What the command kept in memory is gone.
EndOfCommand(renamed) ==
    /\ phase' = "idle"
    /\ toVisit' = {}
    /\ index' = <<>>
    /\ toHash' = {}
    /\ diff' = <<>>
    /\ piped' = <<>>
    /\ scanned' = [source |-> <<>>, touched |-> {}, renamed |-> FALSE,
                   renamedBefore |-> scanned.renamedBefore \/ renamed]

\* A file that was listed is gone before its attributes are read, or ComputeNodeHash
\* or BackupNode finds another size, or no file: it throws and the command ends
\* before an index file is written.
Vanished(p) == p \in (toVisit \cap scanned.touched) \ DOMAIN source
Unreadable(p) ==
    /\ p \in toHash \cup IF toHash = {} THEN ToPipe ELSE {}
    /\ index[p].type # "directory" /\ ~Readable(p)
Abort ==
    /\ \/ phase = "indexing" /\ \E p \in Paths : Vanished(p)
       \/ phase = "adding" /\ \E p \in Paths : Unreadable(p)
    /\ EndOfCommand(FALSE)
    /\ UNCHANGED <<source, edits, algorithm, snapshots>>

\* All nodes are added: the index is serialised and read in again.
FinishSnapshot ==
    /\ phase = "adding"
    /\ toHash = {}
    /\ ToPipe = {}
    /\ LET nodes == [p \in DOMAIN index |-> ReadIn(p, NewNode(p))]
       IN  \E hi \in {HashIndex(o, nodes) : o \in Orders} :
              snapshots' = Append(snapshots,
                  [nodes |-> nodes, hashIndex |-> hi,
                   how |-> [p \in DOMAIN diff |-> diff[p].kind]])
    /\ EndOfCommand(scanned.renamed)
    /\ UNCHANGED <<source, edits, algorithm>>

Finished ==
    /\ phase = "idle"
    /\ Len(snapshots) = MaxSnapshots
    /\ UNCHANGED vars

Next ==
    \/ EditSource
    \/ Reconfigure
    \/ BeginSnapshot
    \/ \E p \in Paths : IndexFile(p)
    \/ CompareIndexes
    \/ \E p \in Paths : HashNode(p)
    \/ \E p \in Paths : PipeNode(p)
    \/ Abort
    \/ FinishSnapshot
    \/ Finished

Spec == Init /\ [][Next]_vars

-----------------------------------------------------------------------------
Hashes == PartialFunctions(Algorithms, Contents)
Optional(S) == {<<>>} \cup {<<x>> : x \in S}
Node == [type : Types, size : Nat, mtime : Times, owns : BOOLEAN, owner : Optional(Paths),
         blocks : Optional(Contents), hashes : Hashes]

\* Every index has nodes of the right type, its hash index finds a node for
\* exactly the hashes that it has, and no size is recorded with the hash of a
\* content of another size.
TypeOK ==
    /\ IsPartialFunction(source, Paths, File)
    /\ edits \in 0..MaxEdits
    /\ algorithm \in [is : Algorithms, changed : 0..MaxReconfigurations]
    /\ phase \in {"idle", "indexing", "adding"}
    /\ toVisit \subseteq Paths
    /\ IsPartialFunction(index, Paths, Attributes)
    /\ toHash \subseteq DOMAIN index
    /\ IsPartialFunction(diff, DOMAIN index, Difference)
    /\ IsPartialFunction(piped, DOMAIN diff, Contents)
    /\ Len(snapshots) <= MaxSnapshots
    /\ \A i \in DOMAIN snapshots : LET s == snapshots[i] IN
        /\ IsPartialFunction(s.nodes, Paths, Node)
        /\ \A p \in DOMAIN s.nodes : \A a \in DOMAIN s.nodes[p].hashes :
            s.nodes[p].size = SizeOf[s.nodes[p].hashes[a]]
        /\ \A a \in Algorithms :
            LET hi == s.hashIndex[a]
                hashed == {p \in DOMAIN s.nodes : a \in DOMAIN s.nodes[p].hashes}
            IN  /\ DOMAIN hi = {s.nodes[p].hashes[a] : p \in hashed}
                /\ \A h \in DOMAIN hi : hi[h] \in hashed /\ s.nodes[hi[h]].hashes[a] = h

\* FlatVolumesFileSystem::OpenFileForReading for path p of snapshot i, and all
\* that is read: None where it throws.  A node that does not own its blocks names
\* places in the volumes of another snapshot.
EmptyContent == CHOOSE c \in Contents : SizeOf[c] = 0 /\ TypeOf[c] = "file"
Stored(n) == IF n.blocks = <<>> THEN EmptyContent ELSE IF n.owns THEN n.blocks[1] ELSE None
OpenFileForReading(i, p, verify) ==
    LET n == snapshots[i].nodes[p]
    IN  IF verify /\ ~(algorithm.is \in DOMAIN n.hashes /\ n.hashes[algorithm.is] = Stored(n))
        THEN None ELSE Stored(n)

\* The bytes Restore reads for node p of snapshot i.
RestoredContent(i, p) ==
    LET d == FindDataSnapshot(i)[p]
    IN  IF d = None THEN None ELSE OpenFileForReading(d.snapshot, d.path, TRUE)

\* The back references that FindDataSnapshot follows from node p of snapshot i
\* were all made by BackupMove in the snapshot that holds them, none was copied
\* by a later BackupNodeMetadata.
OwnReferencesOnly(i, p) ==
    LET own[j \in 0..i] ==
            [q \in Paths |->
                j = 0 \/ q \notin DOMAIN snapshots[j].nodes \/
                LET n == snapshots[j].nodes[q]
                IN  \/ HasNodeData(n)
                    \/ /\ snapshots[j].how[q] = "metadata" => n.owner = <<>>
                       /\ own[j - 1][Parent(n, q)]]
    IN  own[i][p]

\* Files and links have one hash, of the algorithm that was configured when their
\* data was stored.
DataNodes(i) == {p \in DOMAIN snapshots[i].nodes : snapshots[i].nodes[p].type # "directory"}
OneOf(hashes) == IF DOMAIN hashes = {} THEN None ELSE hashes[CHOOSE a \in DOMAIN hashes : TRUE]
HashIn(node) == OneOf(node.hashes)
HashOf(i, p) == HashIn(snapshots[i].nodes[p])
HasHash(i, p) == algorithm.is \in DOMAIN snapshots[i].nodes[p].hashes
Restorable(i, p) == RestoredContent(i, p) = HashOf(i, p)

\* Deduplication is sound: through every chain of unchanged and moved nodes that
\* has no copied back reference, restoring gives the content whose hash is
\* recorded, whatever was edited, renamed or replaced in between; with another
\* hash algorithm than it was stored with it fails, and gives nothing wrong.
OwnReferencesRestore ==
    phase = "idle" => \A i \in DOMAIN snapshots : \A p \in DataNodes(i) :
        OwnReferencesOnly(i, p) =>
            RestoredContent(i, p) = IF HasHash(i, p) THEN HashOf(i, p) ELSE None

\* Snapshot.hpp:70-73: FindDataSnapshot "finds the newest snapshot that has the
\* payload data of the node".
EveryNodeRestores ==
    \A i \in DOMAIN snapshots : \A p \in DataNodes(i) : Restorable(i, p)

\* A path that nobody edited while a snapshot was added is in it exactly as it was,
\* with its size and time and the hash of its content, or is not in it, whatever
\* happened to the other paths meanwhile and to all paths before (a rename that
\* raced with an older snapshot aside, as below).
UntouchedIsRecorded ==
    [][Len(snapshots') > Len(snapshots) /\ ~scanned.renamedBefore =>
        LET then == scanned.source
            nodes == snapshots'[Len(snapshots')].nodes
        IN  \A p \in Paths \ scanned.touched :
            /\ p \in DOMAIN nodes <=> p \in DOMAIN then
            /\ p \in DOMAIN nodes =>
                /\ SameAttributes(nodes[p], AttributesOf(then[p]))
                /\ nodes[p].type # "directory" => HashIn(nodes[p]) = then[p].content]_vars

\* A write is not lost, not even one that raced with a snapshot: a node that the
\* next diff takes for unchanged has the content that was recorded.  Renames
\* while a snapshot is added are left out: BackupNode compares only sizes, and a
\* file of that size that is moved to the path, and away again, goes unnoticed.
Unchanged(p) == SameAttributes(AttributesOf(source[p]), LastIndex[p])
UnchangedMeansRecorded ==
    snapshots # <<>> /\ ~scanned.renamedBefore =>
        \A p \in DOMAIN source \cap DOMAIN LastIndex :
            Unchanged(p) /\ LastIndex[p].type # "directory" =>
                HashOf(Len(snapshots), p) = source[p].content

\* README.md:8: the newest snapshot holds only new data: what it stores of a path
\* that was not edited meanwhile was in no node of the snapshot before.
OnlyNewDataIsStored ==
    [][Len(snapshots') > Len(snapshots) /\ snapshots # <<>> =>
        LET nodes == snapshots'[Len(snapshots')].nodes
        IN  \A p \in DOMAIN nodes \ scanned.touched : nodes[p].owns =>
                \A q \in DOMAIN LastIndex : LastIndex[q].hashes # nodes[p].hashes]_vars

\* EnsureNoDifferenceExists, called on the snapshot just read in, never throws.
NoDifferenceAfterwards ==
    [][Len(snapshots') > Len(snapshots) =>
        LET nodes == snapshots'[Len(snapshots')].nodes
        IN  /\ ComputeDifference(index, nodes) = {}
            /\ ComputeDeleted(nodes, index) = {}]_vars
=============================================================================
