--------------------------- MODULE SnapshotStore ---------------------------
(***************************************************************************)
(* The files of a backup directory and the programs that work on it: how   *)
(* add-snapshot writes volumes, index file and hash file of a snapshot and *)
(* reads all snapshots in again, and how verify and verify-all find out    *)
(* whether what is there can be restored.  Programs can overlap or be      *)
(* killed between any two steps, files can rot, and the clock that names   *)
(* the snapshots can be slower than they are.                              *)
(*                                                                         *)
(* The source has always the same paths, and every edit makes a new        *)
(* version of one of them: what SnapshotHistory says of removed, new and   *)
(* moved nodes is not repeated.  A hash file holds the index it is the     *)
(* hash of; an index holds for each path the version it was listed with    *)
(* (size and times), the version that was piped (its hash) and whether     *)
(* the snapshot owns its blocks.                                           *)
(***************************************************************************)
EXTENDS Integers, Sequences, FiniteSets, SequencesExt

CONSTANTS
    Paths,              \* the paths of the source
    Programs,           \* the programs that can run at the same time
    CommandsOf,         \* the commands that each of them can be started with
    NoName,             \* no snapshot
    MaxClock,           \* bound: seconds
    MaxEdits,           \* bound: edits of the source
    MaxKills,           \* bound: programs that are killed
    MaxCorruptions      \* bound: files that rot

Names == 1..MaxClock    \* snapshot_<date>_<time>, sorted as the times are
Versions == 0..MaxEdits
Garbage == MaxEdits + 1 \* what is read from a file that has rotted

Commands == {"add-snapshot", "verify", "verify -s", "verify-all"}

ASSUME CommandsAssumption == CommandsOf \in [Programs -> SUBSET Commands]
ASSUME NoNameAssumption == NoName \notin Names
ASSUME BoundsAssumption ==
    /\ MaxClock \in Nat \ {0}
    /\ MaxEdits \in Nat
    /\ MaxKills \in Nat
    /\ MaxCorruptions \in Nat

VARIABLES
    source,             \* the version of each path of the source
    clock,              \* DateTime::Now() in seconds
    volumes,            \* data/<name>: the bytes of the nodes that it owns
    indexFiles,         \* index/<name>.xml.lzma
    hashFiles,          \* index/<name>.xml_hash.json
    protectedDirs,      \* the write-protected ones of data and index
    protectedSnapshots, \* the snapshots whose files are write-protected
    program,            \* the programs, see Program
    used,               \* how often an edit, a kill, a corruption has happened
    written             \* observer: the indexes that were serialised, and the
                        \* bases they refer to

disk == <<volumes, indexFiles, hashFiles, protectedDirs, protectedSnapshots>>
environment == <<source, clock, used>>
vars == <<disk, environment, program, written>>

-----------------------------------------------------------------------------
PartialFunctions(S, T) == UNION {[D -> T] : D \in SUBSET S}
Extend(f, x, y) == [z \in DOMAIN f \cup {x} |-> IF z = x THEN y ELSE f[z]]

Node == [listed : Versions, content : Versions \cup {Garbage}, owns : BOOLEAN]
Index == [Paths -> Node]
Empty == <<>>               \* a file that is created and not written

Snapshot == [name : Names, nodes : Index]
Program == [command : Commands \cup {"none"},
            pc : {"ended", "list", "read", "index", "pipe", "protectData",
                  "unprotectIndex", "createIndex", "writeIndex", "createHash",
                  "writeHash", "protectFiles", "protectIndex", "check", "verify"},
            toRead : Seq(Names),        \* ReadInSnapshots: the files to come
            loaded : Seq(Snapshot),     \* SnapshotManager.snapshots
            name : Names \cup {NoName}, \* Snapshot.name
            listed : PartialFunctions(Paths, Versions),     \* sourceIndex
            data : SUBSET Paths,                            \* differentData
            piped : PartialFunctions(Paths, Versions),
            createdDataDir : BOOLEAN,
            result : {"none", "failure", "success"}]        \* what it reports

NotRunning(result) ==
    [command |-> "none", pc |-> "ended", toRead |-> <<>>,
     loaded |-> <<>>, name |-> NoName, listed |-> <<>>, data |-> {},
     piped |-> <<>>, createdDataDir |-> FALSE, result |-> result]

Init ==
    /\ source = [p \in Paths |-> 0]
    /\ clock = 1
    /\ volumes = <<>>
    /\ indexFiles = <<>>
    /\ hashFiles = <<>>
    /\ protectedDirs = {}
    /\ protectedSnapshots = {}
    /\ program = [g \in Programs |-> NotRunning("none")]
    /\ used = [edits |-> 0, kills |-> 0, corruptions |-> 0]
    /\ written = <<>>

At(g, pc) == program[g].pc = pc
Continue(g, pc) == program' = [program EXCEPT ![g].pc = pc]
\* An exception ends the program, and so does its end.
End(g, result) == program' = [program EXCEPT ![g] = NotRunning(result)]

Start(g) ==
    /\ At(g, "ended")
    /\ \E c \in CommandsOf[g] :
        program' = [program EXCEPT ![g] =
                        [NotRunning("none") EXCEPT !.command = c, !.pc = "list"]]
    /\ UNCHANGED <<disk, environment, written>>

-----------------------------------------------------------------------------
\* The names in the order of their times.
Ascending(names) ==
    CHOOSE s \in [1..Cardinality(names) -> names] : \A i, j \in DOMAIN s : i < j => s[i] < s[j]
\* ReadInSnapshots: the names are sorted; and if they were not.
Unsorted(names) ==
    CHOOSE s \in [1..Cardinality(names) -> names] : \A i, j \in DOMAIN s : i < j => s[i] > s[j]
Sorted(names) == Ascending(names)
ListSnapshotMetadataFiles(g) ==
    /\ At(g, "list")
    /\ program' = [program EXCEPT ![g].toRead = Sorted(DOMAIN indexFiles),
                                  ![g].loaded = <<>>, ![g].pc = "read"]
    /\ UNCHANGED <<disk, environment, written>>

\* Snapshot::Deserialize needs a hash file that can be parsed and an index with
\* that hash; without the comparison of the hashes.
Parsed(n) == n \in DOMAIN hashFiles /\ hashFiles[n] # Empty /\ indexFiles[n] # Empty
Intact(n) == Parsed(n) /\ indexFiles[n] = hashFiles[n]
Deserialize(g) ==
    LET n == Head(program[g].toRead) IN
    /\ At(g, "read")
    /\ program[g].toRead # <<>>
    /\ IF Intact(n)
       THEN program' = [program EXCEPT
                ![g].toRead = Tail(@),
                ![g].loaded = Append(@, [name |-> n, nodes |-> indexFiles[n]])]
       ELSE End(g, "failure")
    /\ UNCHANGED <<disk, environment, written>>

Adds(g) == program[g].command = "add-snapshot"
SnapshotsAreRead(g) ==
    /\ At(g, "read")
    /\ program[g].toRead = <<>>
    /\ CASE Adds(g) /\ program[g].name = NoName -> Continue(g, "index")
         [] Adds(g) /\ program[g].name # NoName -> Continue(g, "check")
         [] ~Adds(g) /\ program[g].loaded = <<>> -> End(g, "failure")
         [] ~Adds(g) /\ program[g].loaded # <<>> -> Continue(g, "verify")
    /\ UNCHANGED <<disk, environment, written>>

LastOf(g) == program[g].loaded[Len(program[g].loaded)]

-----------------------------------------------------------------------------
\* AddSnapshot: the source is indexed, and compared with the last snapshot;
\* the data directory is unprotected and the new snapshot takes its name.
Different(g) ==
    IF program[g].loaded = <<>> THEN Paths
    ELSE {p \in Paths : LastOf(g).nodes[p].listed # source[p]}
Base(g) == IF program[g].loaded = <<>> THEN NoName ELSE LastOf(g).name
BeginSnapshot(g) ==
    /\ At(g, "index")
    /\ program' = [program EXCEPT ![g].listed = source, ![g].data = Different(g),
                                  ![g].name = clock, ![g].pc = "pipe"]
    /\ protectedDirs' = protectedDirs \ {"data"}
    /\ UNCHANGED <<volumes, indexFiles, hashFiles, protectedSnapshots, environment, written>>

\* BackupNode of one node.  The first one creates the directory of the snapshot
\* and its first volume, which fails where they exist or data is protected.
CanStore(g) ==
    \/ program[g].createdDataDir
    \/ program[g].name \notin DOMAIN volumes /\ "data" \notin protectedDirs
\* What the volumes hold already; and if each node started them anew.
NothingStored(g) == Empty
Stored(g) == IF program[g].createdDataDir THEN volumes[program[g].name] ELSE Empty
PipeNode(g, p) ==
    /\ At(g, "pipe")
    /\ p \in program[g].data \ DOMAIN program[g].piped
    /\ IF CanStore(g)
       THEN /\ volumes' = Extend(volumes, program[g].name, Extend(Stored(g), p, source[p]))
            /\ program' = [program EXCEPT ![g].piped = Extend(@, p, source[p]),
                                          ![g].createdDataDir = TRUE]
       ELSE End(g, "failure") /\ UNCHANGED volumes
    /\ UNCHANGED <<indexFiles, hashFiles, protectedDirs, protectedSnapshots,
                   environment, written>>
AllPiped(g) ==
    /\ At(g, "pipe")
    /\ program[g].data = DOMAIN program[g].piped
    /\ Continue(g, "protectData")
    /\ UNCHANGED <<disk, environment, written>>

\* WriteProtectFile of a directory; and if it did nothing.
StillUnprotected(dir) == protectedDirs
WriteProtected(dir) == protectedDirs \cup {dir}

\* WriteProtectFile(dataPath), UnprotectFile(indexPath)
ProtectData(g) ==
    /\ At(g, "protectData")
    /\ protectedDirs' = WriteProtected("data")
    /\ Continue(g, "unprotectIndex")
    /\ UNCHANGED <<volumes, indexFiles, hashFiles, protectedSnapshots, environment, written>>
UnprotectIndex(g) ==
    /\ At(g, "unprotectIndex")
    /\ protectedDirs' = protectedDirs \ {"index"}
    /\ Continue(g, "createIndex")
    /\ UNCHANGED <<volumes, indexFiles, hashFiles, protectedSnapshots, environment, written>>

\* The index of the new snapshot: piped nodes, and copies of the old attributes.
NewIndex(g) ==
    [p \in Paths |->
        [listed |-> program[g].listed[p],
         content |-> IF p \in program[g].data THEN program[g].piped[p]
                     ELSE LastOf(g).nodes[p].content,
         owns |-> p \in program[g].data]]

\* FileOutputStream without overwrite: a new file in a directory that is not
\* protected; and one that overwrites.
Overwriting(files, n) == "index" \notin protectedDirs
CanCreate(files, n) == n \notin DOMAIN files /\ "index" \notin protectedDirs

\* Serialize: the index file is created, written, and then the hash file.
CreateIndex(g) ==
    /\ At(g, "createIndex")
    /\ IF CanCreate(indexFiles, program[g].name)
       THEN /\ indexFiles' = Extend(indexFiles, program[g].name, Empty)
            /\ Continue(g, "writeIndex")
       ELSE End(g, "failure") /\ UNCHANGED indexFiles
    /\ UNCHANGED <<volumes, hashFiles, protectedDirs, protectedSnapshots, environment, written>>
WriteIndex(g) ==
    /\ At(g, "writeIndex")
    /\ indexFiles' = [indexFiles EXCEPT ![program[g].name] = NewIndex(g)]
    /\ written' = Extend(written, program[g].name,
                         [base |-> Base(g), nodes |-> NewIndex(g)])
    /\ Continue(g, "createHash")
    /\ UNCHANGED <<volumes, hashFiles, protectedDirs, protectedSnapshots, environment>>
CreateHash(g) ==
    /\ At(g, "createHash")
    /\ IF CanCreate(hashFiles, program[g].name)
       THEN /\ hashFiles' = Extend(hashFiles, program[g].name, Empty)
            /\ Continue(g, "writeHash")
       ELSE End(g, "failure") /\ UNCHANGED hashFiles
    /\ UNCHANGED <<volumes, indexFiles, protectedDirs, protectedSnapshots, environment, written>>
WriteHash(g) ==
    /\ At(g, "writeHash")
    /\ hashFiles' = [hashFiles EXCEPT ![program[g].name] = NewIndex(g)]
    /\ Continue(g, "protectFiles")
    /\ UNCHANGED <<volumes, indexFiles, protectedDirs, protectedSnapshots, environment, written>>

\* Snapshot::WriteProtect protects volumes, index and hash file one after another,
\* here in one step; then WriteProtectFile(indexPath), and the snapshots are read in
\* again.
ProtectFiles(g) ==
    /\ At(g, "protectFiles")
    /\ protectedSnapshots' = protectedSnapshots \cup {program[g].name}
    /\ Continue(g, "protectIndex")
    /\ UNCHANGED <<volumes, indexFiles, hashFiles, protectedDirs, environment, written>>
ProtectIndex(g) ==
    /\ At(g, "protectIndex")
    /\ protectedDirs' = WriteProtected("index")
    /\ Continue(g, "list")
    /\ UNCHANGED <<volumes, indexFiles, hashFiles, protectedSnapshots, environment, written>>

\* EnsureNoDifferenceExists
Check(g) ==
    /\ At(g, "check")
    /\ IF \A p \in Paths : LastOf(g).nodes[p].listed = program[g].listed[p]
       THEN Continue(g, "verify")
       ELSE End(g, "failure")
    /\ UNCHANGED <<disk, environment, written>>

-----------------------------------------------------------------------------
\* FindDataSnapshot for node p of the i-th of a sequence of snapshots: 0 where
\* it would follow a previous snapshot that is not there.
FindDataSnapshot(loaded, i, p) ==
    LET find[j \in 0..i] == IF j = 0 \/ loaded[j].nodes[p].owns THEN j ELSE find[j - 1]
    IN  find[i]

\* VerifyNode: what is stored has the hash that the owner's index has.
Read(n, p) == IF n \in DOMAIN volumes THEN volumes[n][p] ELSE Garbage
VerifyNode(snapshot, p) == Read(snapshot.name, p) = snapshot.nodes[p].content

\* VerifySnapshot: all nodes, or only those whose data the snapshot has.
LocalOnly(full) == FALSE
BackReferencesToo(full) == full
VerifySnapshot(loaded, i, full) ==
    \A p \in Paths :
        LET d == FindDataSnapshot(loaded, i, p)
        IN  d = i \/ BackReferencesToo(full) => VerifyNode(loaded[d], p)

\* The snapshots that a command verifies: the newest one, the one that is named
\* with -s, or all of them; those before the newest one without back references.
Named(g) == IF program[g].command = "verify -s" THEN DOMAIN program[g].loaded
            ELSE {Len(program[g].loaded)}
Verified(g, i) == IF program[g].command = "verify-all" THEN DOMAIN program[g].loaded ELSE {i}
Full(g, i) == program[g].command # "verify-all" /\ i = Len(program[g].loaded)

Resolvable(loaded, i) == \A p \in Paths : FindDataSnapshot(loaded, i, p) # 0
Verify(g, i) ==
    LET loaded == program[g].loaded IN
    /\ At(g, "verify")
    /\ i \in Named(g)
    /\ CASE \E j \in Verified(g, i) : ~Resolvable(loaded, j) -> End(g, "none")
         [] \A j \in Verified(g, i) :
                Resolvable(loaded, j) /\ VerifySnapshot(loaded, j, Full(g, i)) ->
              End(g, "success")
         [] OTHER -> End(g, "failure")
    /\ UNCHANGED <<disk, environment, written>>

-----------------------------------------------------------------------------
\* The user edits the source, the clock goes on.
Edit(p) ==
    /\ used.edits < MaxEdits
    /\ used' = [used EXCEPT !.edits = @ + 1]
    /\ source' = [source EXCEPT ![p] = used.edits + 1]
    /\ UNCHANGED <<disk, clock, program, written>>
Tick ==
    /\ clock < MaxClock
    /\ clock' = clock + 1
    /\ UNCHANGED <<disk, source, used, program, written>>

\* A program is killed: what it has written stays.
Kill(g) ==
    /\ ~At(g, "ended")
    /\ used.kills < MaxKills
    /\ used' = [used EXCEPT !.kills = @ + 1]
    /\ End(g, "none")
    /\ UNCHANGED <<disk, source, clock, written>>

\* A volume, an index or a hash file rots.
Rotten(nodes) == [p \in Paths |-> [nodes[p] EXCEPT !.content = Garbage]]
Corrupt(n) ==
    /\ used.corruptions < MaxCorruptions
    /\ used' = [used EXCEPT !.corruptions = @ + 1]
    /\ Intact(n)
    /\ \/ /\ n \in DOMAIN volumes
          /\ \E p \in DOMAIN volumes[n] : volumes' = [volumes EXCEPT ![n][p] = Garbage]
          /\ UNCHANGED <<indexFiles, hashFiles>>
       \/ /\ indexFiles' = [indexFiles EXCEPT ![n] = Rotten(@)]
          /\ UNCHANGED <<volumes, hashFiles>>
       \/ /\ hashFiles' = [hashFiles EXCEPT ![n] = Rotten(@)]
          /\ UNCHANGED <<volumes, indexFiles>>
    /\ UNCHANGED <<protectedDirs, protectedSnapshots, source, clock, program, written>>

AddSnapshot(g) ==
    \/ BeginSnapshot(g)
    \/ \E p \in Paths : PipeNode(g, p)
    \/ AllPiped(g)
    \/ ProtectData(g) \/ UnprotectIndex(g)
    \/ CreateIndex(g) \/ WriteIndex(g) \/ CreateHash(g) \/ WriteHash(g)
    \/ ProtectFiles(g) \/ ProtectIndex(g)
    \/ Check(g)
ReadInSnapshots(g) ==
    ListSnapshotMetadataFiles(g) \/ Deserialize(g) \/ SnapshotsAreRead(g)
Step(g) ==
    Start(g) \/ ReadInSnapshots(g) \/ AddSnapshot(g) \/ \E i \in Names : Verify(g, i)
Environment ==
    \/ \E p \in Paths : Edit(p)
    \/ Tick
    \/ \E g \in Programs : Kill(g)
    \/ \E n \in DOMAIN hashFiles : Corrupt(n)

Next == (\E g \in Programs : Step(g)) \/ Environment

Spec == Init /\ [][Next]_vars

-----------------------------------------------------------------------------
\* The files and the programs have their types, and the nodes that a complete
\* index owns are in its volumes, where a killed program of the same second can
\* have left more.
TypeOK ==
    /\ source \in [Paths -> Versions]
    /\ clock \in Names
    /\ \A n \in DOMAIN volumes :
        /\ n \in Names
        /\ DOMAIN volumes[n] \subseteq Paths
        /\ \A p \in DOMAIN volumes[n] : volumes[n][p] \in Versions \cup {Garbage}
    /\ DOMAIN hashFiles \subseteq DOMAIN indexFiles
    /\ \A n \in DOMAIN indexFiles : n \in Names /\ indexFiles[n] \in Index \cup {Empty}
    /\ \A n \in DOMAIN hashFiles : hashFiles[n] \in Index \cup {Empty}
    /\ protectedDirs \subseteq {"data", "index"}
    /\ protectedSnapshots \subseteq DOMAIN hashFiles
    /\ program \in [Programs -> Program]
    /\ \A n \in DOMAIN indexFiles : Intact(n) =>
        {p \in Paths : indexFiles[n][p].owns} \subseteq
            IF n \in DOMAIN volumes THEN DOMAIN volumes[n] ELSE {}

\* The snapshots that are complete, in the order in which they are read in.
Committed == {n \in DOMAIN indexFiles : Intact(n)}
Log == LET names == Ascending(Committed)
       IN  [i \in DOMAIN names |-> [name |-> names[i], nodes |-> indexFiles[names[i]]]]

\* What Restore writes for node p of the i-th snapshot.
Restored(loaded, i, p) ==
    LET d == FindDataSnapshot(loaded, i, p)
    IN  IF d = 0 THEN Garbage ELSE Read(loaded[d].name, p)

\* The refinement: a backup directory is a log of what its snapshots restore to.
\* A step of WriteHash appends, and nothing else is ever seen to change, wherever
\* a program is killed: neither what an older snapshot restores to nor how many
\* there are.
SnapshotLog == INSTANCE SnapshotLog WITH
    States <- [Paths -> Versions],
    log <- [i \in DOMAIN Log |-> [p \in Paths |-> Restored(Log, i, p)]],
    readable <- DOMAIN indexFiles = Committed
ImplementsSnapshotLog == SnapshotLog!Spec

\* Back references point to the snapshot before by name only: the snapshot that
\* one is read in after is the one that it was compared with when it was added,
\* also when programs in between were killed with their names taken.
BaseIsPrevious ==
    \A i \in DOMAIN Log :
        written[Log[i].name].base = IF i = 1 THEN NoName ELSE Log[i - 1].name

\* When AddSnapshot reads its snapshot in again, everything of it and both
\* directories are write-protected, whatever state a killed program left them in.
ReadsProtectedFiles ==
    \A g \in Programs :
        /\ Adds(g) /\ program[g].name # NoName
        /\ program[g].pc \in {"list", "read", "check", "verify"}
        => /\ protectedDirs = {"data", "index"}
           /\ program[g].name \in protectedSnapshots

\* The snapshots whose indexes were serialised, in the order of their names.
Written == LET names == Ascending(DOMAIN written)
           IN  [i \in DOMAIN names |->
                   [name |-> names[i], nodes |-> written[names[i]].nodes]]

\* Every program works with the first snapshots that were serialised, with no gap
\* and with the indexes as they were serialised, although it reads them while
\* another one adds a snapshot, and although files have rotted.
ReadersSeeALog ==
    \A g \in Programs : IsPrefix(program[g].loaded, Written)

\* main.cpp:70, 120 and 127: what add-snapshot, verify and verify-all report as
\* verified can be restored with the contents that were recorded, including the
\* data in older snapshots; what verify -s reports of an older snapshot is said
\* of its own data only.
VerifiedRestores ==
    [][\A g \in Programs : \A i \in Names :
        Verify(g, i) /\ program'[g].result = "success" =>
            LET loaded == program[g].loaded
            IN  \A j \in Verified(g, i) : \A p \in Paths :
                    \/ Restored(loaded, j, p) = loaded[j].nodes[p].content
                    \/ /\ program[g].command = "verify -s"
                       /\ j # Len(loaded)
                       /\ ~loaded[j].nodes[p].owns]_vars
=============================================================================
