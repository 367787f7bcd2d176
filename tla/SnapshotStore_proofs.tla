------------------------ MODULE SnapshotStore_proofs ------------------------
(***************************************************************************)
(* Proofs about the programs that work on a backup directory, for any      *)
(* paths, numbers of programs, edits and kills: the types for any number   *)
(* of programs that add snapshots; what programs read and verify if one    *)
(* of them at most adds snapshots, however many files rot; and that the    *)
(* directory is a log that only grows if no file rots besides.             *)
(***************************************************************************)
EXTENDS SnapshotStore, InductionLemmas, SequenceTheorems, TLAPS

\* Of the programs that run at the same time one at most can add snapshots.
OneAdds == \A g, h \in Programs :
    "add-snapshot" \in CommandsOf[g] /\ "add-snapshot" \in CommandsOf[h] => g = h

\* A program is a record with the fields of Program, whatever they hold.
IsProgram(r) ==
    r \in [command : {r.command}, pc : {r.pc}, toRead : {r.toRead}, loaded : {r.loaded},
           name : {r.name}, listed : {r.listed}, data : {r.data}, piped : {r.piped},
           createdDataDir : {r.createdDataDir}, result : {r.result}]

\* The phases of add-snapshot after data, and after its files, are protected.
ReadsAgain == {"list", "read", "check", "verify"}
DataProtected ==
    {"unprotectIndex", "createIndex", "writeIndex", "createHash", "writeHash",
     "protectFiles", "protectIndex"}

Protection(g) ==
    Adds(g) =>
        /\ program[g].pc \in DataProtected => "data" \in protectedDirs
        /\ program[g].pc = "protectIndex" => program[g].name \in protectedSnapshots
        /\ program[g].name # NoName /\ program[g].pc \in ReadsAgain =>
            /\ "data" \in protectedDirs /\ "index" \in protectedDirs
            /\ program[g].name \in protectedSnapshots

IInv ==
    /\ DOMAIN program = Programs /\ program = [g \in Programs |-> program[g]]
    /\ \A g \in Programs : IsProgram(program[g])
    /\ \A g \in Programs : Adds(g) => "add-snapshot" \in CommandsOf[g]
    /\ \A g \in Programs :
        program[g].pc \notin {"ended", "list", "read", "verify"} => Adds(g)
    /\ protectedDirs \subseteq {"data", "index"}
    /\ \A g \in Programs : Protection(g)

-----------------------------------------------------------------------------
\* A program that has ended, or is starting, is a record with its fields.
LEMMA NotRunningIs ==
    ASSUME NEW result
    PROVE  /\ IsProgram(NotRunning(result))
           /\ NotRunning(result).command = "none" /\ NotRunning(result).pc = "ended"
           /\ NotRunning(result).name = NoName
BY DEF IsProgram, NotRunning

\* At the beginning no program runs.
LEMMA InitIInv == Init => IInv
<1> SUFFICES ASSUME Init PROVE IInv
  OBVIOUS
<1>1. PICK r : r = NotRunning("none")
  OBVIOUS
<1>2. IsProgram(r) /\ r.command = "none" /\ r.pc = "ended"
  BY <1>1, NotRunningIs
<1>3. program = [g \in Programs |-> r] /\ protectedDirs = {}
  BY <1>1 DEF Init
<1>4. \A g \in Programs : IsProgram(program[g]) /\ ~Adds(g) /\ program[g].pc = "ended"
  BY <1>2, <1>3 DEF Adds
<1>5. QED
  BY <1>3, <1>4 DEF IInv, Protection

\* A step of g, after which the directories that the others rely on are protected.
LEMMA StepOf ==
    ASSUME OneAdds, IInv, NEW g \in Programs, NEW r, IsProgram(r),
           program' = [program EXCEPT ![g] = r],
           Adds(g) => "add-snapshot" \in CommandsOf[g],
           r.command = "add-snapshot" => "add-snapshot" \in CommandsOf[g],
           r.pc \notin {"ended", "list", "read", "verify"} => r.command = "add-snapshot",
           protectedDirs' \subseteq {"data", "index"},
           UNCHANGED <<protectedDirs, protectedSnapshots>> \/ Adds(g),
           Protection(g)'
    PROVE  IInv'
<1>1. /\ DOMAIN program' = Programs /\ program' = [h \in Programs |-> program'[h]]
      /\ program'[g] = r
      /\ \A h \in Programs \ {g} : program'[h] = program[h]
  BY DEF IInv
<1>2. \A h \in Programs \ {g} : Adds(h)' <=> Adds(h)
  BY <1>1 DEF Adds
<1>3. ASSUME NEW h \in Programs \ {g} PROVE Protection(h)'
  <2>1. CASE UNCHANGED <<protectedDirs, protectedSnapshots>>
    BY <1>1, <1>2, <2>1 DEF IInv, Protection
  <2>2. CASE Adds(g)
    <3>1. ~Adds(h)
      BY <2>2 DEF IInv, OneAdds
    <3>2. QED
      BY <1>2, <3>1 DEF Protection
  <2>3. QED
    BY <2>1, <2>2
<1>4. \A h \in Programs : Adds(h)' => "add-snapshot" \in CommandsOf[h]
  BY <1>1, <1>2 DEF IInv, Adds
<1>5. \A h \in Programs : program'[h].pc \notin {"ended", "list", "read", "verify"} => Adds(h)'
  BY <1>1, <1>2 DEF IInv, Adds
<1>6. \A h \in Programs : IsProgram(program[h])'
  BY <1>1 DEF IInv
<1>7. \A h \in Programs : Protection(h)'
  BY <1>3
<1>8. QED
  BY <1>1, <1>4, <1>5, <1>6, <1>7 DEF IInv

\* The end of a program, with whatever result.
LEMMA EndOf ==
    ASSUME OneAdds, IInv, NEW g \in Programs, NEW result, End(g, result),
           UNCHANGED <<protectedDirs, protectedSnapshots>>
    PROVE  IInv'
<1>1. PICK r : r = NotRunning(result)
  OBVIOUS
<1>2. IsProgram(r) /\ r.command = "none" /\ r.pc = "ended"
  BY <1>1, NotRunningIs
<1>3. program' = [program EXCEPT ![g] = r]
  BY <1>1 DEF End
<1>4. Protection(g)'
  BY <1>2, <1>3 DEF IInv, Protection, Adds
<1>5. QED
  BY <1>2, <1>3, <1>4, StepOf DEF IInv

\* A step that changes the pc and fields that the invariant does not speak of.
LEMMA PcOf ==
    ASSUME OneAdds, IInv, NEW g \in Programs, NEW r, IsProgram(r),
           program' = [program EXCEPT ![g] = r],
           r.command = program[g].command,
           r.pc \notin {"ended", "list", "read", "verify"} => Adds(g),
           protectedDirs' \subseteq {"data", "index"},
           UNCHANGED <<protectedDirs, protectedSnapshots>> \/ Adds(g),
           Adds(g) =>
                /\ r.pc \in DataProtected => "data" \in protectedDirs'
                /\ r.pc = "protectIndex" => r.name \in protectedSnapshots'
                /\ r.name # NoName /\ r.pc \in ReadsAgain =>
                    /\ "data" \in protectedDirs' /\ "index" \in protectedDirs'
                    /\ r.name \in protectedSnapshots'
    PROVE  IInv'
<1>1. program'[g] = r
  BY DEF IInv
<1>2. Adds(g)' <=> Adds(g)
  BY <1>1 DEF Adds
<1>3. Protection(g)'
  BY <1>1, <1>2 DEF Protection
<1>4. QED
  BY <1>3, StepOf DEF IInv, Adds

\* program[g] with another pc.
LEMMA ContinueIs ==
    ASSUME IInv, NEW g \in Programs, NEW x, Continue(g, x)
    PROVE  \E r : /\ IsProgram(r) /\ program' = [program EXCEPT ![g] = r]
                  /\ r.command = program[g].command /\ r.name = program[g].name
                  /\ r.pc = x
<1>1. PICK r : r = [program[g] EXCEPT !.pc = x]
  OBVIOUS
<1>2. program' = [program EXCEPT ![g] = r]
  BY <1>1 DEF Continue, IInv
<1>3. IsProgram(program[g])
  BY DEF IInv
<1>4. IsProgram(r) /\ r.command = program[g].command /\ r.name = program[g].name /\ r.pc = x
  BY <1>1, <1>3 DEF IsProgram
<1>5. QED
  BY <1>2, <1>4

-----------------------------------------------------------------------------

\* A program that starts has no name yet.
LEMMA StartKeeps ==
    ASSUME OneAdds, IInv, NEW g \in Programs, Start(g)
    PROVE  IInv'
<1>1. PICK c \in CommandsOf[g] :
        program' = [program EXCEPT ![g] =
                        [NotRunning("none") EXCEPT !.command = c, !.pc = "list"]]
  BY DEF Start
<1>2. PICK r : r = [NotRunning("none") EXCEPT !.command = c, !.pc = "list"]
  OBVIOUS
<1>3. IsProgram(r) /\ r.command = c /\ r.pc = "list" /\ r.name = NoName
  BY <1>2 DEF NotRunning, IsProgram
<1>4. program' = [program EXCEPT ![g] = r] /\ program'[g] = r
      /\ UNCHANGED <<protectedDirs, protectedSnapshots>>
  BY <1>1, <1>2 DEF Start, disk, IInv
<1>5. Protection(g)'
  BY <1>3, <1>4 DEF Protection, DataProtected
<1>6. QED
  BY <1>3, <1>4, <1>5, StepOf DEF IInv

\* Reading the snapshots in protects and unprotects nothing.
LEMMA ReadKeeps ==
    ASSUME OneAdds, IInv, NEW g \in Programs, ReadInSnapshots(g)
    PROVE  IInv'
<1>1. UNCHANGED <<protectedDirs, protectedSnapshots>> /\ Protection(g)
      /\ protectedDirs \subseteq {"data", "index"} /\ IsProgram(program[g])
  BY DEF ReadInSnapshots, ListSnapshotMetadataFiles, Deserialize, SnapshotsAreRead, disk, IInv
<1>2. CASE ListSnapshotMetadataFiles(g)
  <2>1. PICK names : names = Sorted(DOMAIN indexFiles)
    OBVIOUS
  <2>2. PICK r : r = [program[g] EXCEPT !.toRead = names, !.loaded = <<>>, !.pc = "read"]
    OBVIOUS
  <2>3. program' = [program EXCEPT ![g] = r] /\ program[g].pc = "list"
    BY <1>2, <2>1, <2>2 DEF ListSnapshotMetadataFiles, IInv, At
  <2>4. IsProgram(r) /\ r.command = program[g].command /\ r.name = program[g].name
        /\ r.pc = "read"
    BY <1>1, <2>2 DEF IsProgram
  <2>5. QED
    BY <1>1, <2>3, <2>4, PcOf DEF Protection, ReadsAgain, DataProtected
<1>3. CASE Deserialize(g)
  <2>1. CASE Intact(Head(program[g].toRead))
    <3>1. PICK r : r = [program[g] EXCEPT
                !.toRead = Tail(@),
                !.loaded = Append(@, [name |-> Head(program[g].toRead),
                                      nodes |-> indexFiles[Head(program[g].toRead)]])]
      OBVIOUS
    <3>2. program' = [program EXCEPT ![g] = r] /\ program[g].pc = "read"
      BY <1>3, <2>1, <3>1 DEF Deserialize, IInv, At
    <3>3. IsProgram(r) /\ r.command = program[g].command /\ r.name = program[g].name
          /\ r.pc = program[g].pc
      BY <1>1, <3>1 DEF IsProgram
    <3>4. QED
      BY <1>1, <3>2, <3>3, PcOf DEF Protection, ReadsAgain, DataProtected
  <2>2. CASE ~Intact(Head(program[g].toRead))
    BY <1>1, <1>3, <2>2, EndOf DEF Deserialize
  <2>3. QED
    BY <2>1, <2>2
<1>4. CASE SnapshotsAreRead(g)
  <2>1. program[g].pc = "read"
    BY <1>4 DEF SnapshotsAreRead, At
  <2>2. CASE Adds(g) /\ program[g].name = NoName
    <3>1. Continue(g, "index")
      BY <1>4, <2>2 DEF SnapshotsAreRead
    <3>2. QED
      BY <1>1, <2>1, <2>2, <3>1, ContinueIs, PcOf DEF Protection, ReadsAgain, DataProtected
  <2>3. CASE Adds(g) /\ program[g].name # NoName
    <3>1. Continue(g, "check")
      BY <1>4, <2>3 DEF SnapshotsAreRead
    <3>2. QED
      BY <1>1, <2>1, <2>3, <3>1, ContinueIs, PcOf DEF Protection, ReadsAgain, DataProtected
  <2>4. CASE ~Adds(g) /\ program[g].loaded = <<>>
    BY <1>1, <1>4, <2>4, EndOf DEF SnapshotsAreRead
  <2>5. CASE ~Adds(g) /\ program[g].loaded # <<>>
    <3>1. Continue(g, "verify")
      BY <1>4, <2>5 DEF SnapshotsAreRead
    <3>2. QED
      BY <1>1, <2>1, <2>5, <3>1, ContinueIs, PcOf
  <2>6. QED
    BY <2>2, <2>3, <2>4, <2>5
<1>5. QED
  BY <1>2, <1>3, <1>4 DEF ReadInSnapshots

\* Each step of add-snapshot protects what later ones rely on.
LEMMA AddKeeps ==
    ASSUME OneAdds, IInv, NEW g \in Programs, AddSnapshot(g)
    PROVE  IInv'
<1>1. Protection(g) /\ protectedDirs \subseteq {"data", "index"} /\ IsProgram(program[g])
  BY DEF IInv
<1>2. program[g].pc \notin {"ended", "list", "read", "verify"} /\ Adds(g)
  BY DEF AddSnapshot, BeginSnapshot, PipeNode, AllPiped, ProtectData, UnprotectIndex,
     CreateIndex, WriteIndex, CreateHash, WriteHash, ProtectFiles, ProtectIndex, Check, At, IInv
<1>3. CASE BeginSnapshot(g)
  <2>1. PICK different : different = Different(g)
    OBVIOUS
  <2>2. PICK r : r = [program[g] EXCEPT !.listed = source, !.data = different,
                                        !.name = clock, !.pc = "pipe"]
    OBVIOUS
  <2>3. program' = [program EXCEPT ![g] = r] /\ protectedDirs' \subseteq {"data", "index"}
    BY <1>1, <1>3, <2>1, <2>2 DEF BeginSnapshot, IInv
  <2>4. IsProgram(r) /\ r.command = program[g].command /\ r.pc = "pipe"
    BY <1>1, <2>2 DEF IsProgram
  <2>5. QED
    BY <1>2, <2>3, <2>4, PcOf DEF ReadsAgain, DataProtected
<1>4. ASSUME NEW p \in Paths, PipeNode(g, p) PROVE IInv'
  <2>1. program[g].pc = "pipe" /\ UNCHANGED <<protectedDirs, protectedSnapshots>>
    BY <1>4 DEF PipeNode, At
  <2>2. CASE CanStore(g)
    <3>1. PICK r : r = [program[g] EXCEPT !.piped = Extend(@, p, source[p]),
                                          !.createdDataDir = TRUE]
      OBVIOUS
    <3>2. program' = [program EXCEPT ![g] = r]
      BY <1>4, <2>2, <3>1 DEF PipeNode, IInv
    <3>3. IsProgram(r) /\ r.command = program[g].command /\ r.pc = "pipe"
      BY <1>1, <2>1, <3>1 DEF IsProgram
    <3>4. QED
      BY <1>1, <1>2, <2>1, <3>2, <3>3, PcOf DEF ReadsAgain, DataProtected
  <2>3. CASE ~CanStore(g)
    BY <1>4, <2>1, <2>3, EndOf DEF PipeNode
  <2>4. QED
    BY <2>2, <2>3
<1>5. CASE AllPiped(g)
  <2>1. Continue(g, "protectData") /\ UNCHANGED <<protectedDirs, protectedSnapshots>>
    BY <1>5 DEF AllPiped, disk
  <2>2. QED
    BY <1>1, <1>2, <2>1, ContinueIs, PcOf DEF ReadsAgain, DataProtected
<1>6. CASE ProtectData(g)
  <2>1. Continue(g, "unprotectIndex") /\ "data" \in protectedDirs'
        /\ protectedDirs' \subseteq {"data", "index"}
    BY <1>1, <1>6 DEF ProtectData, WriteProtected
  <2>2. QED
    BY <1>1, <1>2, <2>1, ContinueIs, PcOf DEF ReadsAgain, DataProtected
<1>7. CASE UnprotectIndex(g)
  <2>1. Continue(g, "createIndex") /\ protectedDirs' = protectedDirs \ {"index"}
        /\ program[g].pc = "unprotectIndex"
    BY <1>7 DEF UnprotectIndex, At
  <2>2. "data" \in protectedDirs' /\ protectedDirs' \subseteq {"data", "index"}
    BY <1>1, <1>2, <2>1 DEF Protection, DataProtected
  <2>3. QED
    BY <1>1, <1>2, <2>1, <2>2, ContinueIs, PcOf DEF ReadsAgain, DataProtected
<1>8. CASE CreateIndex(g) \/ WriteIndex(g) \/ CreateHash(g) \/ WriteHash(g)
  <2>1. /\ UNCHANGED <<protectedDirs, protectedSnapshots>>
        /\ program[g].pc \in DataProtected
        /\ \/ End(g, "failure")
           \/ \E x \in {"writeIndex", "createHash", "writeHash", "protectFiles"} :
                Continue(g, x)
    BY <1>8 DEF CreateIndex, WriteIndex, CreateHash, WriteHash, At, DataProtected
  <2>2. ASSUME NEW x \in {"writeIndex", "createHash", "writeHash", "protectFiles"},
               Continue(g, x)
        PROVE  IInv'
    <3>1. "data" \in protectedDirs
      BY <1>1, <1>2, <2>1 DEF Protection
    <3>2. QED
      BY <1>1, <1>2, <2>1, <2>2, <3>1, ContinueIs, PcOf DEF ReadsAgain
  <2>3. QED
    BY <2>1, <2>2, EndOf
<1>9. CASE ProtectFiles(g)
  <2>1. Continue(g, "protectIndex") /\ UNCHANGED protectedDirs
        /\ program[g].pc = "protectFiles" /\ program[g].name \in protectedSnapshots'
    BY <1>9 DEF ProtectFiles, At
  <2>2. "data" \in protectedDirs
    BY <1>1, <1>2, <2>1 DEF Protection, DataProtected
  <2>3. QED
    BY <1>1, <1>2, <2>1, <2>2, ContinueIs, PcOf DEF ReadsAgain
<1>10. CASE ProtectIndex(g)
  <2>1. Continue(g, "list") /\ protectedDirs' = protectedDirs \cup {"index"}
        /\ program[g].pc = "protectIndex" /\ UNCHANGED protectedSnapshots
    BY <1>10 DEF ProtectIndex, At, WriteProtected
  <2>2. "data" \in protectedDirs' /\ "index" \in protectedDirs'
        /\ protectedDirs' \subseteq {"data", "index"}
        /\ program[g].name \in protectedSnapshots'
    BY <1>1, <1>2, <2>1 DEF Protection, DataProtected
  <2>3. QED
    BY <1>1, <1>2, <2>1, <2>2, ContinueIs, PcOf DEF DataProtected
<1>11. CASE Check(g)
  <2>1. program[g].pc = "check" /\ UNCHANGED <<protectedDirs, protectedSnapshots>>
        /\ (Continue(g, "verify") \/ End(g, "failure"))
    BY <1>11 DEF Check, At, disk
  <2>2. CASE Continue(g, "verify")
    BY <1>1, <2>1, <2>2, ContinueIs, PcOf DEF Protection, ReadsAgain, DataProtected
  <2>3. QED
    BY <2>1, <2>2, EndOf
<1>12. QED
  BY <1>3, <1>4, <1>5, <1>6, <1>7, <1>8, <1>9, <1>10, <1>11 DEF AddSnapshot

\* And so does each step of the system.
LEMMA NextIInv == OneAdds /\ IInv /\ [Next]_vars => IInv'
<1> SUFFICES ASSUME OneAdds, IInv, [Next]_vars PROVE IInv'
  OBVIOUS
<1>1. ASSUME NEW g \in Programs, NEW i \in Names, Verify(g, i) PROVE IInv'
  <2>1. \E result : End(g, result)
    BY <1>1 DEF Verify
  <2>2. QED
    BY <1>1, <2>1, EndOf DEF Verify, disk
<1>2. ASSUME NEW g \in Programs, Step(g) PROVE IInv'
  BY <1>1, <1>2, StartKeeps, ReadKeeps, AddKeeps DEF Step
<1>3. ASSUME NEW g \in Programs, Kill(g) PROVE IInv'
  BY <1>3, EndOf DEF Kill, disk
<1>4. ASSUME UNCHANGED <<program, protectedDirs, protectedSnapshots>> PROVE IInv'
  BY <1>4 DEF IInv, Protection, Adds
<1>5. ASSUME NEW p \in Paths, Edit(p) PROVE IInv'
  BY <1>4, <1>5 DEF Edit, disk
<1>6. ASSUME NEW n, Corrupt(n) PROVE IInv'
  BY <1>4, <1>6 DEF Corrupt
<1>7. CASE Tick \/ UNCHANGED vars
  BY <1>4, <1>7 DEF Tick, vars, disk
<1>8. QED
  BY <1>2, <1>3, <1>5, <1>6, <1>7 DEF Next, Environment

\* When add-snapshot reads in what it has written, it and both directories are
\* write-protected, whatever killed programs have left and however many other
\* programs verify (SnapshotManager::AddSnapshot protects before it reads).
THEOREM AddedIsProtected == OneAdds => (Spec => []ReadsProtectedFiles)
<1> SUFFICES ASSUME OneAdds PROVE Spec => []ReadsProtectedFiles
  OBVIOUS
<1>1. IInv => ReadsProtectedFiles
  BY DEF IInv, Protection, ReadsProtectedFiles, ReadsAgain
<1>2. IInv /\ [Next]_vars => IInv'
  BY NextIInv
<1>3. QED
  BY <1>1, <1>2, InitIInv, PTL DEF Spec

-----------------------------------------------------------------------------
(* Types, for any number of programs that add snapshots. *)

\* The phases of a program.
Phases == {"ended", "list", "read", "index", "pipe", "protectData", "unprotectIndex",
           "createIndex", "writeIndex", "createHash", "writeHash", "protectFiles",
           "protectIndex", "check", "verify"}

\* A program has the type of its fields.
LEMMA ProgramIs ==
    ASSUME NEW r
    PROVE  r \in Program <=>
            /\ IsProgram(r)
            /\ r.command \in Commands \cup {"none"}
            /\ r.pc \in Phases
            /\ r.toRead \in Seq(Names)
            /\ r.loaded \in Seq(Snapshot)
            /\ r.name \in Names \cup {NoName}
            /\ r.listed \in PartialFunctions(Paths, Versions)
            /\ r.data \in SUBSET Paths
            /\ r.piped \in PartialFunctions(Paths, Versions)
            /\ r.createdDataDir \in BOOLEAN
            /\ r.result \in {"none", "failure", "success"}
BY DEF Program, IsProgram, Phases

\* A partial function is a function on a part of its domain.
LEMMA PartialIs ==
    ASSUME NEW S, NEW T, NEW f
    PROVE  f \in PartialFunctions(S, T) <=> DOMAIN f \subseteq S /\ f \in [DOMAIN f -> T]
BY DEF PartialFunctions

\* The function without arguments is one, and so is one with an entry more.
LEMMA EmptyIsPartial == ASSUME NEW S, NEW T PROVE <<>> \in PartialFunctions(S, T)
<1>1. DOMAIN <<>> = {}
  OBVIOUS
<1>2. <<>> \in [{} -> T]
  BY <1>1
<1>3. [{} -> T] \in {[D -> T] : D \in SUBSET S}
  OBVIOUS
<1>4. QED
  BY <1>2, <1>3 DEF PartialFunctions

\* An entry more leaves a partial function one.
LEMMA ExtendIs ==
    ASSUME NEW S, NEW T, NEW f \in PartialFunctions(S, T), NEW p \in S, NEW x \in T
    PROVE  Extend(f, p, x) \in PartialFunctions(S, T)
<1>1. DOMAIN f \subseteq S /\ f \in [DOMAIN f -> T]
  BY PartialIs
<1>2. Extend(f, p, x) \in [DOMAIN f \cup {p} -> T]
  BY <1>1 DEF Extend
<1>3. QED
  BY <1>1, <1>2, PartialIs DEF Extend

\* What an entry more changes.
LEMMA ExtendAt ==
    ASSUME NEW f, NEW p, NEW x
    PROVE  /\ DOMAIN Extend(f, p, x) = DOMAIN f \cup {p}
           /\ Extend(f, p, x)[p] = x
           /\ \A q \in DOMAIN f : q # p => Extend(f, p, x)[q] = f[q]
BY DEF Extend

\* The steps in which a new snapshot has its name, and those that follow the files'.
NamedPhases == {"pipe", "protectData", "unprotectIndex", "createIndex", "writeIndex", "createHash",
           "writeHash", "protectFiles", "protectIndex"}
IndexCreated == {"writeIndex", "createHash", "writeHash", "protectFiles", "protectIndex"}
HashCreated == {"writeHash", "protectFiles", "protectIndex"}

\* What a program knows that adds a snapshot: the whole source is listed, what is to be
\* piped is piped, and its volumes and files are there.
Adding(g) ==
    program[g].pc \in NamedPhases =>
        /\ program[g].name \in Names
        /\ DOMAIN program[g].listed = Paths
        /\ program[g].loaded = <<>> => program[g].data = Paths
        /\ program[g].createdDataDir =>
            /\ program[g].name \in DOMAIN volumes
            /\ DOMAIN program[g].piped \subseteq DOMAIN volumes[program[g].name]
        /\ ~program[g].createdDataDir => DOMAIN program[g].piped = {}
        /\ program[g].pc # "pipe" => DOMAIN program[g].piped = program[g].data
        /\ program[g].pc \in IndexCreated => program[g].name \in DOMAIN indexFiles
        /\ program[g].pc \in HashCreated => program[g].name \in DOMAIN hashFiles

\* Without a name it has stored nothing.
Fresh(g) ==
    /\ program[g].pc = "index" => program[g].name = NoName
    /\ program[g].name = NoName =>
        ~program[g].createdDataDir /\ DOMAIN program[g].piped = {}

StoredOf(n) == IF n \in DOMAIN volumes THEN DOMAIN volumes[n] ELSE {}
OwnedBy(nodes) == {p \in Paths : nodes[p].owns}

Disk ==
    /\ \A n \in DOMAIN volumes :
        /\ n \in Names
        /\ DOMAIN volumes[n] \subseteq Paths
        /\ \A p \in DOMAIN volumes[n] : volumes[n][p] \in Versions \cup {Garbage}
    /\ DOMAIN hashFiles \subseteq DOMAIN indexFiles
    /\ \A n \in DOMAIN indexFiles : n \in Names /\ indexFiles[n] \in Index \cup {Empty}
    /\ \A n \in DOMAIN hashFiles : hashFiles[n] \in Index \cup {Empty}
    /\ protectedDirs \subseteq {"data", "index"}
    /\ protectedSnapshots \subseteq DOMAIN hashFiles
    /\ \A n \in DOMAIN indexFiles :
        indexFiles[n] # Empty => OwnedBy(indexFiles[n]) \subseteq StoredOf(n)

Environs ==
    /\ source \in [Paths -> Versions]
    /\ clock \in Names
    /\ used \in [edits : 0..MaxEdits, kills : Nat, corruptions : Nat]

\* The inductive invariant of the types.
TypeInv ==
    /\ Environs /\ Disk
    /\ program \in [Programs -> Program]
    /\ \A g \in Programs : Fresh(g) /\ Adding(g)

\* What is stored of a file that can be read in are the nodes it owns.
LEMMA TypeInvTypes == TypeInv => TypeOK
<1> SUFFICES ASSUME TypeInv PROVE TypeOK
  OBVIOUS
<1>1. \A n \in DOMAIN indexFiles : Intact(n) =>
        {p \in Paths : indexFiles[n][p].owns} \subseteq
            IF n \in DOMAIN volumes THEN DOMAIN volumes[n] ELSE {}
  BY DEF TypeInv, Disk, Intact, Parsed, OwnedBy, StoredOf
<1>2. QED
  BY <1>1 DEF TypeInv, Disk, Environs, TypeOK

\* A program that has ended has the right types and no name.
LEMMA NotRunningType ==
    ASSUME NEW result \in {"none", "failure", "success"}
    PROVE  /\ NotRunning(result) \in Program
           /\ NotRunning(result).pc = "ended" /\ NotRunning(result).name = NoName
           /\ ~NotRunning(result).createdDataDir /\ NotRunning(result).piped = <<>>
           /\ NotRunning(result).loaded = <<>> /\ NotRunning(result).toRead = <<>>
<1>1. <<>> \in PartialFunctions(Paths, Versions)
  BY EmptyIsPartial
<1>2. <<>> \in Seq(Names) /\ <<>> \in Seq(Snapshot)
  OBVIOUS
<1>3. PICK r : r = NotRunning(result)
  OBVIOUS
<1>4. /\ IsProgram(r) /\ r.command = "none" /\ r.pc = "ended" /\ r.toRead = <<>>
      /\ r.loaded = <<>> /\ r.name = NoName /\ r.listed = <<>> /\ r.data = {}
      /\ r.piped = <<>> /\ ~r.createdDataDir /\ r.createdDataDir \in BOOLEAN
      /\ r.result = result
  <2>1. IsProgram(r)
    BY <1>3, NotRunningIs
  <2>2. QED
    BY <1>3, <2>1 DEF NotRunning
<1>5. "none" \in Commands \cup {"none"} /\ "ended" \in Phases /\ {} \in SUBSET Paths
      /\ NoName \in Names \cup {NoName}
  BY DEF Phases
<1>6. r \in Program
  BY ONLY <1>1, <1>2, <1>4, <1>5, ProgramIs, result \in {"none", "failure", "success"}
<1>7. QED
  BY <1>3, <1>4, <1>6

\* At the beginning everything has its type.
LEMMA InitTypeInv == Init => TypeInv
<1> SUFFICES ASSUME Init PROVE TypeInv
  OBVIOUS
<1>1. PICK r \in Program :
        /\ program = [g \in Programs |-> r]
        /\ r.pc = "ended" /\ ~r.createdDataDir /\ r.piped = <<>>
  BY NotRunningType DEF Init
<1>2. program \in [Programs -> Program] /\ \A g \in Programs : Fresh(g) /\ Adding(g)
  BY <1>1 DEF Fresh, Adding, NamedPhases
<1>3. Environs
  BY BoundsAssumption DEF Init, Environs, Versions, Names
<1>4. Disk
  BY DEF Init, Disk
<1>5. QED
  BY <1>2, <1>3, <1>4 DEF TypeInv

\* A step of g after which no file is gone, nor anything from a volume.
LEMMA StepTypes ==
    ASSUME TypeInv, NEW g \in Programs, NEW r \in Program,
           program' = [program EXCEPT ![g] = r],
           Environs', Disk',
           DOMAIN indexFiles \subseteq DOMAIN indexFiles',
           DOMAIN hashFiles \subseteq DOMAIN hashFiles',
           \A n \in DOMAIN volumes : n \in DOMAIN volumes' /\ DOMAIN volumes[n] \subseteq DOMAIN volumes'[n],
           Fresh(g)', Adding(g)'
    PROVE  TypeInv'
<1>1. program' \in [Programs -> Program] /\ program'[g] = r
      /\ \A h \in Programs \ {g} : program'[h] = program[h]
  BY DEF TypeInv
<1>2. ASSUME NEW h \in Programs \ {g} PROVE Fresh(h)' /\ Adding(h)'
  <2>1. program'[h] = program[h] /\ Fresh(h) /\ Adding(h)
    BY <1>1 DEF TypeInv
  <2>2. Fresh(h)'
    BY <2>1 DEF Fresh
  <2>3. Adding(h)'
    BY <2>1 DEF Adding
  <2>4. QED
    BY <2>2, <2>3
<1>3. QED
  BY <1>1, <1>2 DEF TypeInv

\* The end of a program.
LEMMA EndTypes ==
    ASSUME TypeInv, NEW g \in Programs, NEW result \in {"none", "failure", "success"},
           End(g, result), Environs', UNCHANGED disk
    PROVE  TypeInv'
<1>1. PICK r \in Program :
        r = NotRunning(result) /\ r.pc = "ended" /\ ~r.createdDataDir /\ r.piped = <<>>
  BY NotRunningType
<1>2. program' = [program EXCEPT ![g] = r]
  BY <1>1 DEF End
<1>3. program'[g] = r
  BY <1>2 DEF TypeInv
<1>4. Fresh(g)' /\ Adding(g)'
  BY <1>1, <1>3 DEF Fresh, Adding, NamedPhases
<1>5. Disk'
  BY DEF disk, TypeInv, Disk, OwnedBy, StoredOf, Versions, Names, Index, Empty
<1>6. QED
  BY <1>2, <1>4, <1>5, StepTypes DEF disk

\* A step that moves the pc and creates no file.
LEMMA PcTypes ==
    ASSUME TypeInv, NEW g \in Programs, NEW x \in Phases, Continue(g, x),
           UNCHANGED <<volumes, indexFiles, hashFiles, environment>>,
           protectedDirs' \subseteq {"data", "index"},
           protectedSnapshots' \subseteq DOMAIN hashFiles,
           \/ x \notin NamedPhases \cup {"index"}
           \/ x = "index" /\ program[g].name = NoName
           \/ /\ program[g].pc \in NamedPhases /\ x \in NamedPhases \ {"pipe"}
              /\ program[g].pc # "pipe" \/ DOMAIN program[g].piped = program[g].data
              /\ x \in IndexCreated => program[g].name \in DOMAIN indexFiles
              /\ x \in HashCreated => program[g].name \in DOMAIN hashFiles
    PROVE  TypeInv'
<1>1. PICK r : r = [program[g] EXCEPT !.pc = x]
  OBVIOUS
<1>2. program' = [program EXCEPT ![g] = r]
  BY <1>1 DEF Continue, TypeInv
<1>3. program'[g] = r
  BY <1>2 DEF TypeInv
<1>4. program[g] \in Program /\ IsProgram(program[g])
  BY ProgramIs DEF TypeInv
<1>5. /\ r.pc = x /\ r.name = program[g].name /\ r.listed = program[g].listed
      /\ r.loaded = program[g].loaded /\ r.data = program[g].data
      /\ r.piped = program[g].piped /\ r.createdDataDir = program[g].createdDataDir
  BY <1>1, <1>4 DEF IsProgram
<1>12. r \in Program
  <2>1. IsProgram(r) /\ r.command = program[g].command /\ r.toRead = program[g].toRead
        /\ r.result = program[g].result
    BY <1>1, <1>4 DEF IsProgram
  <2>2. QED
    BY ONLY <1>4, <1>5, <2>1, x \in Phases, ProgramIs
<1>6. Fresh(g) /\ Adding(g)
  BY DEF TypeInv
<1>7. Fresh(g)'
  BY <1>3, <1>5, <1>6 DEF Fresh, NamedPhases
<1>8. Adding(g)'
  BY <1>3, <1>5, <1>6 DEF Adding, NamedPhases, IndexCreated, HashCreated
<1>9. Environs'
  BY DEF TypeInv, Environs, environment
<1>10. Disk'
  BY DEF TypeInv, Disk, OwnedBy, StoredOf
<1>11. QED
  BY <1>2, <1>7, <1>8, <1>9, <1>10, <1>12, StepTypes

\* A step that leaves all files as they are keeps what is true of them.
LEMMA SameDisk ==
    ASSUME TypeInv, UNCHANGED disk
    PROVE  Disk'
BY DEF disk, TypeInv, Disk, OwnedBy, StoredOf, Versions, Names, Index, Empty

\* A step of the environment.
LEMMA EnvironmentTypes ==
    ASSUME TypeInv, UNCHANGED program, Environs', Disk',
           DOMAIN indexFiles \subseteq DOMAIN indexFiles',
           DOMAIN hashFiles \subseteq DOMAIN hashFiles',
           \A n \in DOMAIN volumes :
                n \in DOMAIN volumes' /\ DOMAIN volumes[n] \subseteq DOMAIN volumes'[n]
    PROVE  TypeInv'
<1>1. ASSUME NEW h \in Programs PROVE Fresh(h)' /\ Adding(h)'
  <2>1. program'[h] = program[h] /\ Fresh(h) /\ Adding(h)
    BY DEF TypeInv
  <2>2. Fresh(h)'
    BY <2>1 DEF Fresh
  <2>3. Adding(h)'
    BY <2>1 DEF Adding
  <2>4. QED
    BY <2>2, <2>3
<1>2. QED
  BY <1>1 DEF TypeInv

\* Names in their order.
LEMMA AscendingIs ==
    ASSUME NEW S \in SUBSET Names
    PROVE  /\ Cardinality(S) \in Nat
           /\ Ascending(S) \in [1..Cardinality(S) -> S]
           /\ Increasing(Ascending(S))
           /\ \A x \in S : \E i \in 1..Cardinality(S) : Ascending(S)[i] = x
           /\ Ascending(S) \in Seq(Names)
           /\ Len(Ascending(S)) = Cardinality(S)
<1>1. MaxClock \in Nat /\ S \in SUBSET (1..MaxClock)
  BY BoundsAssumption DEF Names
<1>2. PICK c \in Nat : c = Cardinality(S)
  <2>1. IsFiniteSet(1..MaxClock)
    BY <1>1, FS_Interval
  <2>2. IsFiniteSet(S)
    BY <1>1, <2>1, FS_Subset
  <2>3. QED
    BY <2>2, FS_CardinalityType
<1>3. \E s \in [1..Cardinality(S) -> S] : Increasing(s)
  BY <1>1, IncreasingExists
<1>4. Ascending(S) \in [1..Cardinality(S) -> S] /\ Increasing(Ascending(S))
  BY <1>3 DEF Ascending, Increasing
<1>5. PICK s : s = Ascending(S)
  OBVIOUS
<1>6. s \in [1..Cardinality(S) -> S] /\ Increasing(s)
  BY <1>4, <1>5
<1>7. \A x \in S : \E i \in 1..Cardinality(S) : s[i] = x
  BY ONLY <1>1, <1>6, IncreasingIsOnto
<1>8. s \in [1..c -> Names]
  BY <1>2, <1>6
<1>9. s \in Seq(Names) /\ Len(s) = c
  BY <1>8
<1>10. QED
  BY <1>2, <1>4, <1>5, <1>7, <1>9

\* A program starts with empty fields.
LEMMA StartTypes ==
    ASSUME TypeInv, NEW g \in Programs, Start(g)
    PROVE  TypeInv'
<1>1. PICK c \in CommandsOf[g] :
        program' = [program EXCEPT ![g] =
                        [NotRunning("none") EXCEPT !.command = c, !.pc = "list"]]
  BY DEF Start
<1>2. c \in Commands
  BY CommandsAssumption
<1>3. PICK s : s = NotRunning("none")
  OBVIOUS
<1>4. s \in Program /\ s.name = NoName /\ ~s.createdDataDir /\ s.piped = <<>>
  BY <1>3, NotRunningType
<1>5. PICK r : r = [s EXCEPT !.command = c, !.pc = "list"]
  OBVIOUS
<1>6. r \in Program /\ r.pc = "list" /\ ~r.createdDataDir /\ r.piped = <<>>
  BY <1>2, <1>4, <1>5 DEF Program
<1>7. program' = [program EXCEPT ![g] = r] /\ program'[g] = r
  BY <1>1, <1>3, <1>5 DEF TypeInv
<1>8. Fresh(g)' /\ Adding(g)'
  BY <1>6, <1>7 DEF Fresh, Adding, NamedPhases
<1>9. Environs' /\ Disk' /\ UNCHANGED disk
  BY SameDisk DEF Start, environment, TypeInv, Environs
<1>10. QED
  BY <1>6, <1>7, <1>8, <1>9, StepTypes DEF disk

\* The sorted names of the files are a sequence of names.
LEMMA ListTypes ==
    ASSUME TypeInv, NEW g \in Programs, ListSnapshotMetadataFiles(g)
    PROVE  TypeInv'
<1>1. PICK names : names = Ascending(DOMAIN indexFiles)
  OBVIOUS
<1>2. names \in Seq(Names)
  <2>1. DOMAIN indexFiles \in SUBSET Names
    BY DEF TypeInv, Disk
  <2>2. QED
    BY <1>1, <2>1, AscendingIs
<1>3. PICK r : r = [program[g] EXCEPT !.toRead = names, !.loaded = <<>>, !.pc = "read"]
  OBVIOUS
<1>4. program[g] \in Program /\ Fresh(g) /\ <<>> \in Seq(Snapshot)
  BY DEF TypeInv
<1>5. /\ r \in Program /\ r.pc = "read" /\ r.name = program[g].name
      /\ r.createdDataDir = program[g].createdDataDir /\ r.piped = program[g].piped
  BY <1>2, <1>3, <1>4 DEF Program
<1>6. program' = [program EXCEPT ![g] = r] /\ program'[g] = r
  BY <1>1, <1>3 DEF ListSnapshotMetadataFiles, Sorted, TypeInv
<1>7. Fresh(g)' /\ Adding(g)'
  BY <1>4, <1>5, <1>6 DEF Fresh, Adding, NamedPhases
<1>8. Environs' /\ Disk' /\ UNCHANGED disk
  BY SameDisk DEF ListSnapshotMetadataFiles, environment, TypeInv, Environs
<1>9. QED
  BY <1>5, <1>6, <1>7, <1>8, StepTypes DEF disk

\* What can be read in is a snapshot.
LEMMA IntactIs ==
    ASSUME TypeInv, NEW n, Intact(n)
    PROVE  n \in DOMAIN indexFiles /\ n \in DOMAIN hashFiles /\ n \in Names
           /\ indexFiles[n] \in Index /\ indexFiles[n] # Empty
           /\ [name |-> n, nodes |-> indexFiles[n]] \in Snapshot
<1>1. n \in DOMAIN indexFiles /\ indexFiles[n] # Empty /\ n \in DOMAIN hashFiles
  BY DEF Intact, Parsed, TypeInv, Disk
<1>2. n \in Names /\ indexFiles[n] \in Index
  BY <1>1 DEF TypeInv, Disk
<1>3. QED
  BY <1>1, <1>2 DEF Snapshot

\* What is read in is a snapshot.
LEMMA DeserializeTypes ==
    ASSUME TypeInv, NEW g \in Programs, Deserialize(g)
    PROVE  TypeInv'
<1>1. PICK n : n = Head(program[g].toRead)
  OBVIOUS
<1>2. Environs' /\ Disk' /\ UNCHANGED disk
  BY SameDisk DEF Deserialize, environment, TypeInv, Environs
<1>3. CASE Intact(n)
  <2>1. PICK s : s = [name |-> n, nodes |-> indexFiles[n]]
    OBVIOUS
  <2>2. s \in Snapshot
    BY <1>3, <2>1, IntactIs
  <2>3. PICK r : r = [program[g] EXCEPT !.toRead = Tail(@), !.loaded = Append(@, s)]
    OBVIOUS
  <2>4. program[g] \in Program /\ Fresh(g) /\ program[g].pc = "read"
        /\ program[g].toRead # <<>>
    BY DEF TypeInv, Deserialize, At
  <2>5. program[g].toRead \in Seq(Names) /\ program[g].loaded \in Seq(Snapshot)
    BY <2>4 DEF Program
  <2>6. Tail(program[g].toRead) \in Seq(Names) /\ Append(program[g].loaded, s) \in Seq(Snapshot)
    BY <2>2, <2>4, <2>5
  <2>7. /\ r \in Program /\ r.pc = "read" /\ r.name = program[g].name
        /\ r.createdDataDir = program[g].createdDataDir /\ r.piped = program[g].piped
    BY <2>3, <2>4, <2>6 DEF Program
  <2>8. program' = [program EXCEPT ![g] = r] /\ program'[g] = r
    BY <1>1, <1>3, <2>1, <2>3 DEF Deserialize, TypeInv
  <2>9. Fresh(g)' /\ Adding(g)'
    BY <2>4, <2>7, <2>8 DEF Fresh, Adding, NamedPhases
  <2>10. QED
    BY <1>2, <2>7, <2>8, <2>9, StepTypes DEF disk
<1>4. CASE ~Intact(n)
  <2>1. End(g, "failure")
    BY <1>1, <1>4 DEF Deserialize
  <2>2. QED
    BY <1>2, <2>1, EndTypes
<1>5. QED
  BY <1>3, <1>4

\* An add-snapshot that goes on to index the source has no name yet.
LEMMA SnapshotsAreReadTypes ==
    ASSUME TypeInv, NEW g \in Programs, SnapshotsAreRead(g)
    PROVE  TypeInv'
<1>1. UNCHANGED <<disk, environment>> /\ Environs'
  BY DEF SnapshotsAreRead, environment, TypeInv, Environs
<1>2. UNCHANGED <<volumes, indexFiles, hashFiles, environment, protectedDirs, protectedSnapshots>>
      /\ protectedDirs' \subseteq {"data", "index"} /\ protectedSnapshots' \subseteq DOMAIN hashFiles
  BY <1>1 DEF disk, TypeInv, Disk
<1>3. \/ program[g].name = NoName /\ Continue(g, "index")
      \/ Continue(g, "check") \/ Continue(g, "verify") \/ End(g, "failure")
  BY DEF SnapshotsAreRead
<1>4. CASE program[g].name = NoName /\ Continue(g, "index")
  BY <1>2, <1>4, PcTypes DEF Phases
<1>5. ASSUME NEW x \in {"check", "verify"}, Continue(g, x) PROVE TypeInv'
  <2>1. x \in Phases /\ x \notin NamedPhases \cup {"index"}
    BY DEF Phases, NamedPhases
  <2>2. QED
    BY <1>2, <1>5, <2>1, PcTypes
<1>6. CASE End(g, "failure")
  BY <1>1, <1>6, EndTypes
<1>7. QED
  BY <1>3, <1>4, <1>5, <1>6

\* The new snapshot takes the clock as its name, with the whole source listed.
LEMMA BeginSnapshotTypes ==
    ASSUME TypeInv, NEW g \in Programs, BeginSnapshot(g)
    PROVE  TypeInv'
<1>1. PICK different : different = Different(g)
  OBVIOUS
<1>2. different \in SUBSET Paths /\ (program[g].loaded = <<>> => different = Paths)
  BY <1>1 DEF Different
<1>3. PICK r : r = [program[g] EXCEPT !.listed = source, !.data = different,
                                      !.name = clock, !.pc = "pipe"]
  OBVIOUS
<1>4. program[g] \in Program /\ Fresh(g) /\ program[g].pc = "index"
      /\ source \in [Paths -> Versions] /\ clock \in Names
  BY DEF TypeInv, Environs, BeginSnapshot, At
<1>5. source \in PartialFunctions(Paths, Versions)
  BY <1>4, PartialIs
<1>6. ~program[g].createdDataDir /\ DOMAIN program[g].piped = {}
  BY <1>4 DEF Fresh
<1>7. /\ r \in Program /\ r.pc = "pipe" /\ r.name = clock /\ r.listed = source
      /\ r.data = different /\ r.loaded = program[g].loaded
      /\ ~r.createdDataDir /\ DOMAIN r.piped = {}
  BY <1>2, <1>3, <1>4, <1>5, <1>6 DEF Program
<1>8. program' = [program EXCEPT ![g] = r] /\ program'[g] = r
  BY <1>1, <1>3 DEF BeginSnapshot, TypeInv
<1>9. Fresh(g)'
  BY <1>7, <1>8 DEF Fresh
<1>10. Adding(g)'
  BY <1>2, <1>4, <1>7, <1>8 DEF Adding, IndexCreated, HashCreated
<1>11. Environs'
  BY DEF BeginSnapshot, environment, TypeInv, Environs
<1>12. UNCHANGED <<volumes, indexFiles, hashFiles>> /\ Disk'
  BY DEF BeginSnapshot, TypeInv, Disk, OwnedBy, StoredOf
<1>13. QED
  BY <1>7, <1>8, <1>9, <1>10, <1>11, <1>12, StepTypes

\* A piped node is in the volumes, and they have at least what they had.
LEMMA PipeNodeTypes ==
    ASSUME TypeInv, NEW g \in Programs, NEW p \in Paths, PipeNode(g, p)
    PROVE  TypeInv'
<1>1. Environs'
  BY DEF PipeNode, environment, TypeInv, Environs
<1>2. CASE ~CanStore(g)
  <2>1. End(g, "failure") /\ UNCHANGED disk
    BY <1>2 DEF PipeNode, disk
  <2>2. QED
    BY <1>1, <2>1, EndTypes
<1>3. CASE CanStore(g)
  <2>1. PICK n : n = program[g].name
    OBVIOUS
  <2>2. PICK stored : stored = Stored(g)
    OBVIOUS
  <2>3. /\ program[g] \in Program /\ Fresh(g) /\ Adding(g) /\ program[g].pc = "pipe"
        /\ source[p] \in Versions /\ p \in program[g].data
    BY DEF TypeInv, Environs, PipeNode, At
  <2>4. /\ n \in Names /\ DOMAIN program[g].listed = Paths
        /\ program[g].loaded = <<>> => program[g].data = Paths
    BY <2>1, <2>3 DEF Adding, NamedPhases
  <2>5. /\ n \in DOMAIN volumes => program[g].createdDataDir /\ stored = volumes[n]
        /\ n \notin DOMAIN volumes => stored = Empty /\ DOMAIN program[g].piped = {}
        /\ DOMAIN program[g].piped \subseteq DOMAIN stored
    <3>1. CASE program[g].createdDataDir
      BY <2>1, <2>2, <2>3, <3>1 DEF Stored, Adding, NamedPhases
    <3>2. CASE ~program[g].createdDataDir
      BY <1>3, <2>1, <2>2, <2>3, <3>2 DEF Stored, Adding, NamedPhases, CanStore, Empty
    <3>3. QED
      BY <3>1, <3>2
  <2>6. /\ DOMAIN stored \subseteq Paths
        /\ \A q \in DOMAIN stored : stored[q] \in Versions \cup {Garbage}
    <3>1. CASE n \in DOMAIN volumes
      BY <2>5, <3>1 DEF TypeInv, Disk
    <3>2. CASE n \notin DOMAIN volumes
      BY <2>5, <3>2 DEF Empty
    <3>3. QED
      BY <3>1, <3>2
  <2>7. PICK new : new = Extend(stored, p, source[p])
    OBVIOUS
  <2>8. /\ DOMAIN new = DOMAIN stored \cup {p}
        /\ DOMAIN new \subseteq Paths
        /\ \A q \in DOMAIN new : new[q] \in Versions \cup {Garbage}
    BY <2>3, <2>6, <2>7 DEF Extend
  <2>9. volumes' = Extend(volumes, n, new)
    BY <1>3, <2>1, <2>2, <2>7 DEF PipeNode
  <2>10. /\ DOMAIN volumes' = DOMAIN volumes \cup {n}
         /\ volumes'[n] = new
         /\ \A m \in DOMAIN volumes : m # n => volumes'[m] = volumes[m]
    BY <2>9 DEF Extend
  <2>11. \A m \in DOMAIN volumes :
            m \in DOMAIN volumes' /\ DOMAIN volumes[m] \subseteq DOMAIN volumes'[m]
    BY <2>5, <2>8, <2>10
  <2>12. UNCHANGED <<indexFiles, hashFiles, protectedDirs, protectedSnapshots>>
    BY DEF PipeNode
  <2>13. Disk'
    <3>1. \A m \in DOMAIN volumes' :
            /\ m \in Names
            /\ DOMAIN volumes'[m] \subseteq Paths
            /\ \A q \in DOMAIN volumes'[m] : volumes'[m][q] \in Versions \cup {Garbage}
      BY <2>4, <2>8, <2>10 DEF TypeInv, Disk
    <3>2. \A m : StoredOf(m) \subseteq StoredOf(m)'
      BY <2>11 DEF StoredOf
    <3>3. QED
      BY <2>12, <3>1, <3>2 DEF TypeInv, Disk, OwnedBy, Versions, Garbage
  <2>14. PICK piped : piped = Extend(program[g].piped, p, source[p])
    OBVIOUS
  <2>15. piped \in PartialFunctions(Paths, Versions) /\ DOMAIN piped = DOMAIN program[g].piped \cup {p}
    <3>1. program[g].piped \in PartialFunctions(Paths, Versions)
      BY <2>3 DEF Program
    <3>2. QED
      BY <2>3, <2>14, <3>1, ExtendIs, ExtendAt
  <2>16. PICK r : r = [program[g] EXCEPT !.piped = piped, !.createdDataDir = TRUE]
    OBVIOUS
  <2>17. /\ r \in Program /\ r.pc = "pipe" /\ r.name = n /\ r.listed = program[g].listed
         /\ r.loaded = program[g].loaded /\ r.data = program[g].data
         /\ r.createdDataDir /\ r.piped = piped
    BY <2>1, <2>3, <2>15, <2>16 DEF Program
  <2>18. program' = [program EXCEPT ![g] = r] /\ program'[g] = r
    BY <1>3, <2>14, <2>16 DEF PipeNode, TypeInv
  <2>19. Fresh(g)'
    BY <2>4, <2>17, <2>18, NoNameAssumption DEF Fresh
  <2>20. DOMAIN piped \subseteq DOMAIN volumes'[n]
    BY <2>5, <2>8, <2>10, <2>15
  <2>21. Adding(g)'
    BY <2>4, <2>10, <2>17, <2>18, <2>20 DEF Adding, IndexCreated, HashCreated
  <2>22. QED
    BY <1>1, <2>11, <2>12, <2>13, <2>17, <2>18, <2>19, <2>21, StepTypes
<1>4. QED
  BY <1>2, <1>3

\* The steps of AddSnapshot that create or write no file.
LEMMA UnwrittenTypes ==
    ASSUME TypeInv, NEW g \in Programs,
           \/ AllPiped(g) \/ ProtectData(g) \/ UnprotectIndex(g)
           \/ ProtectFiles(g) \/ ProtectIndex(g) \/ Check(g)
    PROVE  TypeInv'
<1>1. /\ Adding(g) /\ Disk /\ Environs /\ protectedDirs \subseteq {"data", "index"}
      /\ protectedSnapshots \subseteq DOMAIN hashFiles
  BY DEF TypeInv, Disk
<1>2. CASE AllPiped(g)
  <2>1. /\ Continue(g, "protectData") /\ program[g].pc = "pipe"
        /\ UNCHANGED <<volumes, indexFiles, hashFiles, environment, protectedDirs, protectedSnapshots>>
        /\ DOMAIN program[g].piped = program[g].data
    BY <1>2 DEF AllPiped, At, disk
  <2>2. /\ "protectData" \in Phases /\ "protectData" \in NamedPhases \ {"pipe"}
        /\ "protectData" \notin IndexCreated /\ "protectData" \notin HashCreated
        /\ program[g].pc \in NamedPhases
    BY <2>1 DEF Phases, NamedPhases, IndexCreated, HashCreated
  <2>3. QED
    BY <1>1, <2>1, <2>2, PcTypes
<1>3. CASE ProtectData(g)
  <2>1. /\ Continue(g, "unprotectIndex") /\ program[g].pc = "protectData"
        /\ UNCHANGED <<volumes, indexFiles, hashFiles, environment, protectedSnapshots>>
        /\ protectedDirs' \subseteq {"data", "index"}
    BY <1>1, <1>3 DEF ProtectData, WriteProtected, At
  <2>2. /\ "unprotectIndex" \in Phases /\ "unprotectIndex" \in NamedPhases \ {"pipe"}
        /\ "unprotectIndex" \notin IndexCreated /\ "unprotectIndex" \notin HashCreated
        /\ program[g].pc \in NamedPhases /\ program[g].pc # "pipe"
    BY <2>1 DEF Phases, NamedPhases, IndexCreated, HashCreated
  <2>3. QED
    BY <1>1, <2>1, <2>2, PcTypes
<1>4. CASE UnprotectIndex(g)
  <2>1. /\ Continue(g, "createIndex") /\ program[g].pc = "unprotectIndex"
        /\ UNCHANGED <<volumes, indexFiles, hashFiles, environment, protectedSnapshots>>
        /\ protectedDirs' \subseteq {"data", "index"}
    BY <1>1, <1>4 DEF UnprotectIndex, At
  <2>2. /\ "createIndex" \in Phases /\ "createIndex" \in NamedPhases \ {"pipe"}
        /\ "createIndex" \notin IndexCreated /\ "createIndex" \notin HashCreated
        /\ program[g].pc \in NamedPhases /\ program[g].pc # "pipe"
    BY <2>1 DEF Phases, NamedPhases, IndexCreated, HashCreated
  <2>3. QED
    BY <1>1, <2>1, <2>2, PcTypes
<1>5. CASE ProtectFiles(g)
  <2>1. /\ Continue(g, "protectIndex") /\ program[g].pc = "protectFiles"
        /\ UNCHANGED <<volumes, indexFiles, hashFiles, environment, protectedDirs>>
        /\ protectedSnapshots' = protectedSnapshots \cup {program[g].name}
    BY <1>5 DEF ProtectFiles, At
  <2>2. /\ "protectIndex" \in Phases /\ "protectIndex" \in NamedPhases \ {"pipe"}
        /\ program[g].pc \in NamedPhases /\ program[g].pc # "pipe"
        /\ program[g].pc \in IndexCreated /\ program[g].pc \in HashCreated
    BY <2>1 DEF Phases, NamedPhases, IndexCreated, HashCreated
  <2>3. program[g].name \in DOMAIN indexFiles /\ program[g].name \in DOMAIN hashFiles
    BY <1>1, <2>2 DEF Adding
  <2>4. protectedSnapshots' \subseteq DOMAIN hashFiles
    BY <1>1, <2>1, <2>3
  <2>5. QED
    BY <1>1, <2>1, <2>2, <2>3, <2>4, PcTypes
<1>6. CASE ProtectIndex(g)
  <2>1. /\ Continue(g, "list")
        /\ UNCHANGED <<volumes, indexFiles, hashFiles, environment, protectedSnapshots>>
        /\ protectedDirs' \subseteq {"data", "index"}
    BY <1>1, <1>6 DEF ProtectIndex, WriteProtected
  <2>2. "list" \in Phases /\ "list" \notin NamedPhases \cup {"index"}
    BY DEF Phases, NamedPhases
  <2>3. QED
    BY <1>1, <2>1, <2>2, PcTypes
<1>7. CASE Check(g)
  <2>1. /\ Continue(g, "verify") \/ End(g, "failure")
        /\ UNCHANGED <<volumes, indexFiles, hashFiles, environment, protectedDirs, protectedSnapshots>>
        /\ UNCHANGED disk /\ Environs'
    BY <1>1, <1>7 DEF Check, disk, environment, Environs
  <2>2. "verify" \in Phases /\ "verify" \notin NamedPhases \cup {"index"}
    BY DEF Phases, NamedPhases
  <2>3. QED
    BY <1>1, <2>1, <2>2, PcTypes, EndTypes
<1>8. QED
  BY <1>2, <1>3, <1>4, <1>5, <1>6, <1>7

\* The index that an add-snapshot serialises has all nodes, and owns those that were
\* piped to its volumes.
LEMMA NewIndexIs ==
    ASSUME TypeInv, NEW g \in Programs, program[g].pc \in NamedPhases \ {"pipe"}
    PROVE  /\ NewIndex(g) \in Index
           /\ OwnedBy(NewIndex(g)) = program[g].data
           /\ OwnedBy(NewIndex(g)) \subseteq StoredOf(program[g].name)
<1>1. program[g] \in Program /\ Adding(g) /\ program[g].pc \in NamedPhases
  BY DEF TypeInv
<1>2. /\ program[g].listed \in PartialFunctions(Paths, Versions)
      /\ program[g].piped \in PartialFunctions(Paths, Versions)
      /\ program[g].loaded \in Seq(Snapshot) /\ program[g].data \in SUBSET Paths
  BY <1>1 DEF Program
<1>3. \A p \in Paths : program[g].listed[p] \in Versions
  BY <1>1, <1>2, PartialIs DEF Adding
<1>4. DOMAIN program[g].piped = program[g].data
  BY <1>1 DEF Adding
<1>5. \A p \in program[g].data : program[g].piped[p] \in Versions
  BY <1>2, <1>4, PartialIs
<1>6. ASSUME NEW p \in Paths \ program[g].data
      PROVE  LastOf(g).nodes[p].content \in Versions \cup {Garbage}
  <2>1. program[g].loaded # <<>>
    BY <1>1, <1>6 DEF Adding
  <2>2. LastOf(g) \in Snapshot
    BY <1>2, <2>1 DEF LastOf
  <2>3. LastOf(g).nodes \in [Paths -> Node]
    BY <2>2 DEF Snapshot, Index
  <2>4. LastOf(g).nodes[p] \in Node
    BY <2>3
  <2>5. QED
    BY <2>4 DEF Node
<1>7. ASSUME NEW p \in Paths PROVE NewIndex(g)[p] \in Node /\ NewIndex(g)[p].owns = (p \in program[g].data)
  <2>1. PICK c \in Versions \cup {Garbage} :
        c = IF p \in program[g].data THEN program[g].piped[p] ELSE LastOf(g).nodes[p].content
    BY <1>5, <1>6
  <2>2. NewIndex(g)[p] = [listed |-> program[g].listed[p], content |-> c, owns |-> p \in program[g].data]
    BY <2>1 DEF NewIndex
  <2>3. QED
    BY <1>3, <2>2 DEF Node
<1>8. DOMAIN NewIndex(g) = Paths /\ NewIndex(g) = [p \in Paths |-> NewIndex(g)[p]]
  BY DEF NewIndex
<1>9. NewIndex(g) \in Index
  BY <1>7, <1>8 DEF Index
<1>10. OwnedBy(NewIndex(g)) = program[g].data
  BY <1>2, <1>7 DEF OwnedBy
<1>11. program[g].data \subseteq StoredOf(program[g].name)
  BY <1>1, <1>4 DEF Adding, StoredOf
<1>12. QED
  BY <1>9, <1>10, <1>11

\* A step that writes a file of the snapshot of g and goes on.
LEMMA WritesTypes ==
    ASSUME TypeInv, NEW g \in Programs, NEW x \in Phases, Continue(g, x),
           UNCHANGED <<volumes, protectedDirs, protectedSnapshots, environment>>, Disk',
           DOMAIN indexFiles \subseteq DOMAIN indexFiles',
           DOMAIN hashFiles \subseteq DOMAIN hashFiles',
           program[g].pc \in NamedPhases \ {"pipe"}, x \in NamedPhases \ {"pipe"},
           x \in IndexCreated => program[g].name \in DOMAIN indexFiles',
           x \in HashCreated => program[g].name \in DOMAIN hashFiles'
    PROVE  TypeInv'
<1>1. PICK r : r = [program[g] EXCEPT !.pc = x]
  OBVIOUS
<1>2. program' = [program EXCEPT ![g] = r]
  BY <1>1 DEF Continue, TypeInv
<1>3. program'[g] = r
  BY <1>2 DEF TypeInv
<1>4. program[g] \in Program
  BY DEF TypeInv
<1>5. /\ r.pc = x /\ r.name = program[g].name /\ r.listed = program[g].listed
      /\ r.loaded = program[g].loaded /\ r.data = program[g].data
      /\ r.piped = program[g].piped /\ r.createdDataDir = program[g].createdDataDir
      /\ r \in Program
  BY <1>1, <1>4 DEF Program, Phases
<1>6. Fresh(g) /\ Adding(g)
  BY DEF TypeInv
<1>7. Fresh(g)'
  BY <1>3, <1>5, <1>6 DEF Fresh, NamedPhases
<1>8. Adding(g)'
  BY <1>3, <1>5, <1>6 DEF Adding
<1>9. Environs'
  BY DEF TypeInv, Environs, environment
<1>10. QED
  BY <1>2, <1>5, <1>7, <1>8, <1>9, StepTypes

\* A created index file is empty.
LEMMA CreateIndexTypes ==
    ASSUME TypeInv, NEW g \in Programs, CreateIndex(g)
    PROVE  TypeInv'
<1>1. Environs' /\ Adding(g)
  BY DEF CreateIndex, environment, TypeInv, Environs
<1>2. CASE ~CanCreate(indexFiles, program[g].name)
  <2>1. End(g, "failure") /\ UNCHANGED disk
    BY <1>2 DEF CreateIndex, disk
  <2>2. QED
    BY <1>1, <2>1, EndTypes
<1>3. CASE CanCreate(indexFiles, program[g].name)
  <2>1. PICK n : n = program[g].name
    OBVIOUS
  <2>2. /\ Continue(g, "writeIndex") /\ program[g].pc = "createIndex"
        /\ UNCHANGED <<volumes, hashFiles, protectedDirs, protectedSnapshots, environment>>
        /\ indexFiles' = Extend(indexFiles, n, Empty)
        /\ n \notin DOMAIN indexFiles
    BY <1>3, <2>1 DEF CreateIndex, At, CanCreate
  <2>3. /\ DOMAIN indexFiles' = DOMAIN indexFiles \cup {n} /\ indexFiles'[n] = Empty
        /\ \A m \in DOMAIN indexFiles : indexFiles'[m] = indexFiles[m]
    BY <2>2 DEF Extend
  <2>4. /\ program[g].pc \in NamedPhases \ {"pipe"} /\ "writeIndex" \in NamedPhases \ {"pipe"}
        /\ "writeIndex" \notin HashCreated /\ "writeIndex" \in Phases
    BY <2>2 DEF NamedPhases, HashCreated, Phases
  <2>5. n \in Names
    BY <1>1, <2>1, <2>4 DEF Adding
  <2>6. Disk'
    BY <2>2, <2>3, <2>5 DEF TypeInv, Disk, OwnedBy, StoredOf, Versions, Names, Index
  <2>7. QED
    BY <2>1, <2>2, <2>3, <2>4, <2>6, WritesTypes
<1>4. QED
  BY <1>2, <1>3

\* A written index owns only nodes that the volumes have.
LEMMA WriteIndexTypes ==
    ASSUME TypeInv, NEW g \in Programs, WriteIndex(g)
    PROVE  TypeInv'
<1>1. PICK n : n = program[g].name
  OBVIOUS
<1>2. PICK new : new = NewIndex(g)
  OBVIOUS
<1>3. /\ Continue(g, "createHash") /\ program[g].pc = "writeIndex"
      /\ UNCHANGED <<volumes, hashFiles, protectedDirs, protectedSnapshots, environment>>
      /\ indexFiles' = [indexFiles EXCEPT ![n] = new]
  BY <1>1, <1>2 DEF WriteIndex, At
<1>4. /\ program[g].pc \in NamedPhases \ {"pipe"} /\ program[g].pc \in IndexCreated
      /\ "createHash" \in NamedPhases \ {"pipe"}
      /\ "createHash" \notin HashCreated /\ "createHash" \in Phases
  BY <1>3 DEF NamedPhases, IndexCreated, HashCreated, Phases
<1>5. n \in DOMAIN indexFiles
  BY <1>1, <1>4 DEF TypeInv, Adding
<1>6. /\ DOMAIN indexFiles' = DOMAIN indexFiles /\ indexFiles'[n] = new
      /\ \A m \in DOMAIN indexFiles : m # n => indexFiles'[m] = indexFiles[m]
  BY <1>3, <1>5
<1>7. new \in Index /\ OwnedBy(new) \subseteq StoredOf(n)
  BY <1>1, <1>2, <1>4, NewIndexIs
<1>8. Disk'
  <2>1. ASSUME NEW m \in DOMAIN indexFiles'
        PROVE  /\ m \in Names /\ indexFiles'[m] \in Index \cup {Empty}
               /\ indexFiles'[m] # Empty => OwnedBy(indexFiles'[m]) \subseteq StoredOf(m)
    <3>1. CASE m = n
      BY <1>5, <1>6, <1>7, <3>1 DEF TypeInv, Disk
    <3>2. CASE m # n
      BY <1>6, <3>2 DEF TypeInv, Disk
    <3>3. QED
      BY <3>1, <3>2
  <2>2. \A m : StoredOf(m)' = StoredOf(m)
    BY <1>3 DEF StoredOf
  <2>3. QED
    BY <1>3, <1>6, <2>1, <2>2 DEF TypeInv, Disk, OwnedBy, Versions, Names, Index, Empty
<1>9. QED
  BY <1>1, <1>3, <1>4, <1>5, <1>6, <1>8, WritesTypes

\* A created hash file is empty, and its index is there.
LEMMA CreateHashTypes ==
    ASSUME TypeInv, NEW g \in Programs, CreateHash(g)
    PROVE  TypeInv'
<1>1. Environs' /\ Adding(g)
  BY DEF CreateHash, environment, TypeInv, Environs
<1>2. CASE ~CanCreate(hashFiles, program[g].name)
  <2>1. End(g, "failure") /\ UNCHANGED disk
    BY <1>2 DEF CreateHash, disk
  <2>2. QED
    BY <1>1, <2>1, EndTypes
<1>3. CASE CanCreate(hashFiles, program[g].name)
  <2>1. PICK n : n = program[g].name
    OBVIOUS
  <2>2. /\ Continue(g, "writeHash") /\ program[g].pc = "createHash"
        /\ UNCHANGED <<volumes, indexFiles, protectedDirs, protectedSnapshots, environment>>
        /\ hashFiles' = Extend(hashFiles, n, Empty)
        /\ n \notin DOMAIN hashFiles
    BY <1>3, <2>1 DEF CreateHash, At, CanCreate
  <2>3. /\ DOMAIN hashFiles' = DOMAIN hashFiles \cup {n} /\ hashFiles'[n] = Empty
        /\ \A m \in DOMAIN hashFiles : hashFiles'[m] = hashFiles[m]
    BY <2>2 DEF Extend
  <2>4. /\ program[g].pc \in NamedPhases \ {"pipe"} /\ program[g].pc \in IndexCreated
        /\ "writeHash" \in NamedPhases \ {"pipe"} /\ "writeHash" \in Phases
    BY <2>2 DEF NamedPhases, IndexCreated, Phases
  <2>5. n \in DOMAIN indexFiles
    BY <1>1, <2>1, <2>4 DEF Adding
  <2>6. Disk'
    BY <2>2, <2>3, <2>5 DEF TypeInv, Disk, OwnedBy, StoredOf, Versions, Names, Index
  <2>7. QED
    BY <2>1, <2>2, <2>3, <2>4, <2>5, <2>6, WritesTypes
<1>4. QED
  BY <1>2, <1>3

\* A written hash file is of an index.
LEMMA WriteHashTypes ==
    ASSUME TypeInv, NEW g \in Programs, WriteHash(g)
    PROVE  TypeInv'
<1>1. PICK n : n = program[g].name
  OBVIOUS
<1>2. PICK new : new = NewIndex(g)
  OBVIOUS
<1>3. /\ Continue(g, "protectFiles") /\ program[g].pc = "writeHash"
      /\ UNCHANGED <<volumes, indexFiles, protectedDirs, protectedSnapshots, environment>>
      /\ hashFiles' = [hashFiles EXCEPT ![n] = new]
  BY <1>1, <1>2 DEF WriteHash, At
<1>4. /\ program[g].pc \in NamedPhases \ {"pipe"} /\ program[g].pc \in IndexCreated
      /\ program[g].pc \in HashCreated
      /\ "protectFiles" \in NamedPhases \ {"pipe"} /\ "protectFiles" \in Phases
  BY <1>3 DEF NamedPhases, IndexCreated, HashCreated, Phases
<1>5. n \in DOMAIN indexFiles /\ n \in DOMAIN hashFiles
  BY <1>1, <1>4 DEF TypeInv, Adding
<1>6. /\ DOMAIN hashFiles' = DOMAIN hashFiles /\ hashFiles'[n] = new
      /\ \A m \in DOMAIN hashFiles : m # n => hashFiles'[m] = hashFiles[m]
  BY <1>3, <1>5
<1>7. new \in Index
  BY <1>1, <1>2, <1>4, NewIndexIs
<1>8. Disk'
  BY <1>3, <1>6, <1>7 DEF TypeInv, Disk, OwnedBy, StoredOf, Versions, Names, Index, Empty
<1>9. QED
  BY <1>1, <1>3, <1>4, <1>5, <1>6, <1>8, WritesTypes

\* A file that has rotted has its type, and is said to own what it owned.
LEMMA RottenIs ==
    ASSUME NEW nodes \in Index
    PROVE  Rotten(nodes) \in Index /\ OwnedBy(Rotten(nodes)) = OwnedBy(nodes)
<1>1. \A p \in Paths : nodes[p] \in Node
  BY DEF Index
<1>2. \A p \in Paths : [nodes[p] EXCEPT !.content = Garbage] \in Node
                       /\ [nodes[p] EXCEPT !.content = Garbage].owns = nodes[p].owns
  BY <1>1 DEF Node
<1>3. QED
  BY <1>2 DEF Rotten, Index, OwnedBy

\* A file that rots keeps its type, and an index the nodes that it owns.
LEMMA CorruptTypes ==
    ASSUME TypeInv, NEW n, Corrupt(n)
    PROVE  TypeInv'
<1>1. /\ Intact(n) /\ UNCHANGED <<protectedDirs, protectedSnapshots, source, clock, program>>
      /\ used' = [used EXCEPT !.corruptions = @ + 1]
  BY DEF Corrupt
<1>2. Environs'
  BY <1>1 DEF TypeInv, Environs
<1>3. /\ n \in DOMAIN indexFiles /\ n \in DOMAIN hashFiles /\ n \in Names
      /\ indexFiles[n] \in Index /\ indexFiles[n] # Empty /\ indexFiles[n] = hashFiles[n]
  BY <1>1, IntactIs DEF Intact
<1>4. PICK rotten \in Index : rotten = Rotten(indexFiles[n]) /\ OwnedBy(rotten) = OwnedBy(indexFiles[n])
  BY <1>3, RottenIs
<1>5. CASE /\ n \in DOMAIN volumes
           /\ \E p \in DOMAIN volumes[n] : volumes' = [volumes EXCEPT ![n][p] = Garbage]
           /\ UNCHANGED <<indexFiles, hashFiles>>
  <2>1. PICK p \in DOMAIN volumes[n] : volumes' = [volumes EXCEPT ![n][p] = Garbage]
    BY <1>5
  <2>2. PICK bytes : bytes = [volumes[n] EXCEPT ![p] = Garbage]
    OBVIOUS
  <2>3. volumes' = [volumes EXCEPT ![n] = bytes]
    BY <2>1, <2>2
  <2>4. /\ DOMAIN volumes' = DOMAIN volumes /\ volumes'[n] = bytes
        /\ \A m \in DOMAIN volumes : m # n => volumes'[m] = volumes[m]
    BY <1>5, <2>3
  <2>5. /\ DOMAIN bytes = DOMAIN volumes[n]
        /\ \A q \in DOMAIN bytes : bytes[q] = volumes[n][q] \/ bytes[q] = Garbage
    BY <2>2
  <2>6. \A m \in DOMAIN volumes' :
            /\ m \in Names /\ DOMAIN volumes'[m] = DOMAIN volumes[m]
            /\ DOMAIN volumes'[m] \subseteq Paths
            /\ \A q \in DOMAIN volumes'[m] : volumes'[m][q] \in Versions \cup {Garbage}
    BY <1>5, <2>4, <2>5 DEF TypeInv, Disk
  <2>7. \A m : StoredOf(m)' = StoredOf(m)
    BY <2>4, <2>6 DEF StoredOf
  <2>8. Disk'
    BY <1>1, <1>5, <2>6, <2>7 DEF TypeInv, Disk, OwnedBy, Versions, Garbage
  <2>9. QED
    BY <1>1, <1>2, <1>5, <2>4, <2>6, <2>8, EnvironmentTypes
<1>6. CASE indexFiles' = [indexFiles EXCEPT ![n] = Rotten(@)] /\ UNCHANGED <<volumes, hashFiles>>
  <2>1. /\ DOMAIN indexFiles' = DOMAIN indexFiles /\ indexFiles'[n] = rotten
        /\ \A m \in DOMAIN indexFiles : m # n => indexFiles'[m] = indexFiles[m]
    BY <1>3, <1>4, <1>6
  <2>2. \A m : StoredOf(m)' = StoredOf(m)
    BY <1>6 DEF StoredOf
  <2>3. ASSUME NEW m \in DOMAIN indexFiles'
        PROVE  /\ m \in Names /\ indexFiles'[m] \in Index \cup {Empty}
               /\ indexFiles'[m] # Empty => OwnedBy(indexFiles'[m]) \subseteq StoredOf(m)
    <3>1. CASE m = n
      BY <1>3, <1>4, <2>1, <3>1 DEF TypeInv, Disk
    <3>2. CASE m # n
      BY <2>1, <3>2 DEF TypeInv, Disk
    <3>3. QED
      BY <3>1, <3>2
  <2>4. Disk'
    BY <1>1, <1>6, <2>1, <2>2, <2>3 DEF TypeInv, Disk, OwnedBy, Versions, Names, Index, Empty
  <2>5. QED
    BY <1>1, <1>2, <1>6, <2>1, <2>4, EnvironmentTypes
<1>7. CASE hashFiles' = [hashFiles EXCEPT ![n] = Rotten(@)] /\ UNCHANGED <<volumes, indexFiles>>
  <2>1. /\ DOMAIN hashFiles' = DOMAIN hashFiles /\ hashFiles'[n] = rotten
        /\ \A m \in DOMAIN hashFiles : m # n => hashFiles'[m] = hashFiles[m]
    BY <1>3, <1>4, <1>7
  <2>2. Disk'
    BY <1>1, <1>7, <2>1 DEF TypeInv, Disk, OwnedBy, StoredOf, Versions, Names, Index, Empty
  <2>3. QED
    BY <1>1, <1>2, <1>7, <2>1, <2>2, EnvironmentTypes
<1>8. QED
  BY <1>5, <1>6, <1>7 DEF Corrupt

\* Every step keeps the types.
LEMMA NextTypeInv == TypeInv /\ [Next]_vars => TypeInv'
<1> SUFFICES ASSUME TypeInv, [Next]_vars PROVE TypeInv'
  OBVIOUS
<1>1. ASSUME NEW g \in Programs, NEW i \in Names, Verify(g, i) PROVE TypeInv'
  <2>1. \E result \in {"none", "failure", "success"} : End(g, result)
    BY <1>1 DEF Verify
  <2>2. Environs' /\ UNCHANGED disk
    BY <1>1 DEF Verify, environment, TypeInv, Environs
  <2>3. QED
    BY <2>1, <2>2, EndTypes
<1>2. ASSUME NEW g \in Programs, ReadInSnapshots(g) PROVE TypeInv'
  BY <1>2, ListTypes, DeserializeTypes, SnapshotsAreReadTypes DEF ReadInSnapshots
<1>3. ASSUME NEW g \in Programs, AddSnapshot(g) PROVE TypeInv'
  BY <1>3, BeginSnapshotTypes, PipeNodeTypes, UnwrittenTypes, CreateIndexTypes,
     WriteIndexTypes, CreateHashTypes, WriteHashTypes DEF AddSnapshot
<1>4. ASSUME NEW g \in Programs, Step(g) PROVE TypeInv'
  BY <1>1, <1>2, <1>3, <1>4, StartTypes DEF Step
<1>5. ASSUME NEW g \in Programs, Kill(g) PROVE TypeInv'
  <2>1. End(g, "none") /\ UNCHANGED disk /\ Environs'
    BY <1>5 DEF Kill, TypeInv, Environs
  <2>2. QED
    BY <2>1, EndTypes
<1>6. ASSUME NEW p \in Paths, Edit(p) PROVE TypeInv'
  <2>1. UNCHANGED <<disk, program>>
    BY <1>6 DEF Edit
  <2>2. Environs'
    BY <1>6, BoundsAssumption DEF Edit, TypeInv, Environs, Versions
  <2>3. QED
    BY <2>1, <2>2, SameDisk, EnvironmentTypes DEF disk
<1>7. CASE Tick
  <2>1. UNCHANGED <<disk, program>>
    BY <1>7 DEF Tick
  <2>2. Environs'
    BY <1>7, BoundsAssumption DEF Tick, TypeInv, Environs, Names
  <2>3. QED
    BY <2>1, <2>2, SameDisk, EnvironmentTypes DEF disk
<1>8. ASSUME NEW n, Corrupt(n) PROVE TypeInv'
  BY <1>8, CorruptTypes
<1>9. CASE UNCHANGED vars
  <2>1. UNCHANGED <<disk, program>> /\ Environs'
    BY <1>9 DEF vars, environment, TypeInv, Environs
  <2>2. QED
    BY <2>1, SameDisk, EnvironmentTypes DEF disk
<1>10. QED
  BY <1>4, <1>5, <1>6, <1>7, <1>8, <1>9 DEF Next, Environment

\* The types hold always.
LEMMA TypesAlways == Spec => []TypeInv
BY InitTypeInv, NextTypeInv, PTL DEF Spec

\* For any number of programs that add snapshots at the same time, are killed, or
\* find files that have rotted: every file and program has its type, no hash file is
\* without its index, and a complete snapshot has in its volumes all nodes that its
\* index says it owns, so that reading them finds something (Snapshot::Serialize is
\* called after the nodes were backed up, SnapshotManager.cpp:105).
THEOREM StoreTypesAreCorrect == Spec => []TypeOK
BY TypesAlways, TypeInvTypes, PTL

-----------------------------------------------------------------------------
(* What programs read in, if only one at a time adds snapshots. *)

NamesOf(loaded) == {loaded[j].name : j \in 1..Len(loaded)}
Elements(names) == {names[j] : j \in 1..Len(names)}

\* A snapshot that was serialised refers to the one that was serialised before it, and
\* has the contents of that one where it does not own the data.
Follows(n) ==
    /\ written[n].nodes \in Index
    /\ \/ /\ written[n].base = NoName
          /\ \A m \in DOMAIN written : ~(m < n)
          /\ \A p \in Paths : written[n].nodes[p].owns
       \/ /\ written[n].base \in DOMAIN written
          /\ written[n].base < n
          /\ \A m \in DOMAIN written : m < n => m <= written[n].base
          /\ \A p \in Paths :
                written[n].nodes[p].owns \/ written[n].nodes[p].content
                                            = written[written[n].base].nodes[p].content

\* What can be read in is what was serialised, never before now.
Serialised ==
    /\ DOMAIN written \subseteq DOMAIN indexFiles
    /\ \A n \in DOMAIN indexFiles : n <= clock
    /\ \A n \in DOMAIN indexFiles :
        Intact(n) => n \in DOMAIN written /\ indexFiles[n] = written[n].nodes
    /\ \A n \in DOMAIN written : Follows(n)

\* What a program has loaded is in order, is what was serialised, and leaves out no
\* file before it; the files that it is still to read come after that in order.
Loaded(g) ==
    /\ \A i, j \in 1..Len(program[g].loaded) :
        i < j => program[g].loaded[i].name < program[g].loaded[j].name
    /\ \A j \in 1..Len(program[g].loaded) :
        /\ program[g].loaded[j].name \in DOMAIN written
        /\ program[g].loaded[j].nodes = written[program[g].loaded[j].name].nodes
    /\ \A n \in NamesOf(program[g].loaded), x \in DOMAIN indexFiles :
        x < n => x \in NamesOf(program[g].loaded)
ToRead(g) ==
    program[g].pc = "read" =>
        /\ \A i, j \in 1..Len(program[g].toRead) :
            i < j => program[g].toRead[i] < program[g].toRead[j]
        /\ Elements(program[g].toRead) \subseteq DOMAIN indexFiles
        /\ \A n \in NamesOf(program[g].loaded), m \in Elements(program[g].toRead) : n < m
        /\ \A m \in Elements(program[g].toRead), x \in DOMAIN indexFiles :
            x < m => x \in NamesOf(program[g].loaded) \cup Elements(program[g].toRead)

\* An add-snapshot knows all index files but its own, which is the last one.
Unserialised == {"index", "pipe", "protectData", "unprotectIndex", "createIndex"}
Knows(g) ==
    Adds(g) =>
        /\ program[g].pc = "read" =>
            DOMAIN indexFiles \subseteq
                NamesOf(program[g].loaded) \cup Elements(program[g].toRead)
        /\ program[g].pc \in Unserialised =>
            DOMAIN indexFiles \subseteq NamesOf(program[g].loaded)
        /\ program[g].pc \in IndexCreated =>
            /\ DOMAIN indexFiles \subseteq NamesOf(program[g].loaded) \cup {program[g].name}
            /\ program[g].name \notin NamesOf(program[g].loaded)
        /\ program[g].pc \in NamedPhases =>
            /\ program[g].name <= clock
            /\ \A n \in DOMAIN indexFiles : n <= program[g].name
        /\ program[g].pc = "writeIndex" =>
            program[g].name \notin DOMAIN written /\ program[g].name \notin DOMAIN hashFiles
        /\ program[g].pc \in {"createHash", "writeHash"} =>
            /\ program[g].name \in DOMAIN written
            /\ written[program[g].name].nodes = NewIndex(g)
        /\ program[g].pc = "createHash" => program[g].name \notin DOMAIN hashFiles
        /\ program[g].pc = "writeHash" => hashFiles[program[g].name] = Empty

\* The inductive invariant of what is read in.
LogInv == Serialised /\ \A g \in Programs : Loaded(g) /\ ToRead(g) /\ Knows(g)

\* At the beginning nothing is read in, and there is nothing.
LEMMA InitLogInv == Init => LogInv
<1> SUFFICES ASSUME Init PROVE LogInv
  OBVIOUS
<1>1. PICK r : r = NotRunning("none")
  OBVIOUS
<1>2. r.command = "none" /\ r.pc = "ended" /\ r.loaded = <<>>
  BY <1>1 DEF NotRunning
<1>3. program = [g \in Programs |-> r]
  BY <1>1 DEF Init
<1>4. \A g \in Programs : Loaded(g) /\ ToRead(g) /\ Knows(g)
  <2>1. Len(r.loaded) = 0 /\ NamesOf(r.loaded) = {}
    BY <1>2 DEF NamesOf
  <2>2. QED
    BY <1>2, <1>3, <2>1 DEF Loaded, ToRead, Knows, Adds
<1>5. Serialised
  BY DEF Init, Serialised
<1>6. QED
  BY <1>4, <1>5 DEF LogInv

\* A step of g that writes neither an index nor a hash file.
LEMMA QuietStep ==
    ASSUME TypeInv, LogInv, NEW g \in Programs, NEW r,
           program' = [program EXCEPT ![g] = r],
           UNCHANGED <<indexFiles, hashFiles, written, clock>>,
           Loaded(g)', ToRead(g)', Knows(g)'
    PROVE  LogInv'
<1>1. \A h \in Programs \ {g} : program'[h] = program[h]
  BY DEF TypeInv
<1>2. ASSUME NEW h \in Programs \ {g} PROVE Loaded(h)' /\ ToRead(h)' /\ Knows(h)'
  <2>1. program'[h] = program[h] /\ Loaded(h) /\ ToRead(h) /\ Knows(h)
    BY <1>1 DEF LogInv
  <2>2. Loaded(h)'
    BY <2>1 DEF Loaded
  <2>3. ToRead(h)'
    BY <2>1 DEF ToRead
  <2>4. NewIndex(h)' = NewIndex(h) /\ (Adds(h)' <=> Adds(h))
    BY <2>1 DEF NewIndex, LastOf, Adds
  <2>5. Knows(h)'
    BY <2>1, <2>4 DEF Knows
  <2>6. QED
    BY <2>2, <2>3, <2>5
<1>3. Serialised'
  BY DEF LogInv, Serialised, Follows, Intact, Parsed, Index, Node, Versions, Garbage
<1>4. QED
  BY <1>2, <1>3 DEF LogInv

\* The end of a program writes nothing, and it has loaded nothing then.
LEMMA QuietEnd ==
    ASSUME TypeInv, LogInv, NEW g \in Programs, NEW result, End(g, result),
           UNCHANGED <<indexFiles, hashFiles, written, clock>>
    PROVE  LogInv'
<1>1. PICK r : r = NotRunning(result)
  OBVIOUS
<1>2. r.command = "none" /\ r.pc = "ended" /\ r.loaded = <<>>
  BY <1>1 DEF NotRunning
<1>3. program' = [program EXCEPT ![g] = r] /\ program'[g] = r
  BY <1>1 DEF End, TypeInv
<1>4. Len(r.loaded) = 0 /\ NamesOf(r.loaded) = {}
  BY <1>2 DEF NamesOf
<1>5. Loaded(g)' /\ ToRead(g)' /\ Knows(g)'
  BY <1>2, <1>3, <1>4 DEF Loaded, ToRead, Knows, Adds
<1>6. QED
  BY <1>3, <1>5, QuietStep

\* A program that goes on with what it has loaded.
LEMMA QuietContinue ==
    ASSUME TypeInv, LogInv, NEW g \in Programs, NEW x \in Phases \ {"read"}, Continue(g, x),
           UNCHANGED <<indexFiles, hashFiles, written, clock>>,
           \/ x \in {"list", "check", "verify"}
           \/ x = "index" /\ program[g].pc = "read" /\ program[g].toRead = <<>>
           \/ x \in Unserialised \ {"index"} /\ program[g].pc \in Unserialised \ {"index"}
           \/ x = "protectIndex" /\ program[g].pc = "protectFiles"
    PROVE  LogInv'
<1>1. PICK r : r = [program[g] EXCEPT !.pc = x]
  OBVIOUS
<1>2. program[g] \in Program
  BY DEF TypeInv
<1>3. /\ r.pc = x /\ r.name = program[g].name /\ r.loaded = program[g].loaded
      /\ r.command = program[g].command
  BY <1>1, <1>2 DEF Program
<1>4. program' = [program EXCEPT ![g] = r] /\ program'[g] = r
  BY <1>1 DEF Continue, TypeInv
<1>5. Loaded(g) /\ ToRead(g) /\ Knows(g)
  BY DEF LogInv
<1>6. Loaded(g)'
  BY <1>3, <1>4, <1>5 DEF Loaded
<1>7. ToRead(g)'
  BY <1>3, <1>4 DEF ToRead
<1>8. Adds(g)' <=> Adds(g)
  BY <1>3, <1>4 DEF Adds
<1>9. Knows(g)'
  <2>1. CASE x \in {"list", "check", "verify"}
    BY <1>3, <1>4, <2>1 DEF Knows, Unserialised, IndexCreated, NamedPhases
  <2>2. CASE x = "index" /\ program[g].pc = "read" /\ program[g].toRead = <<>>
    <3>1. Elements(program[g].toRead) = {}
      BY <2>2 DEF Elements
    <3>2. QED
      BY <1>3, <1>4, <1>5, <1>8, <2>2, <3>1 DEF Knows, Unserialised, IndexCreated, NamedPhases
  <2>3. CASE x \in Unserialised \ {"index"} /\ program[g].pc \in Unserialised \ {"index"}
    BY <1>3, <1>4, <1>5, <1>8, <2>3 DEF Knows, Unserialised, IndexCreated, NamedPhases
  <2>4. CASE x = "protectIndex" /\ program[g].pc = "protectFiles"
    BY <1>3, <1>4, <1>5, <1>8, <2>4 DEF Knows, Unserialised, IndexCreated, NamedPhases
  <2>5. QED
    BY <2>1, <2>2, <2>3, <2>4
<1>10. QED
  BY <1>4, <1>6, <1>7, <1>9, QuietStep

\* A program that starts has read nothing in.
LEMMA StartLog ==
    ASSUME TypeInv, LogInv, NEW g \in Programs, Start(g)
    PROVE  LogInv'
<1>1. PICK c \in CommandsOf[g] :
        program' = [program EXCEPT ![g] =
                        [NotRunning("none") EXCEPT !.command = c, !.pc = "list"]]
  BY DEF Start
<1>2. PICK r : r = [NotRunning("none") EXCEPT !.command = c, !.pc = "list"]
  OBVIOUS
<1>3. r.pc = "list" /\ r.loaded = <<>>
  BY <1>2 DEF NotRunning
<1>4. program' = [program EXCEPT ![g] = r] /\ program'[g] = r
  BY <1>1, <1>2 DEF TypeInv
<1>5. Len(r.loaded) = 0 /\ NamesOf(r.loaded) = {}
  BY <1>3 DEF NamesOf
<1>6. Loaded(g)' /\ ToRead(g)' /\ Knows(g)'
  BY <1>3, <1>4, <1>5 DEF Loaded, ToRead, Knows, Unserialised, IndexCreated, NamedPhases
<1>7. QED
  BY <1>4, <1>6, QuietStep DEF Start, disk, environment

\* All index files are still to be read, in their order.
LEMMA ListLog ==
    ASSUME TypeInv, LogInv, NEW g \in Programs, ListSnapshotMetadataFiles(g)
    PROVE  LogInv'
<1>1. PICK names : names = Ascending(DOMAIN indexFiles)
  OBVIOUS
<1>2. DOMAIN indexFiles \in SUBSET Names
  BY DEF TypeInv, Disk
<1>3. /\ names \in Seq(Names) /\ Increasing(names)
      /\ names \in [1..Len(names) -> DOMAIN indexFiles]
      /\ \A x \in DOMAIN indexFiles : \E i \in 1..Len(names) : names[i] = x
  BY <1>1, <1>2, AscendingIs
<1>4. Elements(names) = DOMAIN indexFiles
  BY <1>3 DEF Elements
<1>5. PICK r : r = [program[g] EXCEPT !.toRead = names, !.loaded = <<>>, !.pc = "read"]
  OBVIOUS
<1>6. program[g] \in Program
  BY DEF TypeInv
<1>7. r.pc = "read" /\ r.loaded = <<>> /\ r.toRead = names
  BY <1>5, <1>6 DEF Program
<1>8. program' = [program EXCEPT ![g] = r] /\ program'[g] = r
      /\ UNCHANGED <<indexFiles, hashFiles, written, clock>>
  BY <1>1, <1>5 DEF ListSnapshotMetadataFiles, Sorted, TypeInv, disk, environment
<1>9. Len(r.loaded) = 0 /\ NamesOf(r.loaded) = {}
  BY <1>7 DEF NamesOf
<1>10. Loaded(g)'
  BY <1>8, <1>9 DEF Loaded
<1>11. \A i, j \in 1..Len(names) : i < j => names[i] < names[j]
  BY <1>3 DEF Increasing
<1>12. ToRead(g)'
  BY <1>4, <1>7, <1>8, <1>9, <1>11 DEF ToRead
<1>13. Knows(g)'
  BY <1>4, <1>7, <1>8 DEF Knows, Unserialised, IndexCreated, NamedPhases
<1>14. QED
  BY <1>8, <1>10, <1>12, <1>13, QuietStep

\* What one snapshot more, and one file less, make of the names.
LEMMA AppendIs ==
    ASSUME NEW loaded \in Seq(Snapshot), NEW s \in Snapshot, NEW l, l = Append(loaded, s)
    PROVE  /\ l \in Seq(Snapshot) /\ Len(l) = Len(loaded) + 1
           /\ \A j \in 1..Len(loaded) : l[j] = loaded[j]
           /\ l[Len(loaded) + 1] = s
           /\ \A j \in 1..Len(l) : j = Len(loaded) + 1 \/ j \in 1..Len(loaded)
           /\ NamesOf(l) = NamesOf(loaded) \cup {s.name}
<1>1. /\ l \in Seq(Snapshot) /\ Len(l) = Len(loaded) + 1 /\ Len(loaded) \in Nat
      /\ \A j \in 1..Len(loaded) : l[j] = loaded[j]
      /\ l[Len(loaded) + 1] = s
  OBVIOUS
<1>2. \A j \in 1..Len(l) : j = Len(loaded) + 1 \/ j \in 1..Len(loaded)
  BY <1>1
<1>3. Len(loaded) + 1 \in 1..Len(l) /\ \A j \in 1..Len(loaded) : j \in 1..Len(l)
  BY <1>1
<1>4. NamesOf(l) = NamesOf(loaded) \cup {s.name}
  BY <1>1, <1>2, <1>3 DEF NamesOf
<1>5. QED
  BY <1>1, <1>2, <1>4

\* The first of names in order, and the others.
LEMMA TailIs ==
    ASSUME NEW names \in Seq(Names), names # <<>>,
           \A i, j \in 1..Len(names) : i < j => names[i] < names[j],
           NEW t, t = Tail(names)
    PROVE  /\ Head(names) \in Names
           /\ Elements(names) = Elements(t) \cup {Head(names)}
           /\ \A i, j \in 1..Len(t) : i < j => t[i] < t[j]
           /\ \A m \in Elements(t) : Head(names) < m
<1>1. /\ t \in Seq(Names) /\ Len(names) \in Nat /\ Len(names) >= 1 /\ Len(t) = Len(names) - 1
      /\ \A i \in 1..Len(t) : t[i] = names[i + 1]
      /\ Head(names) = names[1] /\ Head(names) \in Names
  OBVIOUS
<1>2. 1 \in 1..Len(names) /\ \A i \in 1..Len(t) : i + 1 \in 1..Len(names)
  BY <1>1
<1>3. \A j \in 1..Len(names) : j = 1 \/ (j - 1 \in 1..Len(t) /\ (j - 1) + 1 = j)
  BY <1>1
<1>4. Elements(names) = Elements(t) \cup {Head(names)}
  <2>1. ASSUME NEW x \in Elements(names) PROVE x \in Elements(t) \cup {Head(names)}
    <3>1. PICK j \in 1..Len(names) : x = names[j]
      BY <2>1 DEF Elements
    <3>2. CASE j = 1
      BY <1>1, <3>1, <3>2
    <3>3. CASE j # 1
      <4>1. PICK i \in 1..Len(t) : i + 1 = j
        BY <1>3, <3>3
      <4>2. t[i] = x
        BY <1>1, <3>1, <4>1
      <4>3. QED
        BY <4>2 DEF Elements
    <3>4. QED
      BY <3>2, <3>3
  <2>2. Elements(t) \subseteq Elements(names)
    BY <1>1, <1>2 DEF Elements
  <2>3. Head(names) \in Elements(names)
    BY <1>1, <1>2 DEF Elements
  <2>4. QED
    BY <2>1, <2>2, <2>3
<1>5. ASSUME NEW i \in 1..Len(t), NEW j \in 1..Len(t), i < j PROVE t[i] < t[j]
  <2>1. i + 1 < j + 1
    BY <1>5
  <2>2. names[i + 1] < names[j + 1]
    BY <1>2, <2>1
  <2>3. QED
    BY <1>1, <2>2
<1>6. ASSUME NEW m \in Elements(t) PROVE Head(names) < m
  <2>1. PICK i \in 1..Len(t) : m = t[i]
    BY <1>6 DEF Elements
  <2>2. 1 < i + 1
    OBVIOUS
  <2>3. names[1] < names[i + 1]
    BY <1>2, <2>2
  <2>4. QED
    BY <1>1, <2>1, <2>3
<1>7. QED
  BY <1>1, <1>4, <1>5, <1>6

\* The file that is read in comes after all that are.
LEMMA DeserializeLog ==
    ASSUME TypeInv, LogInv, NEW g \in Programs, Deserialize(g)
    PROVE  LogInv'
<1>1. UNCHANGED <<indexFiles, hashFiles, written, clock>>
      /\ program[g].pc = "read" /\ program[g].toRead # <<>>
  BY DEF Deserialize, disk, environment, At
<1>2. PICK n : n = Head(program[g].toRead)
  OBVIOUS
<1>3. CASE ~Intact(n)
  <2>1. End(g, "failure")
    BY <1>2, <1>3 DEF Deserialize
  <2>2. QED
    BY <1>1, <2>1, QuietEnd
<1>4. CASE Intact(n)
  <2>1. PICK s : s = [name |-> n, nodes |-> indexFiles[n]]
    OBVIOUS
  <2>2. s \in Snapshot /\ n \in DOMAIN indexFiles /\ s.name = n /\ s.nodes = indexFiles[n]
    BY <1>4, <2>1, IntactIs
  <2>3. program[g] \in Program /\ Loaded(g) /\ ToRead(g) /\ Knows(g) /\ Serialised
    BY DEF TypeInv, LogInv
  <2>4. PICK loaded \in Seq(Snapshot) : loaded = program[g].loaded
    BY <2>3 DEF Program
  <2>5. PICK names \in Seq(Names) : names = program[g].toRead
    BY <2>3 DEF Program
  <2>6. PICK l : l = Append(loaded, s)
    OBVIOUS
  <2>7. PICK t : t = Tail(names)
    OBVIOUS
  <2>8. PICK r : r = [program[g] EXCEPT !.toRead = t, !.loaded = l]
    OBVIOUS
  <2>9. /\ r.pc = "read" /\ r.toRead = t /\ r.loaded = l /\ r.command = program[g].command
    BY <1>1, <2>3, <2>8 DEF Program
  <2>10. program' = [program EXCEPT ![g] = r] /\ program'[g] = r
    BY <1>2, <1>4, <2>1, <2>4, <2>5, <2>6, <2>7, <2>8 DEF Deserialize, TypeInv
  <2>11. /\ l \in Seq(Snapshot) /\ Len(l) = Len(loaded) + 1
         /\ \A j \in 1..Len(loaded) : l[j] = loaded[j]
         /\ l[Len(loaded) + 1] = s
         /\ \A j \in 1..Len(l) : j = Len(loaded) + 1 \/ j \in 1..Len(loaded)
         /\ NamesOf(l) = NamesOf(loaded) \cup {n}
    <3>1. loaded \in Seq(Snapshot) /\ s \in Snapshot /\ s.name = n
      BY <2>2
    <3>2. NamesOf(l) = NamesOf(loaded) \cup {s.name}
      BY ONLY <2>6, <3>1, AppendIs
    <3>3. QED
      BY <2>6, <3>1, <3>2
  <2>12. /\ \A i, j \in 1..Len(names) : i < j => names[i] < names[j]
         /\ Elements(names) \subseteq DOMAIN indexFiles
         /\ \A o \in NamesOf(loaded), m \in Elements(names) : o < m
         /\ \A m \in Elements(names), x \in DOMAIN indexFiles :
                x < m => x \in NamesOf(loaded) \cup Elements(names)
    BY <1>1, <2>3, <2>4, <2>5 DEF ToRead
  <2>13. names # <<>>
    BY <1>1, <2>5
  <2>14. /\ n \in Names
         /\ Elements(names) = Elements(t) \cup {n}
         /\ \A i, j \in 1..Len(t) : i < j => t[i] < t[j]
         /\ \A m \in Elements(t) : n < m
    <3>1. \A i, j \in 1..Len(names) : i < j => names[i] < names[j]
      BY <2>12
    <3>2. n = Head(names)
      BY <1>2, <2>5
    <3>3. QED
      BY ONLY <2>7, <2>13, <3>1, <3>2, TailIs
  <2>15. \A x \in DOMAIN indexFiles : x \in Names
    BY DEF TypeInv, Disk
  <2>16. \A x \in DOMAIN indexFiles : x < n => x \in NamesOf(loaded)
    <3> SUFFICES ASSUME NEW x \in DOMAIN indexFiles, x < n PROVE x \in NamesOf(loaded)
      OBVIOUS
    <3>1. x \in NamesOf(loaded) \cup Elements(t)
      <4>1. x \in Nat /\ n \in Nat
        BY <2>14, <2>15 DEF Names
      <4>2. x # n
        BY <4>1
      <4>3. n \in Elements(names)
        BY <2>14
      <4>4. x \in NamesOf(loaded) \cup Elements(names)
        BY <2>12, <4>3
      <4>5. QED
        BY <2>14, <4>2, <4>4
    <3>2. x \notin Elements(t)
      <4>1. x \in Nat /\ n \in Nat
        BY <2>14, <2>15 DEF Names
      <4>2. ~(n < x)
        BY <4>1
      <4>3. QED
        BY <2>14, <4>2
    <3>3. QED
      BY <3>1, <3>2
  <2>17. n \in DOMAIN written /\ indexFiles[n] = written[n].nodes
    BY <1>4, <2>2, <2>3 DEF Serialised
  <2>18. Loaded(g)'
    <3>1. ASSUME NEW i \in 1..Len(l), NEW j \in 1..Len(l), i < j PROVE l[i].name < l[j].name
      <4>1. i \in 1..Len(loaded)
        BY <2>11, <3>1
      <4>2. l[i] = loaded[i] /\ l[i].name \in NamesOf(loaded)
        BY <2>11, <4>1 DEF NamesOf
      <4>3. CASE j = Len(loaded) + 1
        BY <2>2, <2>11, <2>12, <2>14, <4>2, <4>3
      <4>4. CASE j \in 1..Len(loaded)
        BY <2>3, <2>4, <2>11, <3>1, <4>1, <4>2, <4>4 DEF Loaded
      <4>5. QED
        BY <2>11, <4>3, <4>4
    <3>2. \A j \in 1..Len(l) : l[j].name \in DOMAIN written /\ l[j].nodes = written[l[j].name].nodes
      BY <2>2, <2>3, <2>4, <2>11, <2>17 DEF Loaded
    <3>3. \A m \in NamesOf(l), x \in DOMAIN indexFiles : x < m => x \in NamesOf(l)
      BY <2>3, <2>4, <2>11, <2>16 DEF Loaded
    <3>4. QED
      BY <1>1, <2>9, <2>10, <3>1, <3>2, <3>3 DEF Loaded
  <2>19. ToRead(g)'
    <3>1. Elements(t) \subseteq DOMAIN indexFiles
      BY <2>12, <2>14
    <3>2. \A o \in NamesOf(l), m \in Elements(t) : o < m
      BY <2>11, <2>12, <2>14
    <3>3. \A m \in Elements(t), x \in DOMAIN indexFiles : x < m => x \in NamesOf(l) \cup Elements(t)
      BY <2>11, <2>12, <2>14
    <3>4. QED
      BY <1>1, <2>9, <2>10, <2>14, <3>1, <3>2, <3>3 DEF ToRead
  <2>20. Knows(g)'
    <3>1. Adds(g)' <=> Adds(g)
      BY <2>9, <2>10 DEF Adds
    <3>2. Adds(g) => DOMAIN indexFiles \subseteq NamesOf(l) \cup Elements(t)
      BY <1>1, <2>3, <2>4, <2>5, <2>11, <2>14 DEF Knows
    <3>3. QED
      BY <1>1, <2>9, <2>10, <3>1, <3>2 DEF Knows, Unserialised, IndexCreated, NamedPhases
  <2>21. QED
    BY <1>1, <2>10, <2>18, <2>19, <2>20, QuietStep
<1>5. QED
  BY <1>3, <1>4

\* The other steps that write neither an index nor a hash file.
LEMMA UnwrittenLog ==
    ASSUME TypeInv, LogInv, NEW g \in Programs,
           \/ SnapshotsAreRead(g) \/ AllPiped(g) \/ ProtectData(g) \/ UnprotectIndex(g)
           \/ ProtectFiles(g) \/ ProtectIndex(g) \/ Check(g)
           \/ \E i \in Names : Verify(g, i)
    PROVE  LogInv'
<1>1. UNCHANGED <<indexFiles, hashFiles, written, clock>>
  BY DEF SnapshotsAreRead, AllPiped, ProtectData, UnprotectIndex, ProtectFiles, ProtectIndex,
     Check, Verify, disk, environment
<1>2. \/ \E result : End(g, result)
      \/ \E x \in {"list", "check", "verify"} : Continue(g, x)
      \/ Continue(g, "index") /\ program[g].pc = "read" /\ program[g].toRead = <<>>
      \/ \E x \in {"protectData", "unprotectIndex", "createIndex"} :
            Continue(g, x) /\ program[g].pc \in Unserialised \ {"index"}
      \/ Continue(g, "protectIndex") /\ program[g].pc = "protectFiles"
  BY DEF SnapshotsAreRead, AllPiped, ProtectData, UnprotectIndex, ProtectFiles, ProtectIndex,
     Check, Verify, At, Unserialised
<1>3. ASSUME NEW x \in {"list", "check", "verify"}, Continue(g, x) PROVE LogInv'
  <2>1. x \in Phases \ {"read"}
    BY DEF Phases
  <2>2. QED
    BY <1>1, <1>3, <2>1, QuietContinue
<1>4. ASSUME NEW x \in {"protectData", "unprotectIndex", "createIndex"}, Continue(g, x),
             program[g].pc \in Unserialised \ {"index"}
      PROVE  LogInv'
  <2>1. x \in Phases \ {"read"} /\ x \in Unserialised \ {"index"}
    BY DEF Phases, Unserialised
  <2>2. QED
    BY <1>1, <1>4, <2>1, QuietContinue
<1>5. CASE Continue(g, "index") /\ program[g].pc = "read" /\ program[g].toRead = <<>>
  BY <1>1, <1>5, QuietContinue DEF Phases
<1>6. CASE Continue(g, "protectIndex") /\ program[g].pc = "protectFiles"
  BY <1>1, <1>6, QuietContinue DEF Phases
<1>7. QED
  BY <1>1, <1>2, <1>3, <1>4, <1>5, <1>6, QuietEnd

\* Whoever names a snapshot knows all index files.
LEMMA BeginSnapshotLog ==
    ASSUME TypeInv, LogInv, NEW g \in Programs, BeginSnapshot(g)
    PROVE  LogInv'
<1>1. PICK different : different = Different(g)
  OBVIOUS
<1>2. PICK r : r = [program[g] EXCEPT !.listed = source, !.data = different,
                                      !.name = clock, !.pc = "pipe"]
  OBVIOUS
<1>3. program[g] \in Program /\ Loaded(g) /\ Knows(g) /\ Serialised /\ program[g].pc = "index"
      /\ clock \in Nat
  BY DEF TypeInv, LogInv, BeginSnapshot, At, Environs, Names
<1>4. /\ r.pc = "pipe" /\ r.name = clock /\ r.loaded = program[g].loaded
      /\ r.command = program[g].command
  BY <1>2, <1>3 DEF Program
<1>5. program' = [program EXCEPT ![g] = r] /\ program'[g] = r
      /\ UNCHANGED <<indexFiles, hashFiles, written, clock>>
  BY <1>1, <1>2 DEF BeginSnapshot, TypeInv, environment
<1>6. Loaded(g)' /\ ToRead(g)'
  BY <1>3, <1>4, <1>5 DEF Loaded, ToRead
<1>7. Adds(g)' <=> Adds(g)
  BY <1>4, <1>5 DEF Adds
<1>8. Knows(g)'
  BY <1>3, <1>4, <1>5, <1>7 DEF Knows, Serialised, Unserialised, IndexCreated
<1>9. QED
  BY <1>5, <1>6, <1>8, QuietStep

\* Piping a node changes no index.
LEMMA PipeNodeLog ==
    ASSUME TypeInv, LogInv, NEW g \in Programs, NEW p \in Paths, PipeNode(g, p)
    PROVE  LogInv'
<1>1. UNCHANGED <<indexFiles, hashFiles, written, clock>>
  BY DEF PipeNode, environment
<1>2. CASE ~CanStore(g)
  BY <1>1, <1>2, QuietEnd DEF PipeNode
<1>3. CASE CanStore(g)
  <2>1. PICK piped : piped = Extend(program[g].piped, p, source[p])
    OBVIOUS
  <2>2. PICK r : r = [program[g] EXCEPT !.piped = piped, !.createdDataDir = TRUE]
    OBVIOUS
  <2>3. program[g] \in Program /\ Loaded(g) /\ Knows(g) /\ program[g].pc = "pipe"
    BY DEF TypeInv, LogInv, PipeNode, At
  <2>4. /\ r.pc = "pipe" /\ r.name = program[g].name /\ r.loaded = program[g].loaded
        /\ r.command = program[g].command
    BY <2>2, <2>3 DEF Program
  <2>5. program' = [program EXCEPT ![g] = r] /\ program'[g] = r
    BY <1>3, <2>1, <2>2 DEF PipeNode, TypeInv
  <2>6. Loaded(g)' /\ ToRead(g)'
    BY <1>1, <2>3, <2>4, <2>5 DEF Loaded, ToRead
  <2>7. Adds(g)' <=> Adds(g)
    BY <2>4, <2>5 DEF Adds
  <2>8. Knows(g)'
    BY <1>1, <2>3, <2>4, <2>5, <2>7 DEF Knows, IndexCreated
  <2>9. QED
    BY <1>1, <2>5, <2>6, <2>8, QuietStep
<1>4. QED
  BY <1>2, <1>3

\* What an add-snapshot creates and writes comes after all that the other programs
\* have loaded and still read.
LEMMA OthersRead ==
    ASSUME OneAdds, IInv, TypeInv, LogInv, NEW g \in Programs, Adds(g),
           NEW x \in Phases \ {"read"}, Continue(g, x), NEW n \in Names,
           DOMAIN indexFiles \subseteq DOMAIN indexFiles',
           DOMAIN indexFiles' \subseteq DOMAIN indexFiles \cup {n},
           \A m \in DOMAIN indexFiles : m <= n,
           DOMAIN written \subseteq DOMAIN written',
           \A m \in DOMAIN written : written'[m] = written[m]
    PROVE  /\ \A h \in Programs : Loaded(h)' /\ ToRead(h)'
           /\ \A h \in Programs \ {g} : Knows(h)'
           /\ program'[g].pc = x /\ program'[g].name = program[g].name
           /\ program'[g].loaded = program[g].loaded
           /\ (Adds(g)' <=> Adds(g)) /\ NewIndex(g)' = NewIndex(g)
<1>1. PICK r : r = [program[g] EXCEPT !.pc = x]
  OBVIOUS
<1>2. program[g] \in Program
  BY DEF TypeInv
<1>3. program' = [program EXCEPT ![g] = r] /\ program'[g] = r
      /\ \A h \in Programs \ {g} : program'[h] = program[h]
  BY <1>1 DEF Continue, TypeInv
<1>4. /\ r.pc = x /\ r.name = program[g].name /\ r.loaded = program[g].loaded
      /\ r.command = program[g].command /\ r.listed = program[g].listed
      /\ r.data = program[g].data /\ r.piped = program[g].piped
  BY <1>1, <1>2 DEF Program
<1>5. (Adds(g)' <=> Adds(g)) /\ NewIndex(g)' = NewIndex(g)
  BY <1>3, <1>4 DEF Adds, NewIndex, LastOf
<1>6. ASSUME NEW h \in Programs \ {g} PROVE Knows(h)'
  <2>1. ~Adds(h)
    BY DEF IInv, OneAdds
  <2>2. ~Adds(h)'
    BY <1>3, <2>1 DEF Adds
  <2>3. QED
    BY <2>2 DEF Knows
<1>7. /\ \A m \in DOMAIN indexFiles : m \in Names
      /\ DOMAIN written \subseteq DOMAIN indexFiles
      /\ n \in Nat /\ Names \subseteq Nat
  BY DEF TypeInv, Disk, LogInv, Serialised, Names
<1>8. ASSUME NEW m \in DOMAIN indexFiles, NEW y \in DOMAIN indexFiles', y < m
      PROVE  y \in DOMAIN indexFiles
  <2>1. SUFFICES ASSUME y = n PROVE FALSE
    OBVIOUS
  <2>2. m <= n /\ m \in Nat
    BY <1>7
  <2>3. QED
    BY <1>7, <1>8, <2>1, <2>2
<1>9. ASSUME NEW h \in Programs PROVE Loaded(h)'
  <2>1. Loaded(h) /\ program'[h].loaded = program[h].loaded
    BY <1>3, <1>4 DEF LogInv
  <2>2. PICK loaded : loaded = program[h].loaded
    OBVIOUS
  <2>3. NamesOf(loaded) \subseteq DOMAIN indexFiles
    BY <1>7, <2>1, <2>2 DEF Loaded, NamesOf
  <2>4. \A m \in NamesOf(loaded), y \in DOMAIN indexFiles' : y < m => y \in NamesOf(loaded)
    <3>1. \A m \in NamesOf(loaded), y \in DOMAIN indexFiles : y < m => y \in NamesOf(loaded)
      BY <2>1, <2>2 DEF Loaded
    <3>2. QED
      BY <1>8, <2>3, <3>1
  <2>5. /\ \A i, j \in 1..Len(loaded) : i < j => loaded[i].name < loaded[j].name
        /\ \A j \in 1..Len(loaded) :
            /\ loaded[j].name \in DOMAIN written'
            /\ loaded[j].nodes = written'[loaded[j].name].nodes
    BY <2>1, <2>2 DEF Loaded
  <2>6. QED
    BY <2>1, <2>2, <2>4, <2>5 DEF Loaded
<1>10. ASSUME NEW h \in Programs PROVE ToRead(h)'
  <2>1. CASE h = g
    BY <1>3, <1>4, <2>1 DEF ToRead
  <2>2. CASE h # g
    <3>1. ToRead(h) /\ program'[h] = program[h]
      BY <1>3, <2>2 DEF LogInv
    <3>2. PICK loaded : loaded = program[h].loaded
      OBVIOUS
    <3>3. PICK names : names = program[h].toRead
      OBVIOUS
    <3>4. SUFFICES ASSUME program[h].pc = "read" PROVE ToRead(h)'
      BY <3>1 DEF ToRead
    <3>5. /\ \A i, j \in 1..Len(names) : i < j => names[i] < names[j]
          /\ Elements(names) \subseteq DOMAIN indexFiles
          /\ \A o \in NamesOf(loaded), m \in Elements(names) : o < m
          /\ \A m \in Elements(names), y \in DOMAIN indexFiles :
                y < m => y \in NamesOf(loaded) \cup Elements(names)
      BY <3>1, <3>2, <3>3, <3>4 DEF ToRead
    <3>6. \A m \in Elements(names), y \in DOMAIN indexFiles' :
                y < m => y \in NamesOf(loaded) \cup Elements(names)
      BY <1>8, <3>5
    <3>7. Elements(names) \subseteq DOMAIN indexFiles'
      BY <3>5
    <3>8. QED
      BY <3>1, <3>2, <3>3, <3>5, <3>6, <3>7 DEF ToRead
  <2>3. QED
    BY <2>1, <2>2
<1>11. QED
  BY <1>3, <1>4, <1>5, <1>6, <1>9, <1>10

\* The phases of add-snapshot after the source is indexed.
LEMMA NamedAdds ==
    ASSUME IInv, TypeInv, LogInv, NEW g \in Programs, program[g].pc \in NamedPhases
    PROVE  /\ Adds(g) /\ Knows(g) /\ Loaded(g) /\ Adding(g) /\ Serialised
           /\ program[g].name \in Names /\ program[g].name \in Nat
           /\ \A n \in DOMAIN indexFiles :
                n \in Names /\ n \in Nat /\ n <= program[g].name /\ program[g].name <= clock
           /\ program[g].name <= clock
BY DEF IInv, TypeInv, LogInv, NamedPhases, Adding, Knows, Disk, Names

\* The new index file is the last one, and the program alone knows of it.
LEMMA CreateIndexLog ==
    ASSUME OneAdds, IInv, TypeInv, LogInv, NEW g \in Programs, CreateIndex(g)
    PROVE  LogInv'
<1>1. CASE ~CanCreate(indexFiles, program[g].name)
  BY <1>1, QuietEnd DEF CreateIndex, environment
<1>2. CASE CanCreate(indexFiles, program[g].name)
  <2>1. PICK n : n = program[g].name
    OBVIOUS
  <2>2. /\ Continue(g, "writeIndex") /\ program[g].pc = "createIndex"
        /\ UNCHANGED <<hashFiles, written, clock>>
        /\ indexFiles' = Extend(indexFiles, n, Empty)
        /\ n \notin DOMAIN indexFiles
    BY <1>2, <2>1 DEF CreateIndex, At, CanCreate, environment
  <2>3. /\ DOMAIN indexFiles' = DOMAIN indexFiles \cup {n} /\ indexFiles'[n] = Empty
        /\ \A m \in DOMAIN indexFiles : indexFiles'[m] = indexFiles[m]
    BY <2>2 DEF Extend
  <2>4. program[g].pc \in NamedPhases /\ program[g].pc \in Unserialised
        /\ "writeIndex" \in Phases \ {"read"}
    BY <2>2 DEF NamedPhases, Unserialised, Phases
  <2>5. /\ Adds(g) /\ Knows(g) /\ Loaded(g) /\ Serialised
        /\ n \in Names /\ n <= clock
        /\ \A m \in DOMAIN indexFiles : m <= n
    BY <2>1, <2>4, NamedAdds
  <2>6. /\ \A h \in Programs : Loaded(h)' /\ ToRead(h)'
        /\ \A h \in Programs \ {g} : Knows(h)'
        /\ program'[g].pc = "writeIndex" /\ program'[g].name = n
        /\ program'[g].loaded = program[g].loaded
        /\ (Adds(g)' <=> Adds(g)) /\ NewIndex(g)' = NewIndex(g)
    BY <2>1, <2>2, <2>3, <2>4, <2>5, OthersRead
  <2>7. /\ DOMAIN indexFiles \subseteq NamesOf(program[g].loaded)
        /\ NamesOf(program[g].loaded) \subseteq DOMAIN written
        /\ DOMAIN written \subseteq DOMAIN indexFiles
        /\ DOMAIN hashFiles \subseteq DOMAIN indexFiles
    BY <2>4, <2>5 DEF Knows, Loaded, NamesOf, Serialised, TypeInv, Disk
  <2>8. Knows(g)'
    <3>1. n \notin NamesOf(program[g].loaded) /\ n \notin DOMAIN written /\ n \notin DOMAIN hashFiles
      BY <2>2, <2>7
    <3>2. \A m \in DOMAIN indexFiles' : m <= n
      BY <2>3, <2>5 DEF Names
    <3>3. QED
      BY <2>2, <2>3, <2>5, <2>6, <2>7, <3>1, <3>2 DEF Knows, Unserialised
  <2>9. Serialised'
    <3>1. \A m \in DOMAIN indexFiles' : m <= clock
      BY <2>3, <2>5 DEF Serialised
    <3>2. \A m \in DOMAIN indexFiles' : Intact(m)' => m \in DOMAIN indexFiles /\ Intact(m)
      BY <2>2, <2>3 DEF Intact, Parsed
    <3>3. \A m \in DOMAIN written : Follows(m)' = Follows(m)
      BY <2>2 DEF Follows, Index, Node, Versions, Garbage
    <3>4. QED
      BY <2>2, <2>3, <2>5, <2>7, <3>1, <3>2, <3>3 DEF Serialised
  <2>10. QED
    BY <2>6, <2>8, <2>9 DEF LogInv
<1>3. QED
  BY <1>1, <1>2

\* The base of the new snapshot is the last one that was serialised.
LEMMA BaseIsLast ==
    ASSUME IInv, TypeInv, LogInv, NEW g \in Programs, program[g].pc = "writeIndex"
    PROVE  \/ /\ Base(g) = NoName /\ DOMAIN written = {}
              /\ \A p \in Paths : NewIndex(g)[p].owns
           \/ /\ Base(g) \in DOMAIN written /\ Base(g) < program[g].name
              /\ \A m \in DOMAIN written : m <= Base(g)
              /\ \A p \in Paths : NewIndex(g)[p].owns \/
                    NewIndex(g)[p].content = written[Base(g)].nodes[p].content
<1>1. PICK n : n = program[g].name
  OBVIOUS
<1>2. program[g].pc \in NamedPhases \ {"pipe"} /\ program[g].pc \in IndexCreated
  BY DEF NamedPhases, IndexCreated
<1>3. /\ Knows(g) /\ Loaded(g) /\ Adding(g) /\ Serialised /\ n \in Nat
      /\ \A m \in DOMAIN indexFiles : m \in Nat /\ m <= n
  BY <1>1, <1>2, NamedAdds
<1>4. Adds(g)
  BY <1>2, NamedAdds
<1>5. /\ DOMAIN indexFiles \subseteq NamesOf(program[g].loaded) \cup {n}
      /\ n \notin NamesOf(program[g].loaded) /\ n \notin DOMAIN written
      /\ DOMAIN written \subseteq DOMAIN indexFiles
  BY <1>1, <1>2, <1>3, <1>4 DEF Knows, Serialised
<1>6. DOMAIN written \subseteq NamesOf(program[g].loaded)
  BY <1>5
<1>7. PICK loaded \in Seq(Snapshot) : loaded = program[g].loaded
  BY DEF TypeInv, Program
<1>8. CASE loaded = <<>>
  <2>1. NamesOf(loaded) = {} /\ program[g].data = Paths /\ Base(g) = NoName
    BY <1>2, <1>3, <1>7, <1>8 DEF NamesOf, Adding, Base
  <2>2. OwnedBy(NewIndex(g)) = Paths
    BY <1>2, <2>1, NewIndexIs
  <2>3. QED
    BY <1>6, <1>7, <2>1, <2>2 DEF OwnedBy
<1>9. CASE loaded # <<>>
  <2>1. PICK k \in Nat : k = Len(loaded) /\ k >= 1
    BY <1>9
  <2>2. PICK last : last = loaded[k]
    OBVIOUS
  <2>3. LastOf(g) = last /\ Base(g) = last.name
    BY <1>7, <1>9, <2>1, <2>2 DEF LastOf, Base
  <2>4. k \in 1..Len(loaded)
    BY <2>1
  <2>5. /\ last.name \in DOMAIN written /\ last.nodes = written[last.name].nodes
        /\ \A j \in 1..Len(loaded) : j < k => loaded[j].name < last.name
    BY <1>3, <1>7, <2>2, <2>4 DEF Loaded
  <2>6. last.name \in Nat /\ last.name <= n /\ last.name # n
    BY <1>3, <1>5, <2>5
  <2>7. ASSUME NEW m \in DOMAIN written PROVE m <= last.name
    <3>1. PICK j \in 1..Len(loaded) : m = loaded[j].name
      BY <1>6, <1>7 DEF NamesOf
    <3>2. j = k \/ j < k
      BY <2>1
    <3>3. m \in Nat
      BY <1>3, <1>5
    <3>4. QED
      BY <2>2, <2>5, <2>6, <3>1, <3>2, <3>3
  <2>8. ASSUME NEW p \in Paths, ~NewIndex(g)[p].owns
        PROVE  NewIndex(g)[p].content = last.nodes[p].content
    BY <2>3, <2>8 DEF NewIndex
  <2>9. QED
    BY <1>1, <1>3, <2>3, <2>5, <2>6, <2>7, <2>8
<1>10. QED
  BY <1>8, <1>9

\* What is serialised follows the last snapshot that was.
LEMMA WriteIndexLog ==
    ASSUME OneAdds, IInv, TypeInv, LogInv, NEW g \in Programs, WriteIndex(g)
    PROVE  LogInv'
<1>1. PICK n : n = program[g].name
  OBVIOUS
<1>2. PICK new : new = NewIndex(g)
  OBVIOUS
<1>3. PICK base : base = Base(g)
  OBVIOUS
<1>4. PICK entry : entry = [base |-> base, nodes |-> new]
  OBVIOUS
<1>5. entry.base = base /\ entry.nodes = new
  BY <1>4
<1>6. /\ Continue(g, "createHash") /\ program[g].pc = "writeIndex"
      /\ UNCHANGED <<hashFiles, clock>>
      /\ indexFiles' = [indexFiles EXCEPT ![n] = new]
      /\ written' = Extend(written, n, entry)
  BY <1>1, <1>2, <1>3, <1>4 DEF WriteIndex, At, environment
<1>7. program[g].pc \in NamedPhases \ {"pipe"} /\ program[g].pc \in IndexCreated
      /\ "createHash" \in Phases \ {"read"}
  BY <1>6 DEF NamedPhases, IndexCreated, Phases
<1>8. /\ Adds(g) /\ Knows(g) /\ Loaded(g) /\ Serialised /\ Adding(g)
      /\ n \in Names /\ n \in Nat /\ n <= clock
      /\ \A m \in DOMAIN indexFiles : m <= n /\ m \in Nat
  BY <1>1, <1>7, NamedAdds
<1>9. /\ n \in DOMAIN indexFiles /\ n \notin DOMAIN written /\ n \notin DOMAIN hashFiles
      /\ DOMAIN written \subseteq DOMAIN indexFiles
      /\ DOMAIN indexFiles \subseteq NamesOf(program[g].loaded) \cup {n}
      /\ n \notin NamesOf(program[g].loaded)
  BY <1>1, <1>6, <1>7, <1>8 DEF Knows, Adding, Serialised
<1>10. /\ DOMAIN indexFiles' = DOMAIN indexFiles
       /\ \A m \in DOMAIN indexFiles : m # n => indexFiles'[m] = indexFiles[m]
  BY <1>6
<1>11. /\ DOMAIN written' = DOMAIN written \cup {n} /\ written'[n] = entry
       /\ \A m \in DOMAIN written : written'[m] = written[m]
  BY <1>6, <1>9 DEF Extend
<1>12. /\ \A h \in Programs : Loaded(h)' /\ ToRead(h)'
       /\ \A h \in Programs \ {g} : Knows(h)'
       /\ program'[g].pc = "createHash" /\ program'[g].name = n
       /\ program'[g].loaded = program[g].loaded
       /\ (Adds(g)' <=> Adds(g)) /\ NewIndex(g)' = new
  BY <1>1, <1>2, <1>6, <1>7, <1>8, <1>10, <1>11, OthersRead
<1>13. Knows(g)'
  BY <1>5, <1>6, <1>8, <1>9, <1>10, <1>11, <1>12 DEF Knows, Unserialised
<1>14. Follows(n)'
  <2>1. new \in Index
    BY <1>2, <1>7, NewIndexIs
  <2>2. written'[n].nodes \in Index'
    BY <1>5, <1>11, <2>1 DEF Index, Node, Versions, Garbage
  <2>3. CASE /\ base = NoName /\ DOMAIN written = {}
             /\ \A p \in Paths : new[p].owns
    BY <1>5, <1>8, <1>11, <2>2, <2>3 DEF Follows
  <2>4. CASE /\ base \in DOMAIN written /\ base < n
             /\ \A m \in DOMAIN written : m <= base
             /\ \A p \in Paths : new[p].owns \/ new[p].content = written[base].nodes[p].content
    <3>1. /\ base \in DOMAIN written' /\ base < n /\ written'[base] = written[base]
          /\ \A m \in DOMAIN written' : m < n => m <= base
      BY <1>8, <1>11, <2>4
    <3>2. QED
      BY <1>5, <1>11, <2>2, <2>4, <3>1 DEF Follows
  <2>5. QED
    BY <1>1, <1>2, <1>3, <1>6, <2>3, <2>4, BaseIsLast
<1>15. ASSUME NEW m \in DOMAIN written PROVE Follows(m)'
  <2>1. Follows(m) /\ written'[m] = written[m] /\ m \in Nat /\ m <= n
    BY <1>8, <1>9, <1>11 DEF Serialised
  <2>2. \A k \in DOMAIN written' : k < m => k \in DOMAIN written
    BY <1>8, <1>11, <2>1
  <2>3. written'[m].nodes \in Index'
    BY <2>1 DEF Follows, Index, Node, Versions, Garbage
  <2>4. CASE /\ written[m].base = NoName
             /\ \A k \in DOMAIN written : ~(k < m)
             /\ \A p \in Paths : written[m].nodes[p].owns
    BY <2>1, <2>2, <2>3, <2>4 DEF Follows
  <2>5. CASE /\ written[m].base \in DOMAIN written
             /\ written[m].base < m
             /\ \A k \in DOMAIN written : k < m => k <= written[m].base
             /\ \A p \in Paths :
                    written[m].nodes[p].owns \/ written[m].nodes[p].content
                                                = written[written[m].base].nodes[p].content
    <3>1. written'[written[m].base] = written[written[m].base]
          /\ written[m].base \in DOMAIN written'
      BY <1>11, <2>5
    <3>2. QED
      BY <2>1, <2>2, <2>3, <2>5, <3>1 DEF Follows
  <2>6. QED
    BY <2>1, <2>4, <2>5 DEF Follows
<1>16. Serialised'
  <2>1. \A m \in DOMAIN indexFiles' : Intact(m)' => m # n /\ Intact(m)
    BY <1>6, <1>9, <1>10 DEF Intact, Parsed
  <2>2. \A m \in DOMAIN written' : Follows(m)'
    BY <1>11, <1>14, <1>15
  <2>3. \A m \in DOMAIN indexFiles' :
            Intact(m)' => m \in DOMAIN written' /\ indexFiles'[m] = written'[m].nodes
    BY <1>8, <1>10, <1>11, <2>1 DEF Serialised
  <2>4. DOMAIN written' \subseteq DOMAIN indexFiles'
    BY <1>9, <1>10, <1>11
  <2>5. \A m \in DOMAIN indexFiles' : m <= clock'
    BY <1>6, <1>8, <1>10 DEF Serialised
  <2>6. QED
    BY <2>2, <2>3, <2>4, <2>5 DEF Serialised
<1>17. QED
  BY <1>12, <1>13, <1>16 DEF LogInv

\* An empty hash file completes nothing.
LEMMA CreateHashLog ==
    ASSUME OneAdds, IInv, TypeInv, LogInv, NEW g \in Programs, CreateHash(g)
    PROVE  LogInv'
<1>1. CASE ~CanCreate(hashFiles, program[g].name)
  BY <1>1, QuietEnd DEF CreateHash, environment
<1>2. CASE CanCreate(hashFiles, program[g].name)
  <2>1. PICK n : n = program[g].name
    OBVIOUS
  <2>2. /\ Continue(g, "writeHash") /\ program[g].pc = "createHash"
        /\ UNCHANGED <<indexFiles, written, clock>>
        /\ hashFiles' = Extend(hashFiles, n, Empty)
        /\ n \notin DOMAIN hashFiles
    BY <1>2, <2>1 DEF CreateHash, At, CanCreate, environment
  <2>3. /\ DOMAIN hashFiles' = DOMAIN hashFiles \cup {n} /\ hashFiles'[n] = Empty
        /\ \A m \in DOMAIN hashFiles : hashFiles'[m] = hashFiles[m]
    BY <2>2 DEF Extend
  <2>4. program[g].pc \in NamedPhases /\ program[g].pc \in IndexCreated
        /\ "writeHash" \in Phases \ {"read"}
    BY <2>2 DEF NamedPhases, IndexCreated, Phases
  <2>5. /\ Adds(g) /\ Knows(g) /\ Serialised
        /\ n \in Names /\ n <= clock
        /\ \A m \in DOMAIN indexFiles : m <= n
    BY <2>1, <2>4, NamedAdds
  <2>6. /\ \A h \in Programs : Loaded(h)' /\ ToRead(h)'
        /\ \A h \in Programs \ {g} : Knows(h)'
        /\ program'[g].pc = "writeHash" /\ program'[g].name = n
        /\ program'[g].loaded = program[g].loaded
        /\ (Adds(g)' <=> Adds(g)) /\ NewIndex(g)' = NewIndex(g)
    BY <2>1, <2>2, <2>4, <2>5, OthersRead
  <2>7. Knows(g)'
    BY <2>1, <2>2, <2>3, <2>4, <2>5, <2>6 DEF Knows, Unserialised
  <2>8. Serialised'
    <3>1. \A m \in DOMAIN indexFiles' : Intact(m)' => Intact(m)
      BY <2>2, <2>3 DEF Intact, Parsed
    <3>2. \A m \in DOMAIN written : Follows(m)' = Follows(m)
      BY <2>2 DEF Follows, Index, Node, Versions, Garbage
    <3>3. QED
      BY <2>2, <2>5, <3>1, <3>2 DEF Serialised
  <2>9. QED
    BY <2>6, <2>7, <2>8 DEF LogInv
<1>3. QED
  BY <1>1, <1>2

\* The hash file completes what was serialised.
LEMMA WriteHashLog ==
    ASSUME OneAdds, IInv, TypeInv, LogInv, NEW g \in Programs, WriteHash(g)
    PROVE  LogInv'
<1>1. PICK n : n = program[g].name
  OBVIOUS
<1>2. PICK new : new = NewIndex(g)
  OBVIOUS
<1>3. /\ Continue(g, "protectFiles") /\ program[g].pc = "writeHash"
      /\ UNCHANGED <<indexFiles, written, clock>>
      /\ hashFiles' = [hashFiles EXCEPT ![n] = new]
  BY <1>1, <1>2 DEF WriteHash, At, environment
<1>4. program[g].pc \in NamedPhases /\ program[g].pc \in IndexCreated
      /\ program[g].pc \in HashCreated /\ "protectFiles" \in Phases \ {"read"}
  BY <1>3 DEF NamedPhases, IndexCreated, HashCreated, Phases
<1>5. /\ Adds(g) /\ Knows(g) /\ Serialised /\ Adding(g)
      /\ n \in Names /\ n <= clock
      /\ \A m \in DOMAIN indexFiles : m <= n
  BY <1>1, <1>4, NamedAdds
<1>6. n \in DOMAIN hashFiles
  BY <1>1, <1>4, <1>5 DEF Adding
<1>7. /\ DOMAIN hashFiles' = DOMAIN hashFiles /\ hashFiles'[n] = new
      /\ \A m \in DOMAIN hashFiles : m # n => hashFiles'[m] = hashFiles[m]
  BY <1>3, <1>6
<1>8. /\ \A h \in Programs : Loaded(h)' /\ ToRead(h)'
      /\ \A h \in Programs \ {g} : Knows(h)'
      /\ program'[g].pc = "protectFiles" /\ program'[g].name = n
      /\ program'[g].loaded = program[g].loaded
      /\ (Adds(g)' <=> Adds(g))
  BY <1>1, <1>3, <1>4, <1>5, OthersRead
<1>9. Knows(g)'
  BY <1>1, <1>3, <1>4, <1>5, <1>8 DEF Knows, Unserialised
<1>10. n \in DOMAIN written /\ new = written[n].nodes
  BY <1>1, <1>2, <1>3, <1>5 DEF Knows
<1>11. Serialised'
  <2>1. \A m \in DOMAIN indexFiles' :
            Intact(m)' => m \in DOMAIN written /\ indexFiles[m] = written[m].nodes
    <3>1. ASSUME NEW m \in DOMAIN indexFiles', Intact(m)'
          PROVE  m \in DOMAIN written /\ indexFiles[m] = written[m].nodes
      <4>1. CASE m = n
        BY <1>3, <1>7, <1>10, <3>1, <4>1 DEF Intact
      <4>2. CASE m # n
        BY <1>3, <1>5, <1>7, <3>1, <4>2 DEF Intact, Parsed, Serialised
      <4>3. QED
        BY <4>1, <4>2
    <3>2. QED
      BY <3>1
  <2>2. \A m \in DOMAIN written : Follows(m)' = Follows(m)
    BY <1>3 DEF Follows, Index, Node, Versions, Garbage
  <2>3. QED
    BY <1>3, <1>5, <2>1, <2>2 DEF Serialised
<1>12. QED
  BY <1>8, <1>9, <1>11 DEF LogInv

\* A step of no program, after which the same files are there and what can be read in
\* is what it was.
LEMMA EnvironmentLog ==
    ASSUME TypeInv, LogInv, UNCHANGED <<program, written>>, clock <= clock', clock' \in Nat,
           DOMAIN indexFiles' = DOMAIN indexFiles, DOMAIN hashFiles' = DOMAIN hashFiles,
           \A n \in DOMAIN indexFiles : Intact(n)' => Intact(n) /\ indexFiles'[n] = indexFiles[n],
           \A n \in DOMAIN hashFiles : hashFiles[n] = Empty => hashFiles'[n] = Empty
    PROVE  LogInv'
<1>1. /\ \A n \in DOMAIN indexFiles : n \in Nat
      /\ clock \in Nat /\ Serialised
      /\ DOMAIN hashFiles \subseteq DOMAIN indexFiles
  BY DEF TypeInv, Disk, Environs, Names, LogInv
<1>2. ASSUME NEW h \in Programs PROVE Loaded(h)' /\ ToRead(h)' /\ Knows(h)'
  <2>1. program'[h] = program[h] /\ Loaded(h) /\ ToRead(h) /\ Knows(h) /\ Adding(h)
    BY DEF LogInv, TypeInv
  <2>2. Loaded(h)'
    BY <2>1 DEF Loaded
  <2>3. ToRead(h)'
    BY <2>1 DEF ToRead
  <2>4. NewIndex(h)' = NewIndex(h) /\ (Adds(h)' <=> Adds(h))
    BY <2>1 DEF NewIndex, LastOf, Adds
  <2>5. program[h].pc \in NamedPhases => program[h].name \in Nat
    BY <2>1 DEF Adding, Names
  <2>6. program[h].pc \in NamedPhases /\ program[h].name <= clock => program[h].name <= clock'
    BY <1>1, <2>5
  <2>7. program[h].pc = "writeHash" => program[h].name \in DOMAIN hashFiles
    BY <2>1 DEF Adding, HashCreated, NamedPhases
  <2>8. Knows(h)'
    BY <2>1, <2>4, <2>6, <2>7 DEF Knows
  <2>9. QED
    BY <2>2, <2>3, <2>8
<1>3. Serialised'
  <2>1. \A n \in DOMAIN indexFiles : n <= clock'
    BY <1>1 DEF Serialised
  <2>2. \A m \in DOMAIN written : Follows(m)' = Follows(m)
    BY DEF Follows, Index, Node, Versions, Garbage
  <2>3. QED
    BY <1>1, <2>1, <2>2 DEF Serialised
<1>4. QED
  BY <1>2, <1>3 DEF LogInv

\* What rots is no longer read in.
LEMMA CorruptLog ==
    ASSUME TypeInv, LogInv, NEW n, Corrupt(n)
    PROVE  LogInv'
<1>1. /\ Intact(n) /\ UNCHANGED <<clock, program, written>> /\ clock \in Nat
  BY DEF Corrupt, TypeInv, Environs, Names
<1>2. n \in DOMAIN indexFiles /\ n \in DOMAIN hashFiles
  BY <1>1, IntactIs
<1>3. indexFiles[n] = hashFiles[n] /\ hashFiles[n] # Empty
  BY <1>1 DEF Intact, Parsed
<1>4. CASE UNCHANGED <<indexFiles, hashFiles>>
  BY <1>1, <1>4, EnvironmentLog DEF Intact, Parsed
<1>5. CASE indexFiles' = [indexFiles EXCEPT ![n] = Rotten(@)] /\ UNCHANGED hashFiles
  <2>1. /\ DOMAIN indexFiles' = DOMAIN indexFiles
        /\ \A m \in DOMAIN indexFiles : m # n => indexFiles'[m] = indexFiles[m]
    BY <1>2, <1>5
  <2>2. \A m \in DOMAIN indexFiles : Intact(m)' => Intact(m) /\ indexFiles'[m] = indexFiles[m]
    BY <1>1, <1>3, <1>5, <2>1 DEF Intact, Parsed
  <2>3. QED
    BY <1>1, <1>5, <2>1, <2>2, EnvironmentLog
<1>6. CASE hashFiles' = [hashFiles EXCEPT ![n] = Rotten(@)] /\ UNCHANGED indexFiles
  <2>1. /\ DOMAIN hashFiles' = DOMAIN hashFiles
        /\ \A m \in DOMAIN hashFiles : m # n => hashFiles'[m] = hashFiles[m]
    BY <1>2, <1>6
  <2>2. \A m \in DOMAIN indexFiles : Intact(m)' => Intact(m) /\ indexFiles'[m] = indexFiles[m]
    BY <1>1, <1>6, <2>1 DEF Intact, Parsed
  <2>3. QED
    BY <1>1, <1>3, <1>6, <2>1, <2>2, EnvironmentLog
<1>7. QED
  BY <1>4, <1>5, <1>6 DEF Corrupt

\* Every step keeps what is read in in order.
LEMMA NextLogInv == OneAdds /\ IInv /\ TypeInv /\ LogInv /\ [Next]_vars => LogInv'
<1> SUFFICES ASSUME OneAdds, IInv, TypeInv, LogInv, [Next]_vars PROVE LogInv'
  OBVIOUS
<1>1. ASSUME NEW g \in Programs, ReadInSnapshots(g) PROVE LogInv'
  BY <1>1, ListLog, DeserializeLog, UnwrittenLog DEF ReadInSnapshots
<1>2. ASSUME NEW g \in Programs, AddSnapshot(g) PROVE LogInv'
  BY <1>2, BeginSnapshotLog, PipeNodeLog, UnwrittenLog, CreateIndexLog,
     WriteIndexLog, CreateHashLog, WriteHashLog DEF AddSnapshot
<1>3. ASSUME NEW g \in Programs, Step(g) PROVE LogInv'
  BY <1>1, <1>2, <1>3, StartLog, UnwrittenLog DEF Step
<1>4. ASSUME NEW g \in Programs, Kill(g) PROVE LogInv'
  BY <1>4, QuietEnd DEF Kill, disk
<1>5. ASSUME UNCHANGED <<program, written, indexFiles, hashFiles>>,
             clock' = clock \/ clock' = clock + 1
      PROVE  LogInv'
  <2>1. clock \in Nat
    BY DEF TypeInv, Environs, Names
  <2>2. clock <= clock' /\ clock' \in Nat
    BY <1>5, <2>1
  <2>3. QED
    BY <1>5, <2>2, EnvironmentLog DEF Intact, Parsed
<1>6. ASSUME NEW p \in Paths, Edit(p) PROVE LogInv'
  BY <1>5, <1>6 DEF Edit, disk
<1>7. CASE Tick
  BY <1>5, <1>7 DEF Tick, disk
<1>8. ASSUME NEW n, Corrupt(n) PROVE LogInv'
  BY <1>8, CorruptLog
<1>9. CASE UNCHANGED vars
  BY <1>5, <1>9 DEF vars, disk, environment
<1>10. QED
  BY <1>3, <1>4, <1>6, <1>7, <1>8, <1>9 DEF Next, Environment

\* All three invariants hold always.
LEMMA LogAlways ==
    ASSUME OneAdds
    PROVE  Spec => [](IInv /\ TypeInv /\ LogInv)
<1>1. Init => IInv /\ TypeInv /\ LogInv
  BY InitIInv, InitTypeInv, InitLogInv
<1>2. IInv /\ TypeInv /\ LogInv /\ [Next]_vars => (IInv /\ TypeInv /\ LogInv)'
  BY NextIInv, NextTypeInv, NextLogInv
<1>3. QED
  BY <1>1, <1>2, PTL DEF Spec

\* What a program has loaded begins the sequence of what was serialised.
LEMMA LoadedIsPrefix ==
    ASSUME TypeInv, LogInv, NEW g \in Programs
    PROVE  /\ Written \in Seq(Snapshot)
           /\ Len(program[g].loaded) <= Len(Written)
           /\ \A i \in 1..Len(program[g].loaded) : program[g].loaded[i] = Written[i]
<1>1. PICK S : S = DOMAIN written
  OBVIOUS
<1>2. S \subseteq DOMAIN indexFiles /\ Loaded(g) /\ Serialised
  BY <1>1 DEF LogInv, Serialised
<1>3. S \in SUBSET Names /\ S \in SUBSET Nat
  BY <1>2 DEF TypeInv, Disk, Names
<1>4. PICK names : names = Ascending(S)
  OBVIOUS
<1>5. /\ names \in [1..Len(names) -> S] /\ Increasing(names) /\ Len(names) \in Nat
      /\ \A x \in S : \E i \in 1..Len(names) : names[i] = x
      /\ DOMAIN names = 1..Len(names)
  BY <1>3, <1>4, AscendingIs
<1>6. PICK m \in Nat : m = Len(names)
  BY <1>5
<1>7. PICK loaded \in Seq(Snapshot) : loaded = program[g].loaded
  BY DEF TypeInv, Program
<1>8. PICK k \in Nat : k = Len(loaded)
  OBVIOUS
<1>9. PICK s : s = [i \in 1..k |-> loaded[i].name]
  OBVIOUS
<1>10. \A i \in 1..k : loaded[i].name \in S /\ loaded[i].nodes = written[loaded[i].name].nodes
  BY <1>1, <1>2, <1>7, <1>8 DEF Loaded
<1>11. s \in [1..k -> S] /\ \A i \in 1..k : s[i] = loaded[i].name
  BY <1>9, <1>10
<1>12. Increasing(s)
  BY <1>2, <1>7, <1>8, <1>11 DEF Increasing, Loaded
<1>13. \A x \in S, i \in 1..k : x < s[i] => \E j \in 1..k : s[j] = x
  <2>1. ASSUME NEW x \in S, NEW i \in 1..k, x < s[i] PROVE \E j \in 1..k : s[j] = x
    <3>1. s[i] \in NamesOf(loaded) /\ x \in DOMAIN indexFiles
      BY <1>2, <1>8, <1>11 DEF NamesOf
    <3>2. x \in NamesOf(loaded)
      BY <1>2, <1>7, <2>1, <3>1 DEF Loaded
    <3>3. QED
      BY <1>8, <1>11, <3>2 DEF NamesOf
  <2>2. QED
    BY <2>1
<1>14. names \in [1..m -> S] /\ \A x \in S : \E i \in 1..m : names[i] = x
  BY <1>5, <1>6
<1>15. k <= m /\ \A i \in 1..k : s[i] = names[i]
  <2>1. LeavesNoneOut(s, k, S)
    BY <1>11, <1>12, <1>13 DEF LeavesNoneOut
  <2>2. HasAll(names, m, S)
    BY <1>5, <1>14 DEF HasAll
  <2>3. S \in SUBSET Nat /\ k \in Nat /\ m \in Nat
    BY <1>3
  <2>4. QED
    BY ONLY <2>1, <2>2, <2>3, IncreasingBegins
<1>16. PICK w : w = Written
  OBVIOUS
<1>17. w = [i \in 1..m |-> [name |-> names[i], nodes |-> written[names[i]].nodes]]
  BY <1>1, <1>4, <1>5, <1>6, <1>16 DEF Written
<1>18. \A i \in 1..m : [name |-> names[i], nodes |-> written[names[i]].nodes] \in Snapshot
  BY <1>1, <1>2, <1>3, <1>14 DEF Serialised, Follows, Snapshot
<1>19. w \in [1..m -> Snapshot] /\ \A i \in 1..m : w[i].name = names[i] /\ w[i].nodes = written[names[i]].nodes
  BY <1>17, <1>18
<1>20. w \in Seq(Snapshot) /\ Len(w) = m
  BY <1>19
<1>21. ASSUME NEW i \in 1..k PROVE loaded[i] = w[i]
  <2>1. i \in 1..m /\ loaded[i] \in Snapshot /\ w[i] \in Snapshot
    BY <1>8, <1>15, <1>19
  <2>2. loaded[i].name = w[i].name /\ loaded[i].nodes = w[i].nodes
    BY <1>10, <1>11, <1>15, <1>19, <2>1
  <2>3. QED
    BY <2>1, <2>2 DEF Snapshot
<1>22. QED
  BY <1>7, <1>8, <1>15, <1>16, <1>20, <1>21

\* For any number of programs that verify while one adds snapshots and is killed, and
\* however many files rot: what each of them works with are the first snapshots that were
\* serialised, without a gap, as they were serialised (SnapshotManager::ReadInSnapshots).
THEOREM ReadersReadALog == OneAdds => (Spec => []ReadersSeeALog)
<1> SUFFICES ASSUME OneAdds PROVE Spec => []ReadersSeeALog
  OBVIOUS
<1>1. TypeInv /\ LogInv => ReadersSeeALog
  <2> SUFFICES ASSUME TypeInv, LogInv, NEW g \in Programs
               PROVE  IsPrefix(program[g].loaded, Written)
    BY DEF ReadersSeeALog
  <2>1. PICK loaded \in Seq(Snapshot) : loaded = program[g].loaded
    BY DEF TypeInv, Program
  <2>2. PICK w : w = Written
    OBVIOUS
  <2>3. w \in Seq(Snapshot) /\ Len(loaded) <= Len(w) /\ \A i \in 1..Len(loaded) : loaded[i] = w[i]
    BY <2>1, <2>2, LoadedIsPrefix
  <2>4. SubSeq(loaded, 1, Len(loaded)) = SubSeq(w, 1, Len(loaded))
    BY <2>3
  <2>5. QED
    BY <2>1, <2>2, <2>3, <2>4 DEF IsPrefix
<1>2. QED
  BY <1>1, LogAlways, PTL

-----------------------------------------------------------------------------
(* What is verified can be restored. *)

\* The previous snapshots that are followed up to the i-th one.
Resolves(f, loaded, i, p) ==
    f = [j \in 0..i |-> IF j = 0 \/ loaded[j].nodes[p].owns THEN j ELSE f[j - 1]]

\* Of 0 and the snapshots up to the j-th that own the node, the last one.
IsLastOwner(k, loaded, j, p) ==
    /\ k \in 0..j
    /\ k = 0 \/ loaded[k].nodes[p].owns
    /\ \A l \in 1..j : k < l => ~loaded[l].nodes[p].owns

\* There is a last owner.
LEMMA LastOwnerExists ==
    ASSUME NEW loaded, NEW p, NEW j \in Nat
    PROVE  \E k : IsLastOwner(k, loaded, j, p)
<1> DEFINE S == {k \in 0..j : k = 0 \/ loaded[k].nodes[p].owns}
<1>1. S \in SUBSET Nat /\ S # {} /\ \A k \in S : k <= j
  <2>1. 0 \in S
    OBVIOUS
  <2>2. QED
    BY <2>1
<1>2. PICK k \in S : \A l \in S : l <= k
  <2>. HIDE DEF S
  <2>1. QED
    BY <1>1, GreatestNumber
<1>3. \A l \in 1..j : k < l => ~loaded[l].nodes[p].owns
  <2> SUFFICES ASSUME NEW l \in 1..j, k < l, loaded[l].nodes[p].owns PROVE FALSE
    OBVIOUS
  <2>1. l \in S
    OBVIOUS
  <2>2. l <= k /\ k \in Nat /\ l \in Nat
    BY <1>2, <2>1
  <2>3. QED
    BY <2>2
<1>4. IsLastOwner(k, loaded, j, p)
  BY <1>3 DEF IsLastOwner
<1>5. QED
  BY <1>4

\* There is only one.
LEMMA LastOwnerIsOne ==
    ASSUME NEW loaded, NEW p, NEW j \in Nat,
           NEW k, IsLastOwner(k, loaded, j, p), NEW l, IsLastOwner(l, loaded, j, p)
    PROVE  k = l
<1>1. k \in Nat /\ l \in Nat /\ k <= j /\ l <= j
  BY DEF IsLastOwner
<1>2. ~(k < l)
  BY <1>1 DEF IsLastOwner
<1>3. ~(l < k)
  BY <1>1 DEF IsLastOwner
<1>4. QED
  BY <1>1, <1>2, <1>3

\* It is the j-th snapshot, or that of the one before.
LEMMA LastOwnerNext ==
    ASSUME NEW loaded, NEW p, NEW j \in Nat, NEW k, IsLastOwner(k, loaded, j, p)
    PROVE  /\ j = 0 \/ loaded[j].nodes[p].owns => k = j
           /\ ~(j = 0 \/ loaded[j].nodes[p].owns) => IsLastOwner(k, loaded, j - 1, p)
<1>1. k \in Nat /\ k <= j
  BY DEF IsLastOwner
<1>2. CASE j = 0
  BY <1>1, <1>2
<1>3. CASE j # 0 /\ loaded[j].nodes[p].owns
  <2>1. j \in 1..j
    BY <1>3
  <2>2. ~(k < j)
    BY <1>3, <2>1 DEF IsLastOwner
  <2>3. QED
    BY <1>1, <1>3, <2>2
<1>4. CASE j # 0 /\ ~loaded[j].nodes[p].owns
  <2>1. k # j
    BY <1>4 DEF IsLastOwner
  <2>2. k \in 0..j - 1 /\ \A l \in 1..j - 1 : l \in 1..j
    BY <1>1, <1>4, <2>1
  <2>3. QED
    BY <1>4, <2>2 DEF IsLastOwner
<1>5. QED
  BY <1>2, <1>3, <1>4

\* FindDataSnapshot ends at the last owner.
LEMMA FindIsLastOwner ==
    ASSUME NEW loaded, NEW p, NEW i \in Nat
    PROVE  IsLastOwner(FindDataSnapshot(loaded, i, p), loaded, i, p)
<1> DEFINE last == [j \in 0..i |-> CHOOSE k : IsLastOwner(k, loaded, j, p)]
<1>1. \A j \in 0..i : IsLastOwner(last[j], loaded, j, p)
  BY LastOwnerExists
<1>2. \A j \in 0..i : j # 0 => j - 1 \in 0..i /\ j - 1 \in Nat
  OBVIOUS
<1>3. Resolves(last, loaded, i, p)
  <2>1. ASSUME NEW j \in 0..i
        PROVE  last[j] = IF j = 0 \/ loaded[j].nodes[p].owns THEN j ELSE last[j - 1]
    <3>1. IsLastOwner(last[j], loaded, j, p) /\ j \in Nat
      BY <1>1
    <3>2. CASE j = 0 \/ loaded[j].nodes[p].owns
      <4>. HIDE DEF last
      <4>1. PICK k : k = last[j]
        OBVIOUS
      <4>2. IsLastOwner(k, loaded, j, p)
        BY <3>1, <4>1
      <4>3. k = j
        <5>1. k \in Nat /\ k <= j /\ j \in Nat
          BY <4>2 DEF IsLastOwner
        <5>2. CASE j = 0
          BY <5>1, <5>2
        <5>3. CASE j # 0 /\ loaded[j].nodes[p].owns
          <6>1. j \in 1..j
            BY <5>1, <5>3
          <6>2. ~(k < j)
            BY <4>2, <5>3, <6>1 DEF IsLastOwner
          <6>3. QED
            BY <5>1, <6>2
        <5>4. QED
          BY <3>2, <5>2, <5>3
      <4>4. QED
        BY <3>2, <4>1, <4>3
    <3>3. CASE ~(j = 0 \/ loaded[j].nodes[p].owns)
      <4>1. IsLastOwner(last[j - 1], loaded, j - 1, p) /\ j - 1 \in Nat
        BY <1>1, <1>2, <3>3
      <4>. HIDE DEF last
      <4>2. IsLastOwner(last[j], loaded, j - 1, p)
        BY <3>1, <3>3, LastOwnerNext
      <4>3. last[j] = last[j - 1]
        BY ONLY <4>1, <4>2, LastOwnerIsOne
      <4>4. QED
        BY <3>3, <4>3
    <3>4. QED
      BY <3>2, <3>3
  <2>2. last = [j \in 0..i |-> last[j]]
    OBVIOUS
  <2>. HIDE DEF last
  <2>3. QED
    BY <2>1, <2>2 DEF Resolves
<1>. HIDE DEF last
<1> DEFINE find == CHOOSE f : f = [j \in 0..i |->
                        IF j = 0 \/ loaded[j].nodes[p].owns THEN j ELSE f[j - 1]]
<1>4. Resolves(find, loaded, i, p)
  BY <1>3 DEF Resolves
<1>5. FindDataSnapshot(loaded, i, p) = find[i]
  BY DEF FindDataSnapshot
<1>. HIDE DEF find
<1>6. \A j \in 0..i : find[j] = IF j = 0 \/ loaded[j].nodes[p].owns THEN j ELSE find[j - 1]
  BY <1>4 DEF Resolves
<1> DEFINE S == {j \in Nat : j <= i => IsLastOwner(find[j], loaded, j, p)}
<1>7. 0 \in S
  <2>1. find[0] = 0
    BY <1>6
  <2>2. QED
    BY <2>1 DEF IsLastOwner
<1>8. ASSUME NEW n \in S PROVE n + 1 \in S
  <2>1. PICK m \in Nat : m = n + 1
    OBVIOUS
  <2>2. SUFFICES ASSUME m <= i PROVE IsLastOwner(find[m], loaded, m, p)
    BY <2>1
  <2>3. m \in 0..i /\ m # 0 /\ m - 1 = n /\ n <= i
    BY <2>1, <2>2
  <2>4. IsLastOwner(find[n], loaded, n, p)
    BY <2>3
  <2>5. CASE loaded[m].nodes[p].owns
    <3>1. find[m] = m
      BY <1>6, <2>3, <2>5
    <3>2. QED
      BY <2>1, <2>5, <3>1 DEF IsLastOwner
  <2>6. CASE ~loaded[m].nodes[p].owns
    <3>1. PICK k : k = find[m]
      OBVIOUS
    <3>2. k = find[n]
      BY <1>6, <2>3, <2>6, <3>1
    <3>3. k \in 0..m /\ \A l \in 1..m : l = m \/ l \in 1..n
      BY <2>1, <2>4, <3>2 DEF IsLastOwner
    <3>4. IsLastOwner(k, loaded, m, p)
      BY <2>4, <2>6, <3>2, <3>3 DEF IsLastOwner
    <3>5. QED
      BY <3>1, <3>4
  <2>7. QED
    BY <2>5, <2>6
<1>9. S \in SUBSET Nat
  OBVIOUS
<1>10. S = Nat
  <2>. HIDE DEF S
  <2>1. QED
    BY <1>7, <1>8, <1>9, ClosedIsNat
<1>11. i \in S
  BY <1>10
<1>12. QED
  BY <1>5, <1>11

\* Snapshots in which every node that one does not own is in the one before, with the
\* same contents.
Linked(loaded) ==
    \A i \in 1..Len(loaded), p \in Paths :
        \/ loaded[i].nodes[p].owns
        \/ i # 1 /\ loaded[i].nodes[p].content = loaded[i - 1].nodes[p].content

\* The owner of a node's data has the contents that the snapshot has.
LEMMA OwnerHasContents ==
    ASSUME NEW loaded, Len(loaded) \in Nat, Linked(loaded), NEW i \in 1..Len(loaded),
           NEW p \in Paths, NEW d, d = FindDataSnapshot(loaded, i, p)
    PROVE  /\ d \in 1..i /\ loaded[d].nodes[p].owns
           /\ loaded[i].nodes[p].content = loaded[d].nodes[p].content
           /\ d \in 1..Len(loaded)
           /\ FindDataSnapshot(loaded, d, p) = d
<1>1. IsLastOwner(d, loaded, i, p) /\ i \in Nat
  BY FindIsLastOwner
<1>2. d \in Nat /\ d <= i /\ (d = 0 \/ loaded[d].nodes[p].owns)
      /\ \A l \in 1..i : d < l => ~loaded[l].nodes[p].owns
  BY <1>1 DEF IsLastOwner
<1>3. d # 0
  <2>1. ASSUME d = 0 PROVE FALSE
    <3>1. 1 \in 1..i /\ 1 \in 1..Len(loaded) /\ d < 1
      BY <2>1
    <3>2. QED
      BY <1>2, <3>1 DEF Linked
  <2>2. QED
    BY <2>1
<1> DEFINE S == {n \in Nat : d + n <= i =>
                    loaded[d + n].nodes[p].content = loaded[d].nodes[p].content}
<1>4. 0 \in S
  BY <1>2
<1>5. ASSUME NEW n \in S PROVE n + 1 \in S
  <2>1. PICK m \in Nat : m = d + n
    BY <1>2
  <2>2. PICK k \in Nat : k = m + 1
    OBVIOUS
  <2>3. d + (n + 1) = k /\ n + 1 \in Nat
    BY <1>2, <2>1, <2>2
  <2>4. SUFFICES ASSUME k <= i PROVE loaded[k].nodes[p].content = loaded[d].nodes[p].content
    BY <2>3
  <2>5. k \in 1..i /\ k \in 1..Len(loaded) /\ d < k /\ k - 1 = m /\ m <= i
    BY <1>2, <2>1, <2>2, <2>4
  <2>6. ~loaded[k].nodes[p].owns
    BY <1>2, <2>5
  <2>7. loaded[k].nodes[p].content = loaded[m].nodes[p].content
    BY <2>5, <2>6 DEF Linked
  <2>8. QED
    BY <2>1, <2>5, <2>7
<1>6. S \in SUBSET Nat
  OBVIOUS
<1>7. S = Nat
  <2>. HIDE DEF S
  <2>1. QED
    BY <1>4, <1>5, <1>6, ClosedIsNat
<1>8. i - d \in S /\ d + (i - d) = i
  BY <1>2, <1>7
<1>9. loaded[i].nodes[p].content = loaded[d].nodes[p].content
  BY <1>8
<1>10. d \in 1..i /\ d \in 1..Len(loaded)
  BY <1>2, <1>3
<1>11. FindDataSnapshot(loaded, d, p) = d
  <2>1. PICK e : e = FindDataSnapshot(loaded, d, p)
    OBVIOUS
  <2>2. IsLastOwner(e, loaded, d, p)
    BY <1>2, <2>1, FindIsLastOwner
  <2>3. e = d
    BY <1>2, <1>3, <2>2, LastOwnerNext
  <2>4. QED
    BY <2>1, <2>3
<1>12. QED
  BY <1>2, <1>3, <1>9, <1>10, <1>11

\* Snapshots in order, as they were serialised, with no gap.
InOrder(l) ==
    /\ \A i, j \in 1..Len(l) : i < j => l[i].name < l[j].name
    /\ \A j \in 1..Len(l) :
        l[j].name \in DOMAIN written /\ l[j].nodes = written[l[j].name].nodes
    /\ \A n \in NamesOf(l), x \in DOMAIN written : x < n => x \in NamesOf(l)

\* Then the base of each is the one before.
LEMMA InOrderIsBased ==
    ASSUME TypeInv, LogInv, NEW l \in Seq(Snapshot), InOrder(l), NEW i \in 1..Len(l)
    PROVE  written[l[i].name].base = IF i = 1 THEN NoName ELSE l[i - 1].name
<1>1. PICK n : n = l[i].name
  OBVIOUS
<1>2. n \in DOMAIN written /\ n \in NamesOf(l) /\ Follows(n)
  BY <1>1 DEF InOrder, NamesOf, LogInv, Serialised
<1>3. \A x \in DOMAIN written : x \in Nat
  BY DEF LogInv, Serialised, TypeInv, Disk, Names
<1>4. PICK b : b = written[n].base
  OBVIOUS
<1>5. Len(l) \in Nat
  OBVIOUS
<1>6. CASE b = NoName /\ \A m \in DOMAIN written : ~(m < n)
  <2>1. ASSUME i # 1 PROVE FALSE
    <3>1. 1 \in 1..Len(l) /\ 1 < i
      BY <1>5, <2>1
    <3>2. l[1].name < n /\ l[1].name \in DOMAIN written
      BY <1>1, <3>1 DEF InOrder
    <3>3. QED
      BY <1>6, <3>2
  <2>2. QED
    BY <1>1, <1>4, <1>6, <2>1
<1>7. CASE b \in DOMAIN written /\ b < n /\ \A m \in DOMAIN written : m < n => m <= b
  <2>1. b \in NamesOf(l)
    BY <1>2, <1>7 DEF InOrder
  <2>2. PICK j \in 1..Len(l) : l[j].name = b
    BY <2>1 DEF NamesOf
  <2>3. j < i
    <3>1. i # j
      BY <1>1, <1>2, <1>3, <1>7, <2>2
    <3>2. ~(i < j)
      BY <1>1, <1>2, <1>3, <1>7, <2>2 DEF InOrder
    <3>3. QED
      BY <1>5, <3>1, <3>2
  <2>4. j = i - 1
    <3>1. PICK k : k = i - 1
      OBVIOUS
    <3>2. SUFFICES ASSUME j < k PROVE FALSE
      BY <1>5, <2>3, <3>1
    <3>3. k \in 1..Len(l) /\ k < i
      BY <1>5, <3>1, <3>2
    <3>4. l[j].name < l[k].name /\ l[k].name < n /\ l[k].name \in DOMAIN written
      BY <1>1, <3>2, <3>3 DEF InOrder
    <3>5. l[k].name <= b
      BY <1>7, <3>4
    <3>6. QED
      BY <1>3, <1>7, <2>2, <3>4, <3>5
  <2>5. i # 1
    BY <2>3, <1>5
  <2>6. QED
    BY <1>1, <1>4, <2>2, <2>4, <2>5
<1>8. QED
  BY <1>2, <1>4, <1>6, <1>7 DEF Follows

\* And what one does not own is in the one before.
LEMMA InOrderIsLinked ==
    ASSUME TypeInv, LogInv, NEW l \in Seq(Snapshot), InOrder(l)
    PROVE  Linked(l)
<1> SUFFICES ASSUME NEW i \in 1..Len(l), NEW p \in Paths, ~l[i].nodes[p].owns
             PROVE  i # 1 /\ l[i].nodes[p].content = l[i - 1].nodes[p].content
  BY DEF Linked
<1>1. PICK n : n = l[i].name
  OBVIOUS
<1>2. n \in DOMAIN written /\ l[i].nodes = written[n].nodes /\ Follows(n)
  BY <1>1 DEF InOrder, LogInv, Serialised
<1>3. PICK b : b = written[n].base
  OBVIOUS
<1>4. b \in DOMAIN written /\ written[n].nodes[p].content = written[b].nodes[p].content
  BY <1>2, <1>3 DEF Follows
<1>5. b = IF i = 1 THEN NoName ELSE l[i - 1].name
  BY <1>1, <1>3, InOrderIsBased
<1>6. b # NoName
  BY <1>4, NoNameAssumption DEF LogInv, Serialised, TypeInv, Disk
<1>7. i # 1 /\ i - 1 \in 1..Len(l)
  BY <1>5, <1>6
<1>8. QED
  BY <1>2, <1>4, <1>5, <1>7 DEF InOrder

\* What a program has loaded is linked.
LEMMA LoadedIsLinked ==
    ASSUME TypeInv, LogInv, NEW g \in Programs
    PROVE  Linked(program[g].loaded)
<1>1. PICK l \in Seq(Snapshot) : l = program[g].loaded
  BY DEF TypeInv, Program
<1>2. Loaded(g) /\ DOMAIN written \subseteq DOMAIN indexFiles
  BY DEF LogInv, Serialised
<1>3. InOrder(l)
  BY <1>1, <1>2 DEF Loaded, InOrder
<1>4. QED
  BY <1>1, <1>3, InOrderIsLinked

\* A command that reports success has verified its snapshots.
LEMMA SuccessIs ==
    ASSUME TypeInv, NEW g \in Programs, NEW i \in Names, Verify(g, i),
           program'[g].result = "success", NEW loaded, loaded = program[g].loaded
    PROVE  /\ i \in Named(g)
           /\ \A j \in Verified(g, i) :
                Resolvable(loaded, j) /\ VerifySnapshot(loaded, j, Full(g, i))
<1>1. \A x : End(g, x) => program'[g].result = x
  <2> SUFFICES ASSUME NEW x, End(g, x) PROVE program'[g].result = x
    OBVIOUS
  <2>1. PICK r : r = NotRunning(x)
    OBVIOUS
  <2>2. r.result = x
    BY <2>1 DEF NotRunning
  <2>3. program' = [program EXCEPT ![g] = r]
    BY <2>1 DEF End
  <2>4. QED
    BY <2>2, <2>3 DEF TypeInv
<1>2. ~End(g, "none") /\ ~End(g, "failure")
  BY <1>1
<1>3. PICK all \in BOOLEAN : all <=>
        \A j \in Verified(g, i) :
            Resolvable(loaded, j) /\ VerifySnapshot(loaded, j, Full(g, i))
  OBVIOUS
<1>4. PICK some \in BOOLEAN : some <=> \E j \in Verified(g, i) : ~Resolvable(loaded, j)
  OBVIOUS
<1>5. QED
  BY <1>2, <1>3, <1>4 DEF Verify

\* Whatever has rotted and whoever is killed or verifies at the same time: what
\* add-snapshot, verify and verify-all report as verified can be restored with the
\* contents that were recorded, from the snapshots that own the data; and so can what
\* verify -s reports of a snapshot, if that owns the data (Snapshot::VerifySnapshot).
THEOREM VerifiedCanBeRestored == OneAdds => (Spec => VerifiedRestores)
<1> SUFFICES ASSUME OneAdds PROVE Spec => VerifiedRestores
  OBVIOUS
<1> DEFINE A == \A g \in Programs : \A i \in Names :
        Verify(g, i) /\ program'[g].result = "success" =>
            LET loaded == program[g].loaded
            IN  \A j \in Verified(g, i) : \A p \in Paths :
                    \/ Restored(loaded, j, p) = loaded[j].nodes[p].content
                    \/ /\ program[g].command = "verify -s"
                       /\ j # Len(loaded)
                       /\ ~loaded[j].nodes[p].owns
<1>1. TypeInv /\ LogInv => A
  <2> SUFFICES ASSUME TypeInv, LogInv, NEW g \in Programs, NEW i \in Names,
                      Verify(g, i), program'[g].result = "success",
                      NEW loaded, loaded = program[g].loaded,
                      NEW j \in Verified(g, i), NEW p \in Paths
               PROVE  \/ Restored(loaded, j, p) = loaded[j].nodes[p].content
                      \/ /\ program[g].command = "verify -s"
                         /\ j # Len(loaded)
                         /\ ~loaded[j].nodes[p].owns
    OBVIOUS
  <2>1. /\ i \in Named(g)
        /\ \A k \in Verified(g, i) :
            Resolvable(loaded, k) /\ VerifySnapshot(loaded, k, Full(g, i))
    BY SuccessIs
  <2>2. loaded \in Seq(Snapshot) /\ Linked(loaded)
    BY LoadedIsLinked DEF TypeInv, Program
  <2>3. Len(loaded) \in Nat /\ DOMAIN loaded = 1..Len(loaded)
    BY <2>2
  <2>4. i \in 1..Len(loaded)
    <3>1. i \in DOMAIN loaded \/ i = Len(loaded)
      BY <2>1 DEF Named
    <3>2. i \in Nat /\ 1 <= i
      BY BoundsAssumption DEF Names
    <3>3. QED
      BY <2>3, <3>1, <3>2
  <2>5. j \in 1..Len(loaded)
    BY <2>3, <2>4 DEF Verified
  <2>6. PICK d : d = FindDataSnapshot(loaded, j, p)
    OBVIOUS
  <2>7. /\ d \in 1..j /\ loaded[d].nodes[p].owns
        /\ loaded[j].nodes[p].content = loaded[d].nodes[p].content
        /\ d \in 1..Len(loaded)
        /\ FindDataSnapshot(loaded, d, p) = d
    BY ONLY <2>2, <2>3, <2>5, <2>6, p \in Paths, OwnerHasContents
  <2>8. Restored(loaded, j, p) = Read(loaded[d].name, p)
    BY <2>6, <2>7 DEF Restored
  <2>9. ASSUME VerifyNode(loaded[d], p)
        PROVE  Restored(loaded, j, p) = loaded[j].nodes[p].content
    BY <2>7, <2>8, <2>9 DEF VerifyNode
  <2>10. CASE Full(g, i)
    <3>1. VerifyNode(loaded[d], p)
      BY <2>1, <2>6, <2>10 DEF VerifySnapshot, BackReferencesToo
    <3>2. QED
      BY <2>9, <3>1
  <2>11. CASE program[g].command = "verify-all"
    <3>1. d \in Verified(g, i)
      BY <2>3, <2>7, <2>11 DEF Verified
    <3>2. VerifyNode(loaded[d], p)
      BY <2>1, <2>7, <3>1 DEF VerifySnapshot
    <3>3. QED
      BY <2>9, <3>2
  <2>12. CASE ~Full(g, i) /\ program[g].command # "verify-all"
    <3>1. i # Len(loaded) /\ j = i
      BY <2>12 DEF Full, Verified
    <3>2. program[g].command = "verify -s"
      BY <2>1, <3>1 DEF Named
    <3>3. CASE loaded[j].nodes[p].owns
      <4>1. d = j
        <5>1. IsLastOwner(d, loaded, j, p) /\ j \in Nat
          BY <2>5, <2>6, FindIsLastOwner
        <5>2. QED
          BY ONLY <3>3, <5>1, LastOwnerNext
      <4>2. VerifyNode(loaded[d], p)
        BY <2>1, <2>6, <4>1 DEF VerifySnapshot
      <4>3. QED
        BY <2>9, <4>2
    <3>4. QED
      BY <3>1, <3>2, <3>3
  <2>13. QED
    BY <2>10, <2>11, <2>12
<1>. HIDE DEF A
<1>2. VerifiedRestores <=> [][A]_vars
  BY DEF VerifiedRestores, A
<1>3. QED
  BY <1>1, <1>2, LogAlways, PTL

-----------------------------------------------------------------------------
(* The log of what the snapshots restore to, where no file rots. *)

\* What a program has loaded can still be read in, and so can all but the last index
\* file; the volumes hold what was piped, and nothing else while nodes are piped.
SoundInv ==
    /\ \A g \in Programs : \A n \in NamesOf(program[g].loaded) : Intact(n)
    /\ \A n, m \in DOMAIN indexFiles : n < m => Intact(n)
    /\ \A g \in Programs :
        program[g].pc \in {"createHash", "writeHash"} =>
            indexFiles[program[g].name] = NewIndex(g)
    /\ \A n \in DOMAIN volumes : \A p \in DOMAIN volumes[n] : volumes[n][p] \in Versions
    /\ \A g \in Programs :
        program[g].pc = "pipe" /\ program[g].createdDataDir =>
            DOMAIN volumes[program[g].name] = DOMAIN program[g].piped

\* What changes of the programs when one goes on, and when one ends.
LEMMA ContinueFields ==
    ASSUME TypeInv, NEW g \in Programs, NEW x, Continue(g, x)
    PROVE  /\ program'[g].pc = x /\ program'[g].loaded = program[g].loaded
           /\ program'[g].name = program[g].name /\ NewIndex(g)' = NewIndex(g)
           /\ \A h \in Programs \ {g} : program'[h] = program[h]
<1>1. PICK r : r = [program[g] EXCEPT !.pc = x]
  OBVIOUS
<1>2. program[g] \in Program
  BY DEF TypeInv
<1>3. program' = [program EXCEPT ![g] = r] /\ program'[g] = r
      /\ \A h \in Programs \ {g} : program'[h] = program[h]
  BY <1>1 DEF Continue, TypeInv
<1>4. /\ r.pc = x /\ r.name = program[g].name /\ r.loaded = program[g].loaded
      /\ r.listed = program[g].listed /\ r.data = program[g].data
      /\ r.piped = program[g].piped
  BY <1>1, <1>2 DEF Program
<1>5. QED
  BY <1>3, <1>4 DEF NewIndex, LastOf

\* What is left of a program that ends.
LEMMA EndFields ==
    ASSUME TypeInv, NEW g \in Programs, NEW result, End(g, result)
    PROVE  /\ program'[g].pc = "ended" /\ program'[g].loaded = <<>>
           /\ \A h \in Programs \ {g} : program'[h] = program[h]
<1>1. PICK r : r = NotRunning(result)
  OBVIOUS
<1>2. r.pc = "ended" /\ r.loaded = <<>>
  BY <1>1 DEF NotRunning
<1>3. program' = [program EXCEPT ![g] = r]
  BY <1>1 DEF End
<1>4. QED
  BY <1>2, <1>3 DEF TypeInv

\* What a step makes of a program that it is not about, or that it is about and that
\* goes on with the snapshots it has loaded: it loads none, or one more, or starts anew.
Keeps(h) ==
    \/ NamesOf(program'[h].loaded) \subseteq NamesOf(program[h].loaded)
    \/ \E n : Intact(n) /\ NamesOf(program'[h].loaded) \subseteq NamesOf(program[h].loaded) \cup {n}

\* A step of a program loads one complete snapshot at most.
LEMMA LoadedOf ==
    ASSUME TypeInv, NEW g \in Programs, Step(g)
    PROVE  Keeps(g) /\ \A h \in Programs \ {g} : program'[h] = program[h]
<1>1. Len(<<>>) = 0 /\ NamesOf(<<>>) = {}
  BY DEF NamesOf
<1>2. program[g] \in Program
  BY DEF TypeInv
<1>3. ASSUME NEW result, End(g, result)
      PROVE  Keeps(g) /\ \A h \in Programs \ {g} : program'[h] = program[h]
  BY <1>1, <1>3, EndFields DEF Keeps
<1>4. ASSUME NEW x, Continue(g, x)
      PROVE  Keeps(g) /\ \A h \in Programs \ {g} : program'[h] = program[h]
  BY <1>4, ContinueFields DEF Keeps
<1>5. ASSUME NEW r, program' = [program EXCEPT ![g] = r],
             r.loaded = program[g].loaded \/ r.loaded = <<>>
      PROVE  Keeps(g) /\ \A h \in Programs \ {g} : program'[h] = program[h]
  <2>1. program'[g] = r /\ \A h \in Programs \ {g} : program'[h] = program[h]
    BY <1>5 DEF TypeInv
  <2>2. QED
    BY <1>1, <1>5, <2>1 DEF Keeps
<1>6. CASE Start(g)
  <2>1. PICK c \in CommandsOf[g] :
        program' = [program EXCEPT ![g] =
                        [NotRunning("none") EXCEPT !.command = c, !.pc = "list"]]
    BY <1>6 DEF Start
  <2>2. PICK r : r = [NotRunning("none") EXCEPT !.command = c, !.pc = "list"]
    OBVIOUS
  <2>3. r.loaded = <<>>
    BY <2>2 DEF NotRunning
  <2>4. QED
    BY <1>5, <2>1, <2>2, <2>3
<1>7. CASE ListSnapshotMetadataFiles(g)
  <2>1. PICK names : names = Sorted(DOMAIN indexFiles)
    OBVIOUS
  <2>2. PICK r : r = [program[g] EXCEPT !.toRead = names, !.loaded = <<>>, !.pc = "read"]
    OBVIOUS
  <2>3. program' = [program EXCEPT ![g] = r]
    BY <1>7, <2>1, <2>2 DEF ListSnapshotMetadataFiles, TypeInv
  <2>4. r.loaded = <<>>
    BY <1>2, <2>2 DEF Program
  <2>5. QED
    BY <1>5, <2>3, <2>4
<1>8. CASE Deserialize(g)
  <2>1. PICK n : n = Head(program[g].toRead)
    OBVIOUS
  <2>2. CASE ~Intact(n)
    BY <1>3, <1>8, <2>1, <2>2 DEF Deserialize
  <2>3. CASE Intact(n)
    <3>1. PICK s : s = [name |-> n, nodes |-> indexFiles[n]]
      OBVIOUS
    <3>2. s \in Snapshot /\ s.name = n
      BY <2>3, <3>1, IntactIs
    <3>3. PICK loaded \in Seq(Snapshot) : loaded = program[g].loaded
      BY <1>2 DEF Program
    <3>4. PICK l : l = Append(loaded, s)
      OBVIOUS
    <3>5. PICK r : r = [program[g] EXCEPT !.toRead = Tail(@), !.loaded = l]
      OBVIOUS
    <3>6. r.loaded = l
      BY <1>2, <3>5 DEF Program
    <3>7. program' = [program EXCEPT ![g] = r]
      BY <1>8, <2>1, <2>3, <3>1, <3>3, <3>4, <3>5 DEF Deserialize, TypeInv
    <3>8. program'[g] = r /\ \A h \in Programs \ {g} : program'[h] = program[h]
      BY <3>7 DEF TypeInv
    <3>9. loaded \in Seq(Snapshot) /\ s \in Snapshot
      BY <3>2
    <3>10. NamesOf(l) = NamesOf(loaded) \cup {s.name}
      BY ONLY <3>4, <3>9, AppendIs
    <3>11. QED
      BY <2>3, <3>2, <3>3, <3>6, <3>8, <3>10 DEF Keeps
  <2>4. QED
    BY <2>2, <2>3
<1>9. CASE BeginSnapshot(g)
  <2>1. PICK different : different = Different(g)
    OBVIOUS
  <2>2. PICK r : r = [program[g] EXCEPT !.listed = source, !.data = different,
                                        !.name = clock, !.pc = "pipe"]
    OBVIOUS
  <2>3. program' = [program EXCEPT ![g] = r]
    BY <1>9, <2>1, <2>2 DEF BeginSnapshot, TypeInv
  <2>4. r.loaded = program[g].loaded
    BY <1>2, <2>2 DEF Program
  <2>5. QED
    BY <1>5, <2>3, <2>4
<1>10. ASSUME NEW p \in Paths, PipeNode(g, p)
       PROVE  Keeps(g) /\ \A h \in Programs \ {g} : program'[h] = program[h]
  <2>1. CASE ~CanStore(g)
    BY <1>3, <1>10, <2>1 DEF PipeNode
  <2>2. CASE CanStore(g)
    <3>1. PICK piped : piped = Extend(program[g].piped, p, source[p])
      OBVIOUS
    <3>2. PICK r : r = [program[g] EXCEPT !.piped = piped, !.createdDataDir = TRUE]
      OBVIOUS
    <3>3. program' = [program EXCEPT ![g] = r]
      BY <1>10, <2>2, <3>1, <3>2 DEF PipeNode, TypeInv
    <3>4. r.loaded = program[g].loaded
      BY <1>2, <3>2 DEF Program
    <3>5. QED
      BY <1>5, <3>3, <3>4
  <2>3. QED
    BY <2>1, <2>2
<1>11. CASE \/ SnapshotsAreRead(g) \/ AllPiped(g) \/ ProtectData(g) \/ UnprotectIndex(g)
            \/ ProtectFiles(g) \/ ProtectIndex(g) \/ Check(g)
            \/ CreateIndex(g) \/ WriteIndex(g) \/ CreateHash(g) \/ WriteHash(g)
            \/ \E i \in Names : Verify(g, i)
  <2>1. (\E x : Continue(g, x)) \/ (\E result : End(g, result))
    BY <1>11 DEF SnapshotsAreRead, AllPiped, ProtectData, UnprotectIndex, ProtectFiles,
       ProtectIndex, Check, CreateIndex, WriteIndex, CreateHash, WriteHash, Verify
  <2>2. QED
    BY <1>3, <1>4, <2>1
<1>12. QED
  BY <1>6, <1>7, <1>8, <1>9, <1>10, <1>11 DEF Step, ReadInSnapshots, AddSnapshot

\* A file that rots, which does not happen.
LEMMA NothingRots ==
    ASSUME TypeInv, MaxCorruptions = 0, NEW n
    PROVE  ~Corrupt(n)
BY DEF Corrupt, TypeInv, Environs

\* What a step makes of the files: what can be read in stays as it is.
FilesKept ==
    /\ \A n : Intact(n) => Intact(n)' /\ indexFiles'[n] = indexFiles[n]
    /\ \/ DOMAIN indexFiles' = DOMAIN indexFiles
       \/ \E g \in Programs :
            /\ CreateIndex(g)
            /\ program[g].name \notin DOMAIN indexFiles
            /\ DOMAIN indexFiles' = DOMAIN indexFiles \cup {program[g].name}

\* Every step of a program leaves complete snapshots as they are.
LEMMA StepKeepsFiles ==
    ASSUME IInv, TypeInv, LogInv, NEW g \in Programs, Step(g)
    PROVE  FilesKept
<1>1. ASSUME UNCHANGED <<indexFiles, hashFiles>> PROVE FilesKept
  BY <1>1 DEF FilesKept, Intact, Parsed
<1>2. PICK n : n = program[g].name
  OBVIOUS
<1>3. CASE CreateIndex(g)
  <2>1. CASE ~CanCreate(indexFiles, n)
    BY <1>1, <1>2, <1>3, <2>1 DEF CreateIndex
  <2>2. CASE CanCreate(indexFiles, n)
    <3>1. /\ UNCHANGED hashFiles /\ indexFiles' = Extend(indexFiles, n, Empty)
          /\ n \notin DOMAIN indexFiles
      BY <1>2, <1>3, <2>2 DEF CreateIndex, CanCreate
    <3>2. /\ DOMAIN indexFiles' = DOMAIN indexFiles \cup {n}
          /\ \A m \in DOMAIN indexFiles : indexFiles'[m] = indexFiles[m]
      BY <3>1 DEF Extend
    <3>3. \A m : Intact(m) => m \in DOMAIN indexFiles
      BY IntactIs
    <3>4. \A m : Intact(m) => Intact(m)' /\ indexFiles'[m] = indexFiles[m]
      BY <3>1, <3>2, <3>3 DEF Intact, Parsed
    <3>5. QED
      BY <1>2, <1>3, <3>1, <3>2, <3>4 DEF FilesKept
  <2>3. QED
    BY <2>1, <2>2
<1>4. CASE WriteIndex(g)
  <2>1. /\ program[g].pc = "writeIndex" /\ UNCHANGED hashFiles
        /\ indexFiles' = [indexFiles EXCEPT ![n] = NewIndex(g)]
    BY <1>2, <1>4 DEF WriteIndex, At
  <2>2. Knows(g) /\ Adds(g)
    BY <2>1, NamedAdds DEF NamedPhases
  <2>3. n \notin DOMAIN hashFiles
    BY <1>2, <2>1, <2>2 DEF Knows
  <2>4. \A m : Intact(m) => m \in DOMAIN indexFiles /\ m # n
    BY <2>3, IntactIs
  <2>5. \A m : Intact(m) => Intact(m)' /\ indexFiles'[m] = indexFiles[m]
    BY <2>1, <2>4 DEF Intact, Parsed
  <2>6. QED
    BY <2>1, <2>5 DEF FilesKept
<1>5. CASE CreateHash(g)
  <2>1. CASE ~CanCreate(hashFiles, n)
    BY <1>1, <1>2, <1>5, <2>1 DEF CreateHash
  <2>2. CASE CanCreate(hashFiles, n)
    <3>1. /\ UNCHANGED indexFiles /\ hashFiles' = Extend(hashFiles, n, Empty)
          /\ n \notin DOMAIN hashFiles
      BY <1>2, <1>5, <2>2 DEF CreateHash, CanCreate
    <3>2. /\ DOMAIN hashFiles' = DOMAIN hashFiles \cup {n}
          /\ \A m \in DOMAIN hashFiles : hashFiles'[m] = hashFiles[m]
      BY <3>1 DEF Extend
    <3>3. \A m : Intact(m) => Intact(m)' /\ indexFiles'[m] = indexFiles[m]
      BY <3>1, <3>2 DEF Intact, Parsed
    <3>4. QED
      BY <3>1, <3>3 DEF FilesKept
  <2>3. QED
    BY <2>1, <2>2
<1>6. CASE WriteHash(g)
  <2>1. /\ program[g].pc = "writeHash" /\ UNCHANGED indexFiles
        /\ hashFiles' = [hashFiles EXCEPT ![n] = NewIndex(g)]
    BY <1>2, <1>6 DEF WriteHash, At
  <2>2. Knows(g) /\ Adds(g)
    BY <2>1, NamedAdds DEF NamedPhases
  <2>3. hashFiles[n] = Empty
    BY <1>2, <2>1, <2>2 DEF Knows
  <2>4. \A m : Intact(m) => m # n
    BY <2>3 DEF Intact, Parsed
  <2>5. \A m : Intact(m) => Intact(m)' /\ indexFiles'[m] = indexFiles[m]
    BY <2>1, <2>4 DEF Intact, Parsed
  <2>6. QED
    BY <2>1, <2>5 DEF FilesKept
<1>7. CASE ~(CreateIndex(g) \/ WriteIndex(g) \/ CreateHash(g) \/ WriteHash(g))
  <2>1. UNCHANGED <<indexFiles, hashFiles>>
    BY <1>7 DEF Step, Start, ReadInSnapshots, ListSnapshotMetadataFiles, Deserialize,
       SnapshotsAreRead, AddSnapshot, BeginSnapshot, PipeNode, AllPiped, ProtectData,
       UnprotectIndex, ProtectFiles, ProtectIndex, Check, Verify, disk
  <2>2. QED
    BY <1>1, <2>1
<1>8. QED
  BY <1>3, <1>4, <1>5, <1>6, <1>7

\* A step that changes a file, or an index while it is written, is one of add-snapshot.
LEMMA OnlyAddsWrites ==
    ASSUME IInv, NEW g \in Programs, Step(g), ~Adds(g)
    PROVE  UNCHANGED <<volumes, indexFiles, hashFiles>>
<1>1. program[g].pc \in {"ended", "list", "read", "verify"}
  BY DEF IInv
<1>2. ~AddSnapshot(g)
  BY <1>1 DEF AddSnapshot, BeginSnapshot, PipeNode, AllPiped, ProtectData, UnprotectIndex,
     CreateIndex, WriteIndex, CreateHash, WriteHash, ProtectFiles, ProtectIndex, Check, At
<1>3. QED
  BY <1>2 DEF Step, Start, ReadInSnapshots, ListSnapshotMetadataFiles, Deserialize,
     SnapshotsAreRead, Verify, disk

\* How a program gets to the phases in which something is known of its files.
LEMMA PhaseAfter ==
    ASSUME TypeInv, NEW g \in Programs, Step(g)
    PROVE  /\ program'[g].pc = "createHash" => WriteIndex(g)
           /\ program'[g].pc = "writeHash" => CreateHash(g)
           /\ program'[g].pc = "pipe" => BeginSnapshot(g) \/ \E p \in Paths : PipeNode(g, p)
<1> DEFINE Q == program'[g].pc \notin {"createHash", "writeHash", "pipe"}
<1>1. ASSUME NEW result, End(g, result) PROVE Q
  BY <1>1, EndFields
<1>2. ASSUME NEW x \in Phases \ {"createHash", "writeHash", "pipe"}, Continue(g, x) PROVE Q
  BY <1>2, ContinueFields
<1>3. program[g] \in Program
  BY DEF TypeInv
<1>4. CASE Start(g)
  <2>1. PICK c \in CommandsOf[g] :
        program' = [program EXCEPT ![g] =
                        [NotRunning("none") EXCEPT !.command = c, !.pc = "list"]]
    BY <1>4 DEF Start
  <2>2. PICK r : r = [NotRunning("none") EXCEPT !.command = c, !.pc = "list"]
    OBVIOUS
  <2>3. r.pc = "list"
    BY <2>2 DEF NotRunning
  <2>4. program'[g] = r
    BY <2>1, <2>2 DEF TypeInv
  <2>5. QED
    BY <2>3, <2>4
<1>5. CASE ListSnapshotMetadataFiles(g)
  <2>1. PICK names : names = Sorted(DOMAIN indexFiles)
    OBVIOUS
  <2>2. PICK r : r = [program[g] EXCEPT !.toRead = names, !.loaded = <<>>, !.pc = "read"]
    OBVIOUS
  <2>3. program'[g] = r
    BY <1>5, <2>1, <2>2 DEF ListSnapshotMetadataFiles, TypeInv
  <2>4. r.pc = "read"
    BY <1>3, <2>2 DEF Program
  <2>5. QED
    BY <2>3, <2>4
<1>6. CASE Deserialize(g)
  <2>1. PICK n : n = Head(program[g].toRead)
    OBVIOUS
  <2>2. CASE ~Intact(n)
    BY <1>1, <1>6, <2>1, <2>2 DEF Deserialize
  <2>3. CASE Intact(n)
    <3>1. PICK l : l = Append(program[g].loaded, [name |-> n, nodes |-> indexFiles[n]])
      OBVIOUS
    <3>2. PICK r : r = [program[g] EXCEPT !.toRead = Tail(@), !.loaded = l]
      OBVIOUS
    <3>3. r.pc = "read"
      BY <1>3, <1>6, <3>2 DEF Deserialize, At, Program
    <3>4. program' = [program EXCEPT ![g] = r]
      BY <1>6, <2>1, <2>3, <3>1, <3>2 DEF Deserialize, TypeInv
    <3>5. program'[g] = r
      BY <3>4 DEF TypeInv
    <3>6. QED
      BY <3>3, <3>5
  <2>4. QED
    BY <2>2, <2>3
<1>7. CASE \/ SnapshotsAreRead(g) \/ AllPiped(g) \/ ProtectData(g) \/ UnprotectIndex(g)
           \/ ProtectFiles(g) \/ ProtectIndex(g) \/ Check(g) \/ WriteHash(g)
           \/ CreateIndex(g) \/ \E i \in Names : Verify(g, i)
  <2>1. \/ \E x \in Phases \ {"createHash", "writeHash", "pipe"} : Continue(g, x)
        \/ \E result : End(g, result)
    BY <1>7 DEF SnapshotsAreRead, AllPiped, ProtectData, UnprotectIndex, ProtectFiles,
       ProtectIndex, Check, WriteHash, CreateIndex, Verify, Phases
  <2>2. QED
    BY <1>1, <1>2, <2>1
<1>8. CASE WriteIndex(g) \/ CreateHash(g)
  <2>1. CASE WriteIndex(g)
    <3>1. Continue(g, "createHash")
      BY <2>1 DEF WriteIndex
    <3>2. program'[g].pc = "createHash"
      BY <3>1, ContinueFields
    <3>3. QED
      BY <2>1, <3>2
  <2>2. CASE CreateHash(g)
    <3>1. Continue(g, "writeHash") \/ End(g, "failure")
      BY <2>2 DEF CreateHash
    <3>2. program'[g].pc \in {"writeHash", "ended"}
      BY <3>1, ContinueFields, EndFields
    <3>3. QED
      BY <2>2, <3>2
  <2>3. QED
    BY <1>8, <2>1, <2>2
<1>9. ASSUME NEW p \in Paths, PipeNode(g, p) PROVE program'[g].pc \in {"pipe", "ended"}
  <2>1. CASE ~CanStore(g)
    BY <1>9, <2>1, EndFields DEF PipeNode
  <2>2. CASE CanStore(g)
    <3>1. PICK piped : piped = Extend(program[g].piped, p, source[p])
      OBVIOUS
    <3>2. PICK r : r = [program[g] EXCEPT !.piped = piped, !.createdDataDir = TRUE]
      OBVIOUS
    <3>3. r.pc = "pipe"
      BY <1>3, <1>9, <3>2 DEF PipeNode, At, Program
    <3>4. program' = [program EXCEPT ![g] = r]
      BY <1>9, <2>2, <3>1, <3>2 DEF PipeNode, TypeInv
    <3>5. QED
      BY <3>3, <3>4 DEF TypeInv
  <2>3. QED
    BY <2>1, <2>2
<1>10. CASE BeginSnapshot(g)
  <2>1. PICK r : r = [program[g] EXCEPT !.listed = source, !.data = Different(g),
                                        !.name = clock, !.pc = "pipe"]
    OBVIOUS
  <2>2. r.pc = "pipe"
    BY <1>3, <2>1 DEF Program
  <2>3. program' = [program EXCEPT ![g] = r]
    BY <1>10, <2>1 DEF BeginSnapshot, TypeInv
  <2>4. program'[g].pc = "pipe"
    BY <2>2, <2>3 DEF TypeInv
  <2>5. QED
    BY <1>10, <2>4
<1>11. CASE \E p \in Paths : PipeNode(g, p)
  <2>1. program'[g].pc \in {"pipe", "ended"}
    BY <1>9, <1>11
  <2>2. QED
    BY <1>11, <2>1
<1>12. CASE Q
  BY <1>12
<1>13. QED
  BY <1>4, <1>5, <1>6, <1>7, <1>8, <1>10, <1>11, <1>12 DEF Step, ReadInSnapshots, AddSnapshot

\* What a step makes of the volumes: what is stored stays as it is, and what is stored
\* anew is a version of the source.
VolumesKept ==
    /\ \A n \in DOMAIN volumes : \A p \in DOMAIN volumes[n] :
        n \in DOMAIN volumes' /\ p \in DOMAIN volumes'[n] /\ volumes'[n][p] = volumes[n][p]
    /\ \A n \in DOMAIN volumes' : \A p \in DOMAIN volumes'[n] : volumes'[n][p] \in Versions

\* Piping a node stores it, and the volumes hold what was piped.
LEMMA StoresMore ==
    ASSUME TypeInv, SoundInv, NEW g \in Programs, NEW p \in Paths, PipeNode(g, p), CanStore(g)
    PROVE  /\ VolumesKept
           /\ DOMAIN volumes'[program'[g].name] = DOMAIN program'[g].piped
<1>1. PICK n : n = program[g].name
  OBVIOUS
<1>2. PICK stored : stored = Stored(g)
  OBVIOUS
<1>3. PICK new : new = Extend(stored, p, source[p])
  OBVIOUS
<1>4. PICK piped : piped = Extend(program[g].piped, p, source[p])
  OBVIOUS
<1>5. PICK r : r = [program[g] EXCEPT !.piped = piped, !.createdDataDir = TRUE]
  OBVIOUS
<1>6. program[g] \in Program /\ Adding(g) /\ program[g].pc = "pipe"
      /\ p \notin DOMAIN program[g].piped /\ source[p] \in Versions
  BY DEF TypeInv, Environs, PipeNode, At
<1>7. r.name = n /\ r.piped = piped
  BY <1>1, <1>5, <1>6 DEF Program
<1>8. program' = [program EXCEPT ![g] = r] /\ volumes' = Extend(volumes, n, new)
  BY <1>1, <1>2, <1>3, <1>4, <1>5 DEF PipeNode, TypeInv
<1>9. program'[g] = r
  BY <1>8 DEF TypeInv
<1>10. /\ DOMAIN stored = DOMAIN program[g].piped
       /\ n \in DOMAIN volumes => stored = volumes[n]
  <2>1. CASE program[g].createdDataDir
    BY <1>1, <1>2, <1>6, <2>1 DEF Stored, SoundInv
  <2>2. CASE ~program[g].createdDataDir
    BY <1>1, <1>2, <1>6, <2>2 DEF Stored, Adding, NamedPhases, CanStore, Empty
  <2>3. QED
    BY <2>1, <2>2
<1>11. /\ DOMAIN new = DOMAIN stored \cup {p} /\ new[p] = source[p]
       /\ \A q \in DOMAIN stored : new[q] = stored[q]
  BY <1>3, <1>6, <1>10 DEF Extend
<1>12. /\ DOMAIN volumes' = DOMAIN volumes \cup {n} /\ volumes'[n] = new
       /\ \A m \in DOMAIN volumes : m # n => volumes'[m] = volumes[m]
  BY <1>8 DEF Extend
<1>13. DOMAIN piped = DOMAIN program[g].piped \cup {p}
  BY <1>4 DEF Extend
<1>14. \A q \in DOMAIN stored : stored[q] \in Versions
  <2>1. CASE n \in DOMAIN volumes
    BY <1>10, <2>1 DEF SoundInv
  <2>2. CASE n \notin DOMAIN volumes
    <3>1. ~program[g].createdDataDir
      BY <1>1, <1>6, <2>2 DEF Adding, NamedPhases
    <3>2. QED
      BY <1>2, <3>1 DEF Stored, Empty
  <2>3. QED
    BY <2>1, <2>2
<1>15. VolumesKept
  <2>1. ASSUME NEW m \in DOMAIN volumes, NEW q \in DOMAIN volumes[m]
        PROVE  m \in DOMAIN volumes' /\ q \in DOMAIN volumes'[m] /\ volumes'[m][q] = volumes[m][q]
    BY <1>10, <1>11, <1>12
  <2>2. ASSUME NEW m \in DOMAIN volumes', NEW q \in DOMAIN volumes'[m]
        PROVE  volumes'[m][q] \in Versions
    <3>1. CASE m = n
      BY <1>6, <1>11, <1>12, <1>14, <3>1
    <3>2. CASE m # n
      BY <1>12, <3>2 DEF SoundInv
    <3>3. QED
      BY <3>1, <3>2
  <2>3. QED
    BY <2>1, <2>2 DEF VolumesKept
<1>16. QED
  BY <1>7, <1>9, <1>10, <1>11, <1>12, <1>13, <1>15

\* Every step of a program leaves what is stored as it is.
LEMMA StepKeepsVolumes ==
    ASSUME TypeInv, SoundInv, NEW g \in Programs, Step(g)
    PROVE  VolumesKept
<1>1. CASE UNCHANGED volumes
  BY <1>1 DEF VolumesKept, SoundInv
<1>2. CASE \E p \in Paths : PipeNode(g, p) /\ CanStore(g)
  BY <1>2, StoresMore
<1>3. UNCHANGED volumes \/ \E p \in Paths : PipeNode(g, p) /\ CanStore(g)
  BY DEF Step, Start, ReadInSnapshots, ListSnapshotMetadataFiles, Deserialize,
     SnapshotsAreRead, AddSnapshot, BeginSnapshot, PipeNode, AllPiped, ProtectData,
     UnprotectIndex, CreateIndex, WriteIndex, CreateHash, WriteHash, ProtectFiles,
     ProtectIndex, Check, Verify, disk
<1>4. QED
  BY <1>1, <1>2, <1>3

\* A step of a program: what was sound before is sound after it.
LEMMA StepSound ==
    ASSUME OneAdds, IInv, TypeInv, LogInv, SoundInv, NEW g \in Programs, Step(g)
    PROVE  SoundInv'
<1>1. /\ \A n : Intact(n) => Intact(n)' /\ indexFiles'[n] = indexFiles[n]
      /\ \A n \in DOMAIN volumes' : \A p \in DOMAIN volumes'[n] : volumes'[n][p] \in Versions
  BY StepKeepsFiles, StepKeepsVolumes DEF FilesKept, VolumesKept
<1>2. Keeps(g) /\ \A h \in Programs \ {g} : program'[h] = program[h]
  BY LoadedOf
<1>3. ASSUME NEW h \in Programs \ {g}, program[h].pc \in NamedPhases
      PROVE  UNCHANGED <<volumes, indexFiles>>
  <2>1. Adds(h)
    BY <1>3, NamedAdds
  <2>2. ~Adds(g)
    BY <2>1 DEF OneAdds, IInv
  <2>3. QED
    BY <2>2, OnlyAddsWrites
<1>4. ASSUME NEW h \in Programs, NEW n \in NamesOf(program'[h].loaded) PROVE Intact(n)'
  <2>1. CASE h = g
    BY <1>1, <1>2, <1>4, <2>1 DEF Keeps, SoundInv
  <2>2. CASE h # g
    BY <1>1, <1>2, <1>4, <2>2 DEF SoundInv
  <2>3. QED
    BY <2>1, <2>2
<1>5. ASSUME NEW n \in DOMAIN indexFiles', NEW m \in DOMAIN indexFiles', n < m PROVE Intact(n)'
  <2>1. CASE DOMAIN indexFiles' = DOMAIN indexFiles
    BY <1>1, <1>5, <2>1 DEF SoundInv
  <2>2. ASSUME NEW f \in Programs, CreateIndex(f), program[f].name \notin DOMAIN indexFiles,
               DOMAIN indexFiles' = DOMAIN indexFiles \cup {program[f].name}
        PROVE  Intact(n)'
    <3>1. PICK k : k = program[f].name
      OBVIOUS
    <3>2. program[f].pc \in NamedPhases /\ program[f].pc \in Unserialised
      BY <2>2 DEF CreateIndex, At, NamedPhases, Unserialised
    <3>3. /\ Adds(f) /\ Knows(f) /\ k \in Nat
          /\ \A x \in DOMAIN indexFiles : x \in Nat /\ x <= k
      BY <3>1, <3>2, NamedAdds
    <3>4. n # k
      BY <1>5, <2>2, <3>1, <3>3
    <3>5. n \in DOMAIN indexFiles
      BY <2>2, <3>1, <3>4
    <3>6. n \in NamesOf(program[f].loaded)
      BY <3>2, <3>3, <3>5 DEF Knows
    <3>7. QED
      BY <1>1, <3>6 DEF SoundInv
  <2>3. QED
    BY <2>1, <2>2, StepKeepsFiles DEF FilesKept
<1>6. ASSUME NEW h \in Programs, program'[h].pc \in {"createHash", "writeHash"}
      PROVE  indexFiles'[program'[h].name] = NewIndex(h)'
  <2>1. CASE h # g
    <3>1. program'[h] = program[h] /\ program[h].pc \in NamedPhases
      BY <1>2, <1>6, <2>1 DEF NamedPhases
    <3>2. UNCHANGED indexFiles
      BY <1>3, <2>1, <3>1
    <3>3. NewIndex(h)' = NewIndex(h)
      BY <3>1 DEF NewIndex, LastOf
    <3>4. QED
      BY <1>6, <3>1, <3>2, <3>3 DEF SoundInv
  <2>2. CASE h = g /\ WriteIndex(g)
    <3>1. Continue(g, "createHash") /\ program[g].pc = "writeIndex"
          /\ indexFiles' = [indexFiles EXCEPT ![program[g].name] = NewIndex(g)]
      BY <2>2 DEF WriteIndex, At
    <3>2. program'[g].name = program[g].name /\ NewIndex(g)' = NewIndex(g)
      BY <3>1, ContinueFields
    <3>3. program[g].name \in DOMAIN indexFiles
      BY <3>1 DEF TypeInv, Adding, NamedPhases, IndexCreated
    <3>4. QED
      BY <2>2, <3>1, <3>2, <3>3
  <2>3. CASE h = g /\ CreateHash(g)
    <3>1. ~End(g, "failure")
      BY <1>6, <2>3, EndFields
    <3>2. Continue(g, "writeHash") /\ program[g].pc = "createHash" /\ UNCHANGED indexFiles
      BY <2>3, <3>1 DEF CreateHash, At
    <3>3. program'[g].name = program[g].name /\ NewIndex(g)' = NewIndex(g)
      BY <3>2, ContinueFields
    <3>4. QED
      BY <2>3, <3>2, <3>3 DEF SoundInv
  <2>4. QED
    BY <1>6, <2>1, <2>2, <2>3, PhaseAfter
<1>7. ASSUME NEW h \in Programs, program'[h].pc = "pipe", program'[h].createdDataDir
      PROVE  DOMAIN volumes'[program'[h].name] = DOMAIN program'[h].piped
  <2>1. CASE h # g
    <3>1. program'[h] = program[h] /\ program[h].pc \in NamedPhases
      BY <1>2, <1>7, <2>1 DEF NamedPhases
    <3>2. UNCHANGED volumes
      BY <1>3, <2>1, <3>1
    <3>3. QED
      BY <1>7, <3>1, <3>2 DEF SoundInv
  <2>2. ASSUME h = g, NEW p \in Paths, PipeNode(g, p)
        PROVE  DOMAIN volumes'[program'[h].name] = DOMAIN program'[h].piped
    <3>1. CanStore(g)
      BY <1>7, <2>2, EndFields DEF PipeNode
    <3>2. QED
      BY <2>2, <3>1, StoresMore
  <2>3. ASSUME h = g, BeginSnapshot(g) PROVE FALSE
    <3>1. PICK r : r = [program[g] EXCEPT !.listed = source, !.data = Different(g),
                                          !.name = clock, !.pc = "pipe"]
      OBVIOUS
    <3>2. program[g] \in Program /\ Fresh(g) /\ program[g].pc = "index"
      BY <2>3 DEF TypeInv, BeginSnapshot, At
    <3>3. r.createdDataDir = program[g].createdDataDir /\ ~program[g].createdDataDir
      BY <3>1, <3>2 DEF Program, Fresh
    <3>4. program' = [program EXCEPT ![g] = r]
      BY <2>3, <3>1 DEF BeginSnapshot, TypeInv
    <3>5. program'[g] = r
      BY <3>4 DEF TypeInv
    <3>6. QED
      BY <1>7, <2>3, <3>3, <3>5
  <2>4. QED
    BY <1>7, <2>1, <2>2, <2>3, PhaseAfter
<1>8. QED
  BY <1>1, <1>4, <1>5, <1>6, <1>7 DEF SoundInv

\* A step after which the files are as they were, and so are the programs but those that
\* have ended.
LEMMA QuietSound ==
    ASSUME SoundInv, UNCHANGED <<volumes, indexFiles, hashFiles>>,
           \A h \in Programs :
                \/ program'[h] = program[h]
                \/ program'[h].pc = "ended" /\ program'[h].loaded = <<>>
    PROVE  SoundInv'
<1>1. Len(<<>>) = 0 /\ NamesOf(<<>>) = {}
  BY DEF NamesOf
<1>2. \A n : Intact(n)' <=> Intact(n)
  BY DEF Intact, Parsed
<1>3. \A h \in Programs : \A n \in NamesOf(program'[h].loaded) : Intact(n)'
  BY <1>1, <1>2 DEF SoundInv
<1>4. ASSUME NEW h \in Programs, program'[h].pc \in {"createHash", "writeHash"}
      PROVE  indexFiles'[program'[h].name] = NewIndex(h)'
  <2>1. program'[h] = program[h]
    BY <1>4
  <2>2. NewIndex(h)' = NewIndex(h)
    BY <2>1 DEF NewIndex, LastOf
  <2>3. QED
    BY <1>4, <2>1, <2>2 DEF SoundInv
<1>5. \A h \in Programs :
        program'[h].pc = "pipe" /\ program'[h].createdDataDir =>
            DOMAIN volumes'[program'[h].name] = DOMAIN program'[h].piped
  BY DEF SoundInv
<1>6. (\A n, m \in DOMAIN indexFiles : n < m => Intact(n))'
  BY <1>2 DEF SoundInv
<1>7. (\A n \in DOMAIN volumes : \A p \in DOMAIN volumes[n] : volumes[n][p] \in Versions)'
  BY DEF SoundInv, Versions
<1>8. QED
  BY <1>3, <1>4, <1>5, <1>6, <1>7 DEF SoundInv

\* At the beginning there are no files.
LEMMA InitSoundInv == Init => SoundInv
<1> SUFFICES ASSUME Init PROVE SoundInv
  OBVIOUS
<1>1. PICK r : r = NotRunning("none")
  OBVIOUS
<1>2. r.pc = "ended" /\ r.loaded = <<>>
  BY <1>1 DEF NotRunning
<1>3. program = [g \in Programs |-> r]
  BY <1>1 DEF Init
<1>4. Len(r.loaded) = 0 /\ NamesOf(r.loaded) = {}
  BY <1>2 DEF NamesOf
<1>5. QED
  BY <1>2, <1>3, <1>4 DEF Init, SoundInv

\* So does every step of the system where no file rots.
LEMMA NextSoundInv ==
    OneAdds /\ MaxCorruptions = 0 /\ IInv /\ TypeInv /\ LogInv /\ SoundInv /\ [Next]_vars
        => SoundInv'
<1> SUFFICES ASSUME OneAdds, MaxCorruptions = 0, IInv, TypeInv, LogInv, SoundInv, [Next]_vars
             PROVE  SoundInv'
  OBVIOUS
<1>1. ASSUME NEW g \in Programs, Kill(g) PROVE SoundInv'
  <2>1. End(g, "none") /\ UNCHANGED <<volumes, indexFiles, hashFiles>>
    BY <1>1 DEF Kill, disk
  <2>2. QED
    BY <2>1, EndFields, QuietSound
<1>2. ASSUME UNCHANGED <<disk, program>> PROVE SoundInv'
  BY <1>2, QuietSound DEF disk
<1>3. ASSUME NEW p \in Paths, Edit(p) PROVE SoundInv'
  BY <1>2, <1>3 DEF Edit
<1>4. CASE Tick \/ UNCHANGED vars
  BY <1>2, <1>4 DEF Tick, vars
<1>5. QED
  BY <1>1, <1>3, <1>4, StepSound, NothingRots DEF Next, Environment

\* All four invariants hold always where no file rots.
LEMMA SoundAlways ==
    ASSUME OneAdds, MaxCorruptions = 0
    PROVE  Spec => [](IInv /\ TypeInv /\ LogInv /\ SoundInv)
<1>1. SoundInv /\ IInv /\ TypeInv /\ LogInv /\ [Next]_vars => SoundInv'
  BY NextSoundInv
<1>2. QED
  BY <1>1, InitSoundInv, LogAlways, PTL DEF Spec

\* The log are the complete snapshots in their order, as they were serialised.
LEMMA LogIs ==
    ASSUME TypeInv, LogInv, SoundInv
    PROVE  /\ Len(Log) \in Nat /\ Log \in Seq(Snapshot) /\ InOrder(Log)
           /\ HasAll(Ascending(Committed), Len(Log), Committed)
           /\ Committed \in SUBSET Nat /\ Committed \in SUBSET DOMAIN indexFiles
           /\ \A i \in 1..Len(Log) :
                Log[i].name = Ascending(Committed)[i] /\ Log[i].nodes = indexFiles[Log[i].name]
           /\ NamesOf(Log) = Committed
<1>1. PICK S : S = Committed
  OBVIOUS
<1>2. S \in SUBSET Names /\ S \in SUBSET Nat /\ S \in SUBSET DOMAIN indexFiles
      /\ \A n \in S : Intact(n)
  BY <1>1 DEF Committed, TypeInv, Disk, Names
<1>3. PICK names : names = Ascending(S)
  OBVIOUS
<1>4. PICK m \in Nat : m = Cardinality(S)
  BY <1>2, AscendingIs
<1>5. /\ names \in [1..m -> S] /\ Increasing(names)
      /\ \A x \in S : \E i \in 1..m : names[i] = x
  BY <1>2, <1>3, <1>4, AscendingIs
<1>6. PICK l : l = Log
  OBVIOUS
<1>7. l = [i \in 1..m |-> [name |-> names[i], nodes |-> indexFiles[names[i]]]]
  BY <1>1, <1>3, <1>5, <1>6 DEF Log
<1>8. \A i \in 1..m : [name |-> names[i], nodes |-> indexFiles[names[i]]] \in Snapshot
  BY <1>2, <1>5, IntactIs
<1>9. l \in [1..m -> Snapshot]
      /\ \A i \in 1..m : l[i].name = names[i] /\ l[i].nodes = indexFiles[names[i]]
  BY <1>7, <1>8
<1>10. l \in Seq(Snapshot) /\ Len(l) = m
  BY <1>9
<1>11. NamesOf(l) = S
  BY <1>5, <1>9, <1>10 DEF NamesOf
<1>12. InOrder(l)
  <2>1. \A i, j \in 1..m : i < j => l[i].name < l[j].name
    BY <1>5, <1>9 DEF Increasing
  <2>2. \A j \in 1..m : l[j].name \in DOMAIN written /\ l[j].nodes = written[l[j].name].nodes
    <3>1. \A n \in S : n \in DOMAIN written /\ indexFiles[n] = written[n].nodes
      BY <1>2 DEF LogInv, Serialised
    <3>2. QED
      BY <1>5, <1>9, <3>1
  <2>3. ASSUME NEW n \in S, NEW x \in DOMAIN written, x < n PROVE x \in S
    <3>1. x \in DOMAIN indexFiles
      BY DEF LogInv, Serialised
    <3>2. Intact(x)
      BY <1>2, <2>3, <3>1 DEF SoundInv
    <3>3. QED
      BY <1>1, <3>1, <3>2 DEF Committed
  <2>4. QED
    BY <1>10, <1>11, <2>1, <2>2, <2>3 DEF InOrder
<1>13. HasAll(names, m, S)
  BY <1>5 DEF HasAll
<1>14. QED
  BY <1>1, <1>2, <1>3, <1>6, <1>9, <1>10, <1>11, <1>12, <1>13

\* Where no file rots: however many programs are killed with the names they have taken,
\* the snapshot that one is read in after is the one that it was compared with when it
\* was added (Snapshot::FindDataSnapshot follows the order of the names, and no index
\* file holds the name of its base).
THEOREM BasesAreThePrevious == OneAdds /\ MaxCorruptions = 0 => (Spec => []BaseIsPrevious)
<1> SUFFICES ASSUME OneAdds, MaxCorruptions = 0 PROVE Spec => []BaseIsPrevious
  OBVIOUS
<1>1. TypeInv /\ LogInv /\ SoundInv => BaseIsPrevious
  <2> SUFFICES ASSUME TypeInv, LogInv, SoundInv, NEW i \in DOMAIN Log
               PROVE  written[Log[i].name].base = IF i = 1 THEN NoName ELSE Log[i - 1].name
    BY DEF BaseIsPrevious
  <2>1. PICK l : l = Log
    OBVIOUS
  <2>2. l \in Seq(Snapshot) /\ InOrder(l)
    BY <2>1, LogIs
  <2>3. i \in 1..Len(l)
    BY <2>1, <2>2
  <2>4. written[l[i].name].base = IF i = 1 THEN NoName ELSE l[i - 1].name
    BY <2>2, <2>3, InOrderIsBased
  <2>5. QED
    BY <2>1, <2>4
<1>2. QED
  BY <1>1, SoundAlways, PTL

-----------------------------------------------------------------------------
(* A backup directory implements a log that only grows, where no file rots. *)

\* What the log holds, and when it can be read.
Logged == [i \in DOMAIN Log |-> [p \in Paths |-> Restored(Log, i, p)]]
Readable == DOMAIN indexFiles = Committed

\* A node is restored from the volume of the last snapshot that owns it, which has it.
RestoredFrom(d, i, p) ==
    /\ d \in 1..i /\ IsLastOwner(d, Log, i, p)
    /\ Log[d].name \in DOMAIN volumes /\ p \in DOMAIN volumes[Log[d].name]
    /\ Restored(Log, i, p) = volumes[Log[d].name][p]
    /\ Restored(Log, i, p) \in Versions

\* The log, its snapshots and what they restore.
LogFacts ==
    /\ Len(Log) \in Nat /\ Len(Log) = Cardinality(Committed) /\ IsFiniteSet(Committed)
    /\ DOMAIN Log = 1..Len(Log)
    /\ Committed \in SUBSET Nat
    /\ HasAll(Ascending(Committed), Len(Log), Committed)
    /\ Log = [i \in 1..Len(Log) |->
                [name |-> Ascending(Committed)[i], nodes |-> indexFiles[Ascending(Committed)[i]]]]
    /\ \A i \in 1..Len(Log), p \in Paths : \E d : RestoredFrom(d, i, p)

\* The log has these facts.
LEMMA LogHasFacts == TypeInv /\ LogInv /\ SoundInv => LogFacts
<1> SUFFICES ASSUME TypeInv, LogInv, SoundInv PROVE LogFacts
  OBVIOUS
<1>1. PICK S : S = Committed
  OBVIOUS
<1>2. S \in SUBSET Names /\ \A n \in S : Intact(n)
  BY <1>1 DEF Committed, TypeInv, Disk
<1>3. PICK names : names = Ascending(S)
  OBVIOUS
<1>4. PICK m \in Nat : m = Cardinality(S)
  BY <1>2, AscendingIs
<1>5. names \in [1..m -> S]
  BY <1>2, <1>3, <1>4, AscendingIs
<1>6. PICK l : l = Log
  OBVIOUS
<1>7. l = [i \in 1..m |-> [name |-> names[i], nodes |-> indexFiles[names[i]]]]
  BY <1>1, <1>3, <1>5, <1>6 DEF Log
<1>8. l \in Seq(Snapshot) /\ InOrder(l) /\ Len(l) \in Nat
  BY <1>6, LogIs
<1>9. DOMAIN l = 1..m /\ DOMAIN l = 1..Len(l)
  BY <1>7, <1>8
<1>10. Len(l) = m
  BY <1>8, <1>9
<1>11. Linked(l)
  BY <1>8, InOrderIsLinked
<1>12. IsFiniteSet(S)
  <2>1. IsFiniteSet(1..MaxClock)
    BY BoundsAssumption, FS_Interval
  <2>2. QED
    BY <1>2, <2>1, FS_Subset DEF Names
<1>13. HasAll(names, Len(l), S) /\ S \in SUBSET Nat
  BY <1>1, <1>3, <1>6, LogIs
<1>14. ASSUME NEW i \in 1..Len(l), NEW p \in Paths PROVE \E d : RestoredFrom(d, i, p)
  <2>1. PICK d : d = FindDataSnapshot(l, i, p)
    OBVIOUS
  <2>2. d \in 1..i /\ l[d].nodes[p].owns /\ d \in 1..Len(l)
    BY ONLY <1>8, <1>11, <2>1, i \in 1..Len(l), p \in Paths, OwnerHasContents
  <2>3. IsLastOwner(d, l, i, p)
    <3>1. i \in Nat
      OBVIOUS
    <3>2. QED
      BY <2>1, <3>1, FindIsLastOwner
  <2>4. PICK n : n = l[d].name
    OBVIOUS
  <2>5. n \in S /\ l[d].nodes = indexFiles[n]
    BY <1>5, <1>7, <1>10, <2>2, <2>4
  <2>6. Intact(n) /\ n \in DOMAIN indexFiles /\ indexFiles[n] # Empty
    BY <1>2, <2>5, IntactIs
  <2>7. p \in StoredOf(n)
    BY <2>2, <2>5, <2>6 DEF TypeInv, Disk, OwnedBy
  <2>8. n \in DOMAIN volumes /\ p \in DOMAIN volumes[n]
    BY <2>7 DEF StoredOf
  <2>9. d # 0
    BY <2>2
  <2>10. Restored(Log, i, p) = volumes[n][p]
    BY <1>6, <2>1, <2>4, <2>8, <2>9 DEF Restored, Read
  <2>11. volumes[n][p] \in Versions
    BY <2>8 DEF SoundInv
  <2>12. RestoredFrom(d, i, p)
    BY <1>6, <2>2, <2>3, <2>4, <2>8, <2>10, <2>11 DEF RestoredFrom
  <2>13. QED
    BY <2>12
<1>15. QED
  BY <1>1, <1>3, <1>4, <1>6, <1>7, <1>9, <1>10, <1>12, <1>13, <1>14 DEF LogFacts

\* What a snapshot restores to stays as it is, whatever follows it.
LEMMA RestoresTheSame ==
    ASSUME LogFacts, LogFacts', VolumesKept, Len(Log) <= Len(Log)',
           \A i \in 1..Len(Log) : Log'[i] = Log[i],
           NEW i \in 1..Len(Log), NEW p \in Paths
    PROVE  Restored(Log, i, p)' = Restored(Log, i, p)
<1>1. Len(Log) \in Nat /\ Len(Log)' \in Nat
  BY DEF LogFacts
<1>2. i \in 1..Len(Log)' /\ i \in Nat
  BY <1>1
<1>3. PICK d : RestoredFrom(d, i, p)
  BY DEF LogFacts
<1>4. PICK e : RestoredFrom(e, i, p)'
  BY <1>2 DEF LogFacts
<1>5. PICK l : l = Log
  OBVIOUS
<1>6. PICK k : k = Log'
  OBVIOUS
<1>7. IsLastOwner(d, l, i, p) /\ d \in 1..i
  BY <1>3, <1>5 DEF RestoredFrom
<1>8. IsLastOwner(e, k, i, p) /\ e \in 1..i
  BY <1>4, <1>6 DEF RestoredFrom
<1>9. \A j \in 1..i : k[j] = l[j]
  BY <1>1, <1>5, <1>6
<1>10. IsLastOwner(e, l, i, p)
  BY <1>2, <1>8, <1>9 DEF IsLastOwner
<1>11. e = d
  BY ONLY <1>2, <1>7, <1>10, LastOwnerIsOne
<1>12. k[d].name = l[d].name
  BY <1>7, <1>9
<1>13. Restored(Log, i, p) = volumes[l[d].name][p] /\ l[d].name \in DOMAIN volumes
       /\ p \in DOMAIN volumes[l[d].name]
  BY <1>3, <1>5 DEF RestoredFrom
<1>14. Restored(Log, i, p)' = volumes'[k[d].name][p]
  BY <1>4, <1>6, <1>11 DEF RestoredFrom
<1>15. QED
  BY <1>12, <1>13, <1>14 DEF VolumesKept

\* A step after which the same snapshots are complete leaves the log as it is.
LEMMA SameLog ==
    ASSUME LogFacts, LogFacts', VolumesKept, Committed' = Committed,
           \A n \in Committed : indexFiles'[n] = indexFiles[n]
    PROVE  Logged' = Logged
<1>1. PICK names : names = Ascending(Committed)
  OBVIOUS
<1>2. names = Ascending(Committed)' /\ Len(Log)' = Len(Log)
  BY <1>1 DEF LogFacts
<1>3. PICK m \in Nat : m = Len(Log)
  BY DEF LogFacts
<1>4. names \in [1..m -> Committed]
  BY <1>1, <1>3 DEF LogFacts, HasAll
<1>5. /\ Log = [i \in 1..m |-> [name |-> names[i], nodes |-> indexFiles[names[i]]]]
      /\ Log' = [i \in 1..m |-> [name |-> names[i], nodes |-> indexFiles'[names[i]]]]
  BY <1>1, <1>2, <1>3 DEF LogFacts
<1>6. \A i \in 1..m : Log'[i] = Log[i]
  BY <1>4, <1>5
<1>7. DOMAIN Log = 1..m /\ DOMAIN Log' = 1..m
  BY <1>5
<1>8. \A i \in 1..m, p \in Paths : Restored(Log, i, p)' = Restored(Log, i, p)
  BY <1>2, <1>3, <1>6, RestoresTheSame
<1>9. QED
  BY <1>7, <1>8 DEF Logged

\* A step after which the same files are there and the same snapshots are complete.
LEMMA SilentStep ==
    ASSUME LogFacts, LogFacts', VolumesKept, DOMAIN indexFiles' = DOMAIN indexFiles,
           Committed' = Committed, \A n \in Committed : indexFiles'[n] = indexFiles[n]
    PROVE  UNCHANGED <<Logged, Readable>>
BY SameLog DEF Readable

\* Creating an index file makes the log unreadable, which it was not before.
LEMMA CreateIndexBegins ==
    ASSUME OneAdds, IInv, TypeInv, LogInv, SoundInv, LogFacts, LogFacts', VolumesKept,
           NEW g \in Programs, CreateIndex(g)
    PROVE  \/ UNCHANGED <<Logged, Readable>>
           \/ Readable = TRUE /\ Readable' = FALSE /\ UNCHANGED Logged
<1>1. CASE ~CanCreate(indexFiles, program[g].name)
  <2>1. UNCHANGED <<indexFiles, hashFiles>>
    BY <1>1 DEF CreateIndex
  <2>2. QED
    BY <2>1, SilentStep DEF Committed, Intact, Parsed
<1>2. CASE CanCreate(indexFiles, program[g].name)
  <2>1. PICK n : n = program[g].name
    OBVIOUS
  <2>2. /\ UNCHANGED hashFiles /\ indexFiles' = Extend(indexFiles, n, Empty)
        /\ n \notin DOMAIN indexFiles
        /\ program[g].pc \in NamedPhases /\ program[g].pc \in Unserialised
    BY <1>2, <2>1 DEF CreateIndex, CanCreate, At, NamedPhases, Unserialised
  <2>3. /\ DOMAIN indexFiles' = DOMAIN indexFiles \cup {n} /\ indexFiles'[n] = Empty
        /\ \A m \in DOMAIN indexFiles : indexFiles'[m] = indexFiles[m]
    BY <2>2 DEF Extend
  <2>4. Adds(g) /\ Knows(g)
    BY <2>2, NamedAdds
  <2>5. DOMAIN indexFiles \subseteq NamesOf(program[g].loaded)
    BY <2>2, <2>4 DEF Knows
  <2>6. Readable = TRUE
    BY <2>5 DEF Readable, Committed, SoundInv
  <2>7. ~Intact(n)'
    BY <2>3 DEF Intact, Parsed
  <2>8. \A m \in DOMAIN indexFiles : Intact(m)' <=> Intact(m)
    BY <2>2, <2>3 DEF Intact, Parsed
  <2>9. Committed' = Committed /\ \A m \in Committed : indexFiles'[m] = indexFiles[m]
    BY <2>3, <2>7, <2>8 DEF Committed
  <2>10. Readable' = FALSE
    BY <2>3, <2>7 DEF Readable, Committed
  <2>11. QED
    BY <2>6, <2>9, <2>10, SameLog
<1>3. QED
  BY <1>1, <1>2

\* Writing the hash file appends what the new snapshot restores to, and makes the log
\* readable again, which it was not before.
LEMMA WriteHashCommits ==
    ASSUME OneAdds, IInv, TypeInv, LogInv, SoundInv, LogFacts, LogFacts', VolumesKept,
           NEW g \in Programs, WriteHash(g)
    PROVE  \/ UNCHANGED <<Logged, Readable>>
           \/ /\ ~Readable /\ Readable' = TRUE
              /\ \E s \in [Paths -> Versions] : Logged' = Append(Logged, s)
<1>1. PICK n : n = program[g].name
  OBVIOUS
<1>2. PICK new : new = NewIndex(g)
  OBVIOUS
<1>3. /\ UNCHANGED indexFiles /\ hashFiles' = [hashFiles EXCEPT ![n] = new]
      /\ program[g].pc = "writeHash"
  BY <1>1, <1>2 DEF WriteHash, At
<1>4. program[g].pc \in NamedPhases /\ program[g].pc \in IndexCreated
      /\ program[g].pc \in HashCreated
  BY <1>3 DEF NamedPhases, IndexCreated, HashCreated
<1>5. /\ Adds(g) /\ Knows(g) /\ Adding(g) /\ n \in Nat
      /\ \A m \in DOMAIN indexFiles : m \in Nat /\ m <= n
  BY <1>1, <1>4, NamedAdds
<1>6. n \in DOMAIN hashFiles /\ n \in DOMAIN indexFiles /\ hashFiles[n] = Empty
  BY <1>1, <1>3, <1>4, <1>5 DEF Adding, Knows
<1>7. indexFiles[n] = new
  BY <1>1, <1>2, <1>3 DEF SoundInv
<1>8. /\ DOMAIN hashFiles' = DOMAIN hashFiles /\ hashFiles'[n] = new
      /\ \A m \in DOMAIN hashFiles : m # n => hashFiles'[m] = hashFiles[m]
  BY <1>3, <1>6
<1>9. \A m : m # n => (Intact(m)' <=> Intact(m))
  BY <1>3, <1>8 DEF Intact, Parsed
<1>10. ~Intact(n)
  BY <1>6 DEF Intact, Parsed
<1>11. CASE new = Empty
  <2>1. ~Intact(n)'
    BY <1>8, <1>11 DEF Intact, Parsed
  <2>2. Committed' = Committed
    BY <1>3, <1>9, <1>10, <2>1 DEF Committed
  <2>3. QED
    BY <1>3, <2>2, SilentStep
<1>12. CASE new # Empty
  <2>1. Intact(n)'
    BY <1>3, <1>6, <1>7, <1>8, <1>12 DEF Intact, Parsed
  <2>2. PICK S : S = Committed
    OBVIOUS
  <2>3. n \notin S /\ Committed' = S \cup {n}
    BY <1>3, <1>6, <1>9, <1>10, <2>1, <2>2 DEF Committed
  <2>4. ~Readable
    BY <1>6, <2>2, <2>3 DEF Readable
  <2>5. Readable' = TRUE
    <3>1. DOMAIN indexFiles \subseteq NamesOf(program[g].loaded) \cup {n}
      BY <1>1, <1>4, <1>5 DEF Knows
    <3>2. \A x \in DOMAIN indexFiles : x = n \/ Intact(x)
      BY <3>1 DEF SoundInv
    <3>3. QED
      BY <1>3, <1>9, <2>1, <3>2 DEF Readable, Committed
  <2>6. PICK T : T = Committed'
    OBVIOUS
  <2>7. PICK m \in Nat : m = Len(Log)
    BY DEF LogFacts
  <2>8. PICK k \in Nat : k = Len(Log)'
    BY DEF LogFacts
  <2>9. k = m + 1
    <3>1. IsFiniteSet(S) /\ m = Cardinality(S) /\ k = Cardinality(S \cup {n})
      BY <2>2, <2>3, <2>7, <2>8 DEF LogFacts
    <3>2. QED
      BY <2>3, <3>1, FS_AddElement
  <2>10. PICK s : s = Ascending(S)
    OBVIOUS
  <2>11. PICK t : t = Ascending(T)
    OBVIOUS
  <2>12. HasAll(s, m, S) /\ T \in SUBSET Nat /\ HasAll(t, k, T) /\ S \in SUBSET Nat
    <3>1. HasAll(s, m, S) /\ S \in SUBSET Nat
      BY <2>2, <2>7, <2>10 DEF LogFacts
    <3>2. HasAll(t, k, T) /\ T \in SUBSET Nat
      BY <2>6, <2>8, <2>11 DEF LogFacts
    <3>3. QED
      BY <3>1, <3>2
  <2>13. LeavesNoneOut(s, m, T)
    <3>1. s \in [1..m -> S] /\ Increasing(s) /\ \A x \in S : \E i \in 1..m : s[i] = x
      BY <2>12 DEF HasAll
    <3>2. s \in [1..m -> T]
      BY <2>3, <2>6, <3>1
    <3>3. ASSUME NEW x \in T, NEW i \in 1..m, x < s[i] PROVE \E j \in 1..m : s[j] = x
      <4>1. s[i] \in DOMAIN indexFiles
        BY <2>2, <3>1 DEF Committed
      <4>2. s[i] <= n /\ s[i] \in Nat
        BY <1>5, <4>1
      <4>3. x # n
        BY <1>5, <3>3, <4>2
      <4>4. x \in S
        BY <2>3, <2>6, <4>3
      <4>5. QED
        BY <3>1, <4>4
    <3>4. QED
      BY <3>1, <3>2, <3>3 DEF LeavesNoneOut
  <2>14. m <= k /\ \A i \in 1..m : s[i] = t[i]
    BY ONLY <2>12, <2>13, m \in Nat, k \in Nat, IncreasingBegins
  <2>15. /\ Log = [i \in 1..m |-> [name |-> s[i], nodes |-> indexFiles[s[i]]]]
         /\ Log' = [i \in 1..k |-> [name |-> t[i], nodes |-> indexFiles'[t[i]]]]
    BY <2>2, <2>6, <2>7, <2>8, <2>10, <2>11 DEF LogFacts
  <2>16. \A i \in 1..m : Log'[i] = Log[i]
    BY <1>3, <2>9, <2>14, <2>15
  <2>17. \A i \in 1..m, p \in Paths : Restored(Log, i, p)' = Restored(Log, i, p)
    BY <2>7, <2>8, <2>14, <2>16, RestoresTheSame
  <2>18. DOMAIN Log = 1..m /\ DOMAIN Log' = 1..k
    BY <2>15
  <2>19. \A i \in 1..m, p \in Paths : Restored(Log, i, p) \in Versions
    BY <2>7 DEF LogFacts, RestoredFrom
  <2>20. \A p \in Paths : Restored(Log, k, p)' \in Versions
    <3>1. k \in 1..k
      BY <2>9
    <3>2. \A p \in Paths : \E d : RestoredFrom(d, k, p)'
      BY <2>8, <3>1 DEF LogFacts
    <3>3. QED
      BY <3>2 DEF RestoredFrom, Versions
  <2>21. PICK old : old = Logged
    OBVIOUS
  <2>22. PICK last : last = [p \in Paths |-> Restored(Log, k, p)']
    OBVIOUS
  <2>23. last \in [Paths -> Versions]
    BY <2>20, <2>22
  <2>24. old = [i \in 1..m |-> [p \in Paths |-> Restored(Log, i, p)]]
    BY <2>18, <2>21 DEF Logged
  <2>25. old \in [1..m -> [Paths -> Versions]]
    BY <2>19, <2>24
  <2>26. Logged' = [i \in 1..k |-> [p \in Paths |-> Restored(Log, i, p)']]
    BY <2>18 DEF Logged
  <2>27. Logged' = [i \in 1..m + 1 |-> IF i = m + 1 THEN last ELSE old[i]]
    <3>1. \A i \in 1..k : i = k \/ i \in 1..m
      BY <2>9
    <3>2. \A i \in 1..m : [p \in Paths |-> Restored(Log, i, p)'] = old[i]
      BY <2>17, <2>24
    <3>3. QED
      BY <2>9, <2>22, <2>26, <3>1, <3>2
  <2>28. Append(old, last) = [i \in 1..m + 1 |-> IF i = m + 1 THEN last ELSE old[i]]
    <3>1. old \in Seq([Paths -> Versions]) /\ Len(old) = m
      BY <2>25
    <3>2. PICK a : a = Append(old, last)
      OBVIOUS
    <3>3. a \in Seq([Paths -> Versions]) /\ Len(a) = m + 1
          /\ \A i \in 1..m : a[i] = old[i]
      BY <2>23, <3>1, <3>2
    <3>4. a = [i \in 1..m + 1 |-> a[i]]
      BY <3>3
    <3>5. \A i \in 1..m + 1 : a[i] = IF i = m + 1 THEN last ELSE old[i]
      <4>1. \A i \in 1..m + 1 : i = m + 1 \/ i \in 1..m
        OBVIOUS
      <4>2. a[m + 1] = last
        BY <2>23, <3>1, <3>2
      <4>3. QED
        BY <3>3, <4>1, <4>2
    <3>6. QED
      BY <3>2, <3>4, <3>5
  <2>29. QED
    BY <2>4, <2>5, <2>21, <2>23, <2>27, <2>28
<1>13. QED
  BY <1>11, <1>12

\* A step that creates or writes no index and no hash file, or that does so before they
\* are complete.
LEMMA CompletesNothing ==
    ASSUME IInv, TypeInv, LogInv, LogFacts, LogFacts', VolumesKept,
           \/ UNCHANGED <<indexFiles, hashFiles>>
           \/ \E g \in Programs : WriteIndex(g) \/ CreateHash(g)
    PROVE  UNCHANGED <<Logged, Readable>>
<1>1. CASE UNCHANGED <<indexFiles, hashFiles>>
  BY <1>1, SilentStep DEF Committed, Intact, Parsed
<1>2. ASSUME NEW g \in Programs, WriteIndex(g) PROVE UNCHANGED <<Logged, Readable>>
  <2>1. PICK n : n = program[g].name
    OBVIOUS
  <2>2. /\ program[g].pc = "writeIndex" /\ UNCHANGED hashFiles
        /\ indexFiles' = [indexFiles EXCEPT ![n] = NewIndex(g)]
    BY <1>2, <2>1 DEF WriteIndex, At
  <2>3. Knows(g) /\ Adds(g)
    BY <2>2, NamedAdds DEF NamedPhases
  <2>4. n \notin DOMAIN hashFiles
    BY <2>1, <2>2, <2>3 DEF Knows
  <2>5. /\ DOMAIN indexFiles' = DOMAIN indexFiles
        /\ \A m \in DOMAIN indexFiles : m # n => indexFiles'[m] = indexFiles[m]
    BY <2>2
  <2>6. \A m \in DOMAIN indexFiles : Intact(m)' <=> Intact(m)
    BY <2>2, <2>4, <2>5 DEF Intact, Parsed
  <2>7. Committed' = Committed /\ n \notin Committed
    BY <2>4, <2>5, <2>6 DEF Committed, Intact, Parsed
  <2>8. \A m \in Committed : indexFiles'[m] = indexFiles[m]
    BY <2>5, <2>7 DEF Committed
  <2>9. QED
    BY <2>5, <2>7, <2>8, SilentStep
<1>3. ASSUME NEW g \in Programs, CreateHash(g) PROVE UNCHANGED <<Logged, Readable>>
  <2>1. CASE ~CanCreate(hashFiles, program[g].name)
    BY <1>1, <1>3, <2>1 DEF CreateHash
  <2>2. CASE CanCreate(hashFiles, program[g].name)
    <3>1. PICK n : n = program[g].name
      OBVIOUS
    <3>2. /\ UNCHANGED indexFiles /\ hashFiles' = Extend(hashFiles, n, Empty)
          /\ n \notin DOMAIN hashFiles
      BY <1>3, <2>2, <3>1 DEF CreateHash, CanCreate
    <3>3. /\ DOMAIN hashFiles' = DOMAIN hashFiles \cup {n} /\ hashFiles'[n] = Empty
          /\ \A m \in DOMAIN hashFiles : hashFiles'[m] = hashFiles[m]
      BY <3>2 DEF Extend
    <3>4. \A m : Intact(m)' <=> Intact(m)
      BY <3>2, <3>3 DEF Intact, Parsed
    <3>5. Committed' = Committed
      BY <3>2, <3>4 DEF Committed
    <3>6. QED
      BY <3>2, <3>5, SilentStep
  <2>3. QED
    BY <2>1, <2>2
<1>4. QED
  BY <1>1, <1>2, <1>3

\* Every step is one of the log, or none.
LEMMA StepIsOfLog ==
    OneAdds /\ MaxCorruptions = 0 /\ IInv /\ TypeInv /\ LogInv /\ SoundInv
    /\ LogFacts /\ LogFacts' /\ [Next]_vars
        => [SnapshotLog!Next]_SnapshotLog!logVars
<1> SUFFICES ASSUME OneAdds, MaxCorruptions = 0, IInv, TypeInv, LogInv, SoundInv,
                    LogFacts, LogFacts', [Next]_vars
             PROVE  SnapshotLog!Next \/ UNCHANGED SnapshotLog!logVars
  OBVIOUS
<1>1. ASSUME UNCHANGED <<Logged, Readable>>
      PROVE  SnapshotLog!Next \/ UNCHANGED SnapshotLog!logVars
  BY <1>1 DEF Logged, Readable, SnapshotLog!logVars
<1>2. ASSUME Readable = TRUE, Readable' = FALSE, UNCHANGED Logged PROVE SnapshotLog!Next
  BY <1>2 DEF Logged, Readable, SnapshotLog!Next, SnapshotLog!BeginAppend
<1>3. ASSUME ~Readable, Readable' = TRUE, NEW s \in [Paths -> Versions],
             Logged' = Append(Logged, s)
      PROVE  SnapshotLog!Next
  BY <1>3 DEF Logged, Readable, SnapshotLog!Next, SnapshotLog!Commit
<1>4. ASSUME NEW g \in Programs, Step(g)
      PROVE  SnapshotLog!Next \/ UNCHANGED SnapshotLog!logVars
  <2>1. VolumesKept
    BY <1>4, StepKeepsVolumes
  <2>2. CASE CreateIndex(g)
    BY <1>1, <1>2, <2>1, <2>2, CreateIndexBegins
  <2>3. CASE WriteHash(g)
    BY <1>1, <1>3, <2>1, <2>3, WriteHashCommits
  <2>4. CASE WriteIndex(g) \/ CreateHash(g)
    BY <1>1, <2>1, <2>4, CompletesNothing
  <2>5. CASE ~(CreateIndex(g) \/ WriteIndex(g) \/ CreateHash(g) \/ WriteHash(g))
    <3>1. UNCHANGED <<indexFiles, hashFiles>>
      BY <1>4, <2>5 DEF Step, Start, ReadInSnapshots, ListSnapshotMetadataFiles, Deserialize,
         SnapshotsAreRead, AddSnapshot, BeginSnapshot, PipeNode, AllPiped, ProtectData,
         UnprotectIndex, ProtectFiles, ProtectIndex, Check, Verify, disk
    <3>2. QED
      BY <1>1, <2>1, <3>1, CompletesNothing
  <2>6. QED
    BY <2>2, <2>3, <2>4, <2>5
<1>5. ASSUME UNCHANGED disk PROVE SnapshotLog!Next \/ UNCHANGED SnapshotLog!logVars
  <2>1. VolumesKept
    BY <1>5 DEF disk, VolumesKept, SoundInv
  <2>2. QED
    BY <1>1, <1>5, <2>1, CompletesNothing DEF disk
<1>6. QED
  BY <1>4, <1>5, NothingRots DEF Next, Environment, Edit, Tick, Kill, vars

\* An empty backup directory is an empty log.
LEMMA InitIsOfLog == Init => SnapshotLog!Init
<1> SUFFICES ASSUME Init PROVE SnapshotLog!Init
  OBVIOUS
<1>1. DOMAIN indexFiles = {}
  BY DEF Init
<1>2. Committed = {}
  BY <1>1 DEF Committed
<1>3. PICK names : names = Ascending(Committed)
  OBVIOUS
<1>4. names \in [1..0 -> {}]
  <2>1. Cardinality({}) = 0 /\ {} \in SUBSET Names
    BY FS_EmptySet
  <2>2. QED
    BY <1>2, <1>3, <2>1, AscendingIs
<1>5. DOMAIN Log = 1..0
  BY <1>3, <1>4 DEF Log
<1>6. Logged = <<>>
  BY <1>5 DEF Logged
<1>7. QED
  BY <1>1, <1>2, <1>6 DEF Logged, SnapshotLog!Init

\* Where no file rots, and wherever programs are killed: a backup directory is a log of
\* what its snapshots restore to.  Only the hash file of a new snapshot appends to it, and
\* neither what an older snapshot restores to nor how many there are ever changes; from
\* the creation of an index file to its hash the log cannot be read, and where a program
\* is killed between them it never can (Snapshot::Serialize, SnapshotManager::AddSnapshot).
THEOREM StoreImplementsLog ==
    OneAdds /\ MaxCorruptions = 0 => (Spec => ImplementsSnapshotLog)
<1> SUFFICES ASSUME OneAdds, MaxCorruptions = 0 PROVE Spec => ImplementsSnapshotLog
  OBVIOUS
<1>1. IInv /\ TypeInv /\ LogInv /\ SoundInv /\ LogFacts /\ LogFacts' /\ [Next]_vars
        => [SnapshotLog!Next]_SnapshotLog!logVars
  BY StepIsOfLog
<1>2. Init => SnapshotLog!Init
  BY InitIsOfLog
<1>3. Spec => [](IInv /\ TypeInv /\ LogInv /\ SoundInv)
  BY SoundAlways
<1>4. QED
  BY <1>1, <1>2, <1>3, LogHasFacts, PTL DEF Spec, ImplementsSnapshotLog, SnapshotLog!Spec

=============================================================================
