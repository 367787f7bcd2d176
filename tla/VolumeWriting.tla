--------------------------- MODULE VolumeWriting ---------------------------
(***************************************************************************)
(* The write side of FlatVolumesFileSystem: the tasks of a snapshot's      *)
(* thread pool each pipe one file through a VolumesOutputStream into       *)
(* volumes, numbered files of at most VolumeSize bytes.  The open volumes  *)
(* are a list guarded by openVolumesMutex; a volume belongs to at most one *)
(* stream while it is written, and the bytes are written outside of the    *)
(* lock.  When all streams are closed the main thread write-protects.      *)
(*                                                                         *)
(* The i-th byte of file f is the pair <<f, i>>.  The list openVolumes is a*)
(* function from volume numbers to records: volumes are appended with      *)
(* ascending numbers, so list order is the order of the numbers.           *)
(***************************************************************************)
EXTENDS Integers, Sequences, FiniteSets

CONSTANTS
    Files,          \* the files whose data the snapshot backs up
    NoWriter,       \* nullptr as the owner of a volume
    NumThreads,     \* size of the StaticThreadPool
    VolumeSize,     \* Config.volumeSize, in bytes
    UInt32Size,     \* 2^32, the number of values of a uint32
    MaxBytes,       \* bound: bytes that are piped into one file
    MaxCall         \* bound: bytes of one call of WriteBytes

ASSUME NoWriterAssumption == NoWriter \notin Files
ASSUME SizesAssumption ==
    /\ NumThreads \in Nat \ {0}
    /\ VolumeSize \in Nat \ {0}
    /\ UInt32Size \in Nat \ {0}
    /\ MaxBytes \in Nat
    /\ MaxCall \in Nat

VARIABLES
    nextVolumeNumber,   \* writing.nextVolumeNumber
    openVolumes,        \* writing.openVolumes: number -> [leftSize, ownedWriter]
    volume,             \* the volume files on disk: number -> sequence of bytes
    blocks,             \* BackupNodeAttributes.blocks of every file
    writeProtected,     \* FlatVolumesFileSystem::WriteProtect has been called
    pc,                 \* where the task of a file is
    written,            \* bytes of a file that its stream has written so far
    size,               \* WriteBytes: what is left of the running call
    stream,             \* WriteBytes: the volume FindStream returned
    bytesToWrite,       \* WriteBytes: the local of that name
    offset,             \* WriteBytes: the local of that name
    nBytesWritten       \* WriteBytes: the local of that name

locals == <<size, stream, bytesToWrite, offset, nBytesWritten>>
vars == <<nextVolumeNumber, openVolumes, volume, blocks, writeProtected, pc,
          written, locals>>

-----------------------------------------------------------------------------
Bytes == Files \X (Nat \ {0})
Block == [volumeNumber : Nat, offset : Nat, size : Nat]

\* The n bytes at src, after the first ones; a src that stays at the call's start.
ChunkNotAdvanced(f, first, n) == [i \in 1..n |-> <<f, i>>]
Chunk(f, first, n) == [i \in 1..n |-> <<f, first + i>>]

IsFirst(v, S) == v \in S /\ \A u \in S : v <= u
IsLast(v, S) == v \in S /\ \A u \in S : u <= v

\* writing.openVolumes is searched for the entry of a writer, or a free one.
OwnedBy(w) == {v \in DOMAIN openVolumes : openVolumes[v].ownedWriter = w}
SetOwner(v, w) == [openVolumes EXCEPT ![v].ownedWriter = w]

\* The tasks a thread of the pool has taken and not finished.
Running == {f \in Files : pc[f] \notin {"queued", "closed"}}

\* Math::Min( (uint32)leftSize, (uint32)size ): leftSize is 64 bits wide.
WholeCall(leftSize, count) == count
NarrowedMin(leftSize, count) ==
    LET left32 == leftSize % UInt32Size
    IN  IF left32 < count THEN left32 ELSE count

Contiguous(b, c) ==
    b.volumeNumber = c.volumeNumber /\ b.offset + b.size = c.offset

\* BackupNodeAttributes::AddBlock; and with = for its +=.
AddBlockReplacing(bs, b) ==
    LET n == Len(bs)
    IN  IF n > 0 /\ Contiguous(bs[n], b)
        THEN [bs EXCEPT ![n].size = b.size]
        ELSE Append(bs, b)
AddBlock(bs, b) ==
    LET n == Len(bs)
    IN  IF n > 0 /\ Contiguous(bs[n], b)
        THEN [bs EXCEPT ![n].size = @ + b.size]
        ELSE Append(bs, b)

-----------------------------------------------------------------------------
Init ==
    /\ nextVolumeNumber = 0
    /\ openVolumes = <<>>
    /\ volume = <<>>
    /\ blocks = [f \in Files |-> <<>>]
    /\ writeProtected = FALSE
    /\ pc = [f \in Files |-> "queued"]
    /\ written = [f \in Files |-> 0]
    /\ size = [f \in Files |-> 0]
    /\ stream = [f \in Files |-> 0]
    /\ bytesToWrite = [f \in Files |-> 0]
    /\ offset = [f \in Files |-> 0]
    /\ nBytesWritten = [f \in Files |-> 0]

\* A free thread takes the task of f and BackupNode opens the stream.
CreateFile(f) ==
    /\ pc[f] = "queued"
    /\ Cardinality(Running) < NumThreads
    /\ pc' = [pc EXCEPT ![f] = "open"]
    /\ UNCHANGED <<nextVolumeNumber, openVolumes, volume, blocks,
                   writeProtected, written, locals>>

\* The block buffer (or the compressor) above the stream emits n bytes.
WriteBytes(f, n) ==
    /\ pc[f] = "open"
    /\ written[f] + n <= MaxBytes
    /\ size' = [size EXCEPT ![f] = n]
    /\ pc' = [pc EXCEPT ![f] = "find"]
    /\ UNCHANGED <<nextVolumeNumber, openVolumes, volume, blocks,
                   writeProtected, written, stream, bytesToWrite, offset,
                   nBytesWritten>>

\* What WriteBytes does with the volume v and its leftSize from FindStream.
Found(f, v, leftSize) ==
    /\ stream' = [stream EXCEPT ![f] = v]
    /\ bytesToWrite' = [bytesToWrite EXCEPT ![f] = NarrowedMin(leftSize, size[f])]
    /\ pc' = [pc EXCEPT ![f] = "offset"]
    /\ UNCHANGED <<blocks, writeProtected, written, size, offset, nBytesWritten>>

FindOwn(f) ==
    \E v \in OwnedBy(f) :
        /\ IsFirst(v, OwnedBy(f))
        /\ Found(f, v, openVolumes[v].leftSize)
        /\ UNCHANGED <<nextVolumeNumber, openVolumes, volume>>

\* free->ownedWriter = writer; and without the assignment.
ShareFree(v, f) == openVolumes' = openVolumes
TakeFree(v, f) == openVolumes' = SetOwner(v, f)

\* The scan keeps the last free entry it meets.
FindFree(f) ==
    /\ OwnedBy(f) = {}
    /\ \E v \in OwnedBy(NoWriter) :
        /\ IsLast(v, OwnedBy(NoWriter))
        /\ TakeFree(v, f)
        /\ Found(f, v, openVolumes[v].leftSize)
    /\ UNCHANGED <<nextVolumeNumber, volume>>

\* nextVolumeNumber++, the old value; and ++nextVolumeNumber, the new one.
PreIncremented == nextVolumeNumber + 1
NewNumber == nextVolumeNumber

FindNew(f) ==
    /\ OwnedBy(f) = {}
    /\ OwnedBy(NoWriter) = {}
    /\ openVolumes' =
        [v \in DOMAIN openVolumes \cup {NewNumber} |->
            IF v = NewNumber
            THEN [leftSize |-> VolumeSize, ownedWriter |-> f]
            ELSE openVolumes[v]]
    /\ volume' = [v \in DOMAIN volume \cup {NewNumber} |->
                    IF v = NewNumber THEN <<>> ELSE volume[v]]
    /\ nextVolumeNumber' = nextVolumeNumber + 1
    /\ Found(f, NewNumber, VolumeSize)

\* FindStream: one critical section of openVolumesMutex.
FindStream(f) ==
    /\ pc[f] = "find"
    /\ FindOwn(f) \/ FindFree(f) \/ FindNew(f)

\* outputStream.QueryCurrentOffset(): volume files are only appended to.
QueryCurrentOffset(f) ==
    /\ pc[f] = "offset"
    /\ offset' = [offset EXCEPT ![f] = Len(volume[stream[f]])]
    /\ pc' = [pc EXCEPT ![f] = "write"]
    /\ UNCHANGED <<nextVolumeNumber, openVolumes, volume, blocks,
                   writeProtected, written, size, stream, bytesToWrite,
                   nBytesWritten>>

\* outputStream.WriteBytes() appends some of the bytes and tells how many;
\* src and size move on.  A write of at least one byte makes progress.
WriteToVolume(f, n) ==
    /\ pc[f] = "write"
    /\ n <= bytesToWrite[f]
    /\ n = 0 => bytesToWrite[f] = 0
    /\ volume' = [volume EXCEPT ![stream[f]] = @ \o Chunk(f, written[f], n)]
    /\ written' = [written EXCEPT ![f] = @ + n]
    /\ size' = [size EXCEPT ![f] = @ - n]
    /\ nBytesWritten' = [nBytesWritten EXCEPT ![f] = n]
    /\ pc' = [pc EXCEPT ![f] = "record"]
    /\ UNCHANGED <<nextVolumeNumber, openVolumes, blocks, writeProtected,
                   stream, bytesToWrite, offset>>

\* leftSize -= nBytesWritten, and a full volume leaves the list and is closed;
\* a full volume stays in the list.
KeepFull(v, left) == openVolumes' = [openVolumes EXCEPT ![v].leftSize = left]
SetLeftSize(v, left) ==
    openVolumes' = IF left = 0
                   THEN [u \in DOMAIN openVolumes \ {v} |-> openVolumes[u]]
                   ELSE [openVolumes EXCEPT ![v].leftSize = left]

\* BytesWereWrittenToVolume, a second critical section, and the loop's test.
BytesWereWrittenToVolume(f) ==
    /\ pc[f] = "record"
    /\ \E v \in OwnedBy(f) :
        /\ IsFirst(v, OwnedBy(f))
        /\ blocks' = [blocks EXCEPT ![f] =
                        AddBlock(@, [volumeNumber |-> v, offset |-> offset[f],
                                     size |-> nBytesWritten[f]])]
        /\ SetLeftSize(v, openVolumes[v].leftSize - nBytesWritten[f])
    /\ pc' = [pc EXCEPT ![f] = IF size[f] = 0 THEN "open" ELSE "find"]
    /\ UNCHANGED <<nextVolumeNumber, volume, writeProtected, written, locals>>

\* CloseFile without and with the release of the volume the stream still owns.
CloseKeepingVolume(f) == openVolumes' = openVolumes
ReleaseVolume(f) ==
    \/ \E v \in OwnedBy(f) : IsFirst(v, OwnedBy(f)) /\ openVolumes' = SetOwner(v, NoWriter)
    \/ OwnedBy(f) = {} /\ UNCHANGED openVolumes

\* The stream's destructor; also when piping fails before the file's end.
CloseFile(f) ==
    /\ pc[f] = "open"
    /\ ReleaseVolume(f)
    /\ pc' = [pc EXCEPT ![f] = "closed"]
    /\ UNCHANGED <<nextVolumeNumber, volume, blocks, writeProtected, written,
                   locals>>

\* AddSnapshot protects after WaitForAllTasksToComplete.
AllTasksComplete == \A f \in Files : pc[f] = "closed"
WriteProtect ==
    /\ AllTasksComplete
    /\ ~writeProtected
    /\ openVolumes' = <<>>
    /\ writeProtected' = TRUE
    /\ UNCHANGED <<nextVolumeNumber, volume, blocks, pc, written, locals>>

\* The write side is done; not a deadlock.
Finished == writeProtected /\ UNCHANGED vars

Step(f) ==
    \/ CreateFile(f)
    \/ \E n \in 1..MaxCall : WriteBytes(f, n)
    \/ FindStream(f)
    \/ QueryCurrentOffset(f)
    \/ \E n \in 0..MaxCall : WriteToVolume(f, n)
    \/ BytesWereWrittenToVolume(f)
    \/ CloseFile(f)

Next == (\E f \in Files : Step(f)) \/ WriteProtect \/ Finished

Spec == Init /\ [][Next]_vars

\* Every pool thread is scheduled, the critical sections are short, and a
\* source file ends: its task closes the stream after finitely many calls.
Fairness == (\A f \in Files : WF_vars(Step(f))) /\ WF_vars(WriteProtect)
FairSpec == Spec /\ Fairness

-----------------------------------------------------------------------------
\* The volumes, lists and locals of the writers have their types: volume files
\* exist for the numbers below nextVolumeNumber and only those can be open.
TypeOK ==
    /\ nextVolumeNumber \in Nat
    /\ DOMAIN openVolumes \subseteq 0..nextVolumeNumber - 1
    /\ openVolumes \in [DOMAIN openVolumes ->
                          [leftSize : Nat, ownedWriter : Files \cup {NoWriter}]]
    /\ volume \in [0..nextVolumeNumber - 1 -> Seq(Bytes)]
    /\ blocks \in [Files -> Seq(Block)]
    /\ writeProtected \in BOOLEAN
    /\ pc \in [Files -> {"queued", "open", "find", "offset", "write", "record",
                         "closed"}]
    /\ written \in [Files -> Nat]
    /\ size \in [Files -> Nat]
    /\ stream \in [Files -> Nat]
    /\ bytesToWrite \in [Files -> Nat]
    /\ offset \in [Files -> Nat]
    /\ nBytesWritten \in [Files -> Nat]

\* Between FindStream and BytesWereWrittenToVolume, outside of the lock.
Writing(f) == pc[f] \in {"offset", "write", "record"}

\* FindStream hands a volume to one stream: a stream that writes owns the open
\* volume it writes to, owns no second one, and only running tasks own any.
ExclusiveOwnership ==
    /\ \A f \in Files : Writing(f) =>
        /\ stream[f] \in DOMAIN openVolumes
        /\ openVolumes[stream[f]].ownedWriter = f
    /\ \A v \in DOMAIN openVolumes :
        openVolumes[v].ownedWriter \in Running \cup {NoWriter}
    /\ \A u, v \in DOMAIN openVolumes :
        /\ openVolumes[u].ownedWriter = openVolumes[v].ownedWriter
        /\ openVolumes[u].ownedWriter # NoWriter
        => u = v

\* Bytes that a stream has put into v and not yet subtracted from leftSize.
Pending(v) ==
    LET w == openVolumes[v].ownedWriter
    IN  IF w \in Files /\ pc[w] = "record" THEN nBytesWritten[w] ELSE 0

\* leftSize is what the volume file has left, whichever streams have shared the
\* volume; only a full volume leaves the list before the snapshot is protected;
\* no volume exceeds the configured size.
LeftSizeExact ==
    /\ \A v \in DOMAIN openVolumes :
        /\ openVolumes[v].leftSize > 0
        /\ openVolumes[v].leftSize + Len(volume[v]) = VolumeSize + Pending(v)
    /\ \A v \in DOMAIN volume : Len(volume[v]) <= VolumeSize
    /\ ~writeProtected => \A v \in DOMAIN volume \ DOMAIN openVolumes :
        Len(volume[v]) = VolumeSize

\* Bytes of f whose blocks are in the index.
Recorded(f) == IF pc[f] = "record" THEN written[f] - nBytesWritten[f] ELSE written[f]
InVolume(b) ==
    b.volumeNumber \in DOMAIN volume
    /\ b.offset + b.size <= Len(volume[b.volumeNumber])
ByteAt(b, j) == volume[b.volumeNumber][b.offset + j]
StartOf(b) == ByteAt(b, 1)[2] - 1

\* The blocks in the index, read in order, are the bytes that were piped into
\* the stream, in order: OpenFileForReading gets back what BackupNode wrote,
\* however the streams interleaved in the shared volumes.
BlocksReproduceFile ==
    \A f \in Files : LET bs == blocks[f] IN
        /\ \A k \in DOMAIN bs : bs[k].size > 0 /\ InVolume(bs[k])
        /\ \A k \in DOMAIN bs : \A j \in 1..bs[k].size :
            ByteAt(bs[k], j) = <<f, StartOf(bs[k]) + j>>
        /\ \A k \in 1..Len(bs) - 1 :
            StartOf(bs[k + 1]) = StartOf(bs[k]) + bs[k].size
        /\ IF bs = <<>> THEN Recorded(f) = 0
           ELSE /\ StartOf(bs[1]) = 0
                /\ StartOf(bs[Len(bs)]) + bs[Len(bs)].size = Recorded(f)

BlockRefs == UNION {{f} \X DOMAIN blocks[f] : f \in Files}
Covers(r, v, p) ==
    LET b == blocks[r[1]][r[2]]
    IN  b.volumeNumber = v /\ b.offset < p /\ p <= b.offset + b.size

\* When all streams are closed every byte of every volume belongs to exactly
\* one block: no two files' blocks overlap and no space is lost.
EveryByteInOneBlock ==
    AllTasksComplete =>
        \A v \in DOMAIN volume : \A p \in 1..Len(volume[v]) :
            Cardinality({r \in BlockRefs : Covers(r, v, p)}) = 1

\* The file handles are bounded by the pool, not by the number of files: a
\* closed stream's volume is reused before a new one is made.
OpenVolumesBounded == Cardinality(DOMAIN openVolumes) <= NumThreads

\* The reader's constructor counts the distinct volume numbers in the index and
\* uses them as array indices (lines 38-47): the numbers must have no gap.
VolumeNumbersDense ==
    AllTasksComplete =>
        LET used == {blocks[r[1]][r[2]].volumeNumber : r \in BlockRefs}
        IN  used = 0..Cardinality(used) - 1

\* Every task ends: no write loops without progress (WaitForAllTasksToComplete).
EveryFileIsStored == <>AllTasksComplete
=============================================================================
