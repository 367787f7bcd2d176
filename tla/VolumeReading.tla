--------------------------- MODULE VolumeReading ---------------------------
(***************************************************************************)
(* The read side of FlatVolumesFileSystem: the tasks of verify or restore  *)
(* each read one file through a FlatVolumesBlockInputStream.  The streams  *)
(* share one FileInputStream per volume, guarded by the volume's mutex,    *)
(* and count how many of their blocks still need it; when more than        *)
(* MaxOpenVolumes are open, a reader closes those that nobody needs.       *)
(*                                                                         *)
(* Position i of volume v holds the byte <<v, i>>.                         *)
(***************************************************************************)
EXTENDS Integers, Sequences, FiniteSets

CONSTANTS
    Streams,        \* the FlatVolumesBlockInputStreams, one per file
    NoStream,       \* nobody holds a mutex
    NumThreads,     \* size of the StaticThreadPool
    NumVolumes,     \* size of reading.volumes
    MaxOpenVolumes, \* the 100 of CloseUnusedVolumes
    Layouts,        \* the block lists of the files a run looks at
    Lengths,        \* the lengths of the volume files a run looks at
    MaxCall         \* bound: bytes that one call of a stream asks for

Volumes == 0..NumVolumes - 1
Block == [volumeNumber : Volumes, offset : Nat, size : Nat \ {0}]

ASSUME NoStreamAssumption == NoStream \notin Streams
ASSUME SizesAssumption ==
    /\ NumThreads \in Nat \ {0}
    /\ NumVolumes \in Nat
    /\ MaxOpenVolumes \in Nat
    /\ MaxCall \in Nat
ASSUME LayoutsAssumption == \A layout \in Layouts : layout \in [Streams -> Seq(Block)]
ASSUME LengthsAssumption == \A length \in Lengths : length \in [Volumes -> Nat]

VARIABLES
    blocks,         \* BackupNodeAttributes.blocks of the files
    length,         \* the lengths of the volume files on disk
    held,           \* VolumeForReading.mutex: the stream whose thread holds it
    isOpen,         \* VolumeForReading.file is not null
    counter,        \* VolumeForReading.counter
    position,       \* where the FileInputStream of a volume is
    nOpenVolumes,   \* reading.nOpenVolumes
    closing,        \* reading.nOpenVolumesLock: the stream whose thread holds it
    reader,         \* the streams and the calls they are in, see Reader
    received        \* observer: the bytes a stream has given to its caller

files == <<blocks, length>>
volumes == <<held, isOpen, counter, position, nOpenVolumes, closing>>
vars == <<files, volumes, reader, received>>

Reader == [pc : {"queued", "counting", "idle", "block", "check", "scan", "lock",
                 "read", "closed"},
           counted : Nat,       \* blocks that IncrementVolumeCounters has counted
           currentBlock : Nat,  \* currentBlockIndex + 1
           blockOffset : Nat,
           count : Nat,         \* what is left of the call of the stream
           request : Nat,       \* FileSystem::ReadBytes: leftSize of its caller
           left : Nat,          \* FileSystem::ReadBytes: count
           scan : Nat]          \* CloseUnusedVolumes: the next volume

-----------------------------------------------------------------------------
AtMost(m, n) == IF m < n THEN m ELSE n
CurrentBlock(s) == blocks[s][reader[s].currentBlock]
CurrentVolume(s) == CurrentBlock(s).volumeNumber
LastBlock(s) == reader[s].currentBlock = Len(blocks[s])
IsAtEnd(s) == reader[s].currentBlock > Len(blocks[s])
Running == {s \in Streams : reader[s].pc \notin {"queued", "closed"}}

Init ==
    /\ blocks \in Layouts
    /\ length \in Lengths
    /\ held = [v \in Volumes |-> NoStream]
    /\ isOpen = [v \in Volumes |-> FALSE]
    /\ counter = [v \in Volumes |-> 0]
    /\ position = [v \in Volumes |-> 0]
    /\ nOpenVolumes = 0
    /\ closing = NoStream
    /\ reader = [s \in Streams |->
                    [pc |-> "queued", counted |-> 0, currentBlock |-> 1,
                     blockOffset |-> 0, count |-> 0, request |-> 0, left |-> 0,
                     scan |-> 0]]
    /\ received = [s \in Streams |-> <<>>]

\* A thread takes the task of s.
OpenFileForReading(s) ==
    /\ reader[s].pc = "queued"
    /\ Cardinality(Running) < NumThreads
    /\ reader' = [reader EXCEPT ![s].pc = "counting"]
    /\ UNCHANGED <<files, volumes, received>>

\* The counters after volume.counter++ and volume.counter--; and without them.
KeepCounting(v) == counter
IncrementVolumeCount(v) == [counter EXCEPT ![v] = @ + 1]
DecrementVolumeCount(v) == [counter EXCEPT ![v] = @ - 1]

\* One iteration of its loop, under the volume's mutex, or its end.
IncrementVolumeCounters(s) ==
    /\ reader[s].pc = "counting"
    /\ IF reader[s].counted = Len(blocks[s])
       THEN /\ reader' = [reader EXCEPT ![s].pc = "idle"]
            /\ UNCHANGED counter
       ELSE LET v == blocks[s][reader[s].counted + 1].volumeNumber
            IN  /\ held[v] = NoStream
                /\ counter' = IncrementVolumeCount(v)
                /\ reader' = [reader EXCEPT ![s].counted = @ + 1]
    /\ UNCHANGED <<files, held, isOpen, position, nOpenVolumes, closing, received>>

\* The buffer, decompressor or hasher above the stream asks for n bytes.
ReadBytes(s, n) ==
    /\ reader[s].pc = "idle"
    /\ ~IsAtEnd(s)
    /\ reader' = [reader EXCEPT ![s].pc = "block", ![s].count = n]
    /\ UNCHANGED <<files, volumes, received>>

\* The stream notices the end of a block when it is asked for more.
NextBlock(s) ==
    /\ reader[s].pc = "block"
    /\ reader[s].blockOffset >= CurrentBlock(s).size
    /\ held[CurrentVolume(s)] = NoStream
    /\ counter' = DecrementVolumeCount(CurrentVolume(s))
    /\ reader' = [reader EXCEPT
                    ![s].currentBlock = @ + 1,
                    ![s].blockOffset = IF LastBlock(s) THEN @ ELSE 0,
                    ![s].pc = IF LastBlock(s) THEN "idle" ELSE "block"]
    /\ UNCHANGED <<files, held, isOpen, position, nOpenVolumes, closing, received>>

\* It asks the file system for what the block still has.
RequestFromBlock(s) ==
    /\ reader[s].pc = "block"
    /\ reader[s].blockOffset < CurrentBlock(s).size
    /\ LET n == AtMost(reader[s].count, CurrentBlock(s).size - reader[s].blockOffset)
       IN  reader' = [reader EXCEPT ![s].request = n, ![s].left = n, ![s].pc = "check"]
    /\ UNCHANGED <<files, volumes, received>>

\* CloseUnusedVolumes takes nOpenVolumesLock and compares.
CheckOpenVolumes(s) ==
    /\ reader[s].pc = "check"
    /\ closing = NoStream
    /\ IF nOpenVolumes > MaxOpenVolumes
       THEN /\ closing' = s
            /\ reader' = [reader EXCEPT ![s].pc = "scan", ![s].scan = 0]
       ELSE /\ UNCHANGED closing
            /\ reader' = [reader EXCEPT ![s].pc = "lock"]
    /\ UNCHANGED <<files, held, isOpen, counter, position, nOpenVolumes, received>>

\* Which volumes a reader closes; without one half of the condition; and without
\* the ! before IsNull.
OpenVolume(v) == isOpen[v]
UncountedVolume(v) == counter[v] = 0
NullVolume(v) == counter[v] = 0 /\ ~isOpen[v]
UnusedVolume(v) == counter[v] = 0 /\ isOpen[v]

\* One iteration of its loop, under the volume's mutex.
CloseUnusedVolume(s) ==
    /\ reader[s].pc = "scan"
    /\ reader[s].scan < NumVolumes
    /\ LET v == reader[s].scan
       IN  /\ held[v] = NoStream
           /\ IF UnusedVolume(v)
              THEN /\ isOpen' = [isOpen EXCEPT ![v] = FALSE]
                   /\ nOpenVolumes' = nOpenVolumes - 1
              ELSE UNCHANGED <<isOpen, nOpenVolumes>>
    /\ reader' = [reader EXCEPT ![s].scan = @ + 1]
    /\ UNCHANGED <<files, held, counter, position, closing, received>>

\* What follows; and if the number were compared in a loop.
CompareAgain == "check"
AfterClosing == "lock"

\* The end of its loop: it releases nOpenVolumesLock.
AllUnusedClosed(s) ==
    /\ reader[s].pc = "scan"
    /\ reader[s].scan = NumVolumes
    /\ closing' = NoStream
    /\ reader' = [reader EXCEPT ![s].pc = AfterClosing]
    /\ UNCHANGED <<files, held, isOpen, counter, position, nOpenVolumes, received>>

\* volume.mutex.Lock(); and if it were not taken.
NotLocked(v) == TRUE
Lockable(v) == held[v] = NoStream

\* LockVolumeStream opens the volume if need be; then SeekTo(offset).  offset
\* is a parameter of ReadBytes and the same in every iteration.
LockVolumeStream(s) ==
    LET v == CurrentVolume(s) IN
    /\ reader[s].pc = "lock"
    /\ Lockable(v)
    /\ held' = [held EXCEPT ![v] = s]
    /\ isOpen' = [isOpen EXCEPT ![v] = TRUE]
    /\ nOpenVolumes' = IF isOpen[v] THEN nOpenVolumes ELSE nOpenVolumes + 1
    /\ position' = [position EXCEPT ![v] = CurrentBlock(s).offset + reader[s].blockOffset]
    /\ reader' = [reader EXCEPT ![s].pc = "read"]
    /\ UNCHANGED <<files, counter, closing, received>>

\* What FileInputStream::ReadBytes gets: all that was asked for or all there is.
Available(v, n) == IF position[v] < length[v] THEN AtMost(n, length[v] - position[v]) ELSE 0

\* The blockOffset after a request; and one that is not moved.
OffsetKept(s) == reader[s].blockOffset
OffsetAfter(s) == reader[s].blockOffset + reader[s].request

\* inputStream.ReadBytes and UnlockVolumeStream; the loop's test; and, after it,
\* what the stream does with the returned number of bytes.
ReadFromVolume(s) ==
    LET v == CurrentVolume(s)
        n == Available(v, reader[s].left)
    IN
    /\ reader[s].pc = "read"
    /\ received' = [received EXCEPT
                        ![s] = @ \o [i \in 1..n |-> <<v, position[v] + i - 1>>]]
    /\ position' = [position EXCEPT ![v] = @ + n]
    /\ held' = [held EXCEPT ![v] = NoStream]
    /\ IF n < reader[s].left
       THEN reader' = [reader EXCEPT ![s].left = @ - n, ![s].pc = "lock"]
       ELSE reader' = [reader EXCEPT
                        ![s].left = 0,
                        ![s].blockOffset = OffsetAfter(s),
                        ![s].count = @ - reader[s].request,
                        ![s].pc = IF reader[s].count = reader[s].request
                                  THEN "idle" ELSE "block"]
    /\ UNCHANGED <<files, isOpen, counter, nOpenVolumes, closing>>

\* The stream is destroyed, at its end or before it: the destructor gives no
\* counter back.
CloseStream(s) ==
    /\ reader[s].pc = "idle"
    /\ reader' = [reader EXCEPT ![s].pc = "closed"]
    /\ UNCHANGED <<files, volumes, received>>

AllTasksComplete == \A s \in Streams : reader[s].pc = "closed"
Finished == AllTasksComplete /\ UNCHANGED vars

Step(s) ==
    \/ OpenFileForReading(s)
    \/ IncrementVolumeCounters(s)
    \/ \E n \in 1..MaxCall : ReadBytes(s, n)
    \/ NextBlock(s)
    \/ RequestFromBlock(s)
    \/ CheckOpenVolumes(s)
    \/ CloseUnusedVolume(s)
    \/ AllUnusedClosed(s)
    \/ LockVolumeStream(s)
    \/ ReadFromVolume(s)
    \/ CloseStream(s)

Next == (\E s \in Streams : Step(s)) \/ Finished

Spec == Init /\ [][Next]_vars

\* Every pool thread is scheduled and gets a mutex that is free for good.
Fairness == \A s \in Streams : WF_vars(Step(s))
FairSpec == Spec /\ Fairness

-----------------------------------------------------------------------------
\* The shared volumes and the locals of the readers have their types; the count
\* of open volumes and the counters never go below zero.
TypeOK ==
    /\ blocks \in [Streams -> Seq(Block)]
    /\ length \in [Volumes -> Nat]
    /\ held \in [Volumes -> Streams \cup {NoStream}]
    /\ isOpen \in [Volumes -> BOOLEAN]
    /\ counter \in [Volumes -> Nat]
    /\ position \in [Volumes -> Nat]
    /\ nOpenVolumes \in Nat
    /\ closing \in Streams \cup {NoStream}
    /\ reader \in [Streams -> Reader]

\* Between LockVolumeStream and UnlockVolumeStream.
Reading(s) == reader[s].pc = "read"

\* A volume's mutex protects the position between SeekTo and ReadBytes and keeps
\* the file from being closed: a thread that reads holds the mutex of its volume
\* alone, and the volume is open and where the thread has put it.
ReaderHasVolume ==
    /\ \A s \in Streams : Reading(s) =>
        LET v == CurrentVolume(s)
        IN  /\ held[v] = s
            /\ isOpen[v]
            /\ position[v] = CurrentBlock(s).offset + reader[s].blockOffset
    /\ \A v \in Volumes : held[v] # NoStream =>
        Reading(held[v]) /\ CurrentVolume(held[v]) = v

\* The blocks of s that are counted and not read to their ends.
NeededBlocks(s) == reader[s].currentBlock..reader[s].counted
NeededIn(v) ==
    UNION {{s} \X {k \in NeededBlocks(s) : blocks[s][k].volumeNumber = v} : s \in Streams}

\* A volume's counter is the number of blocks that still need it, whatever the
\* streams do at the same time (blocks of dropped streams are needed for ever).
CountersExact == \A v \in Volumes : counter[v] = Cardinality(NeededIn(v))

\* The number that CloseUnusedVolumes compares under another lock than the ones
\* the files are opened under is the number of open files.
OpenVolumesExact == nOpenVolumes = Cardinality({v \in Volumes : isOpen[v]})

\* The cache does its job: of the volumes that no stream needs only MaxOpenVolumes
\* and one more per thread are open, however many volumes a snapshot has.
UnusedVolumesBounded ==
    Cardinality({v \in Volumes : isOpen[v] /\ counter[v] = 0})
        <= MaxOpenVolumes + NumThreads

\* What the blocks of s hold, in order.
BytesOf(b) == [i \in 1..b.size |-> <<b.volumeNumber, b.offset + i - 1>>]
Content(s) ==
    LET upTo[k \in 0..Len(blocks[s])] ==
            IF k = 0 THEN <<>> ELSE upTo[k - 1] \o BytesOf(blocks[s][k])
    IN  upTo[Len(blocks[s])]

\* Every stream gives the bytes of its blocks, in order and each once, and at its
\* end all of them, whatever the other streams read from the same volume files
\* and whichever files were closed and opened again.
BytesInOrder ==
    \A s \in Streams :
        /\ Len(received[s]) <= Len(Content(s))
        /\ \A i \in 1..Len(received[s]) : received[s][i] = Content(s)[i]
        /\ IsAtEnd(s) => Len(received[s]) = Len(Content(s))

\* Only volumes that no running stream needs any more are closed.
NeededVolumesStayOpen ==
    [][\A v \in Volumes : isOpen[v] /\ ~isOpen'[v] => NeededIn(v) = {}]_vars

\* main.cpp:120: verify "verifies the integrity of all data": it comes to an end,
\* whatever the volume files hold (WaitForAllTasksToComplete).
EveryReaderEnds == <>AllTasksComplete
=============================================================================
