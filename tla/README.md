# A verification project for ACBackup

ACBackup keeps backups of a source directory as a history of snapshots. Each snapshot stores only
new data; for all else it refers to older snapshots. This directory holds TLA+ modules that model
the program in `src/src` and the viewer in `src/src_viewer`, the TLC configurations that check them,
and proofs for TLAPS. Lines below are of files under `src/src` unless they say otherwise.
`PROJECT.json` maps every definition to its lines.

1. [The system](#1-the-system) 2. [Modules](#2-modules-and-the-code) 3. [Runs](#3-what-the-runs-check)
4. [Proofs](#4-what-is-proved) 5. [Limits](#5-what-is-not-modelled) 6. [Plan](#6-plan)

## 1. The system

A command (`main.cpp`) reads the configuration of the backup directory, creates a status tracker and
a thread pool, reads in all snapshots, and runs. The main thread goes through phases; in each of them
it adds a process to the status tracker, enqueues tasks for the pool and waits for all of them.

| Component | State | Operations | Talks to |
|---|---|---|---|
| Snapshot history (`SnapshotManager`, `Snapshot`, `BackupNodeIndex`, `BackupNodeAttributes`) | list of snapshots, each with an index of nodes: type, size, times, hashes, own blocks or a back reference | `AddSnapshot`, `BackupNode`, `BackupNodeMetadata`, `BackupMove`, `FindDataSnapshot`, `EnsureNoDifferenceExists` | source, differences, volumes, files |
| Index format (`BackupNodeIndex`) | none | `SerializeNode`, `DeserializeNode`, `GenerateHashIndex` | every snapshot that is written or read in |
| Difference resolver (`NodeIndexDifferenceResolver`) | none | `ComputeDiff` of two indexes, hashing files of the source in tasks | both indexes, pool, progress |
| Source indexing (`OSFileSystemNodeIndex`) | paths and attributes as they were listed | list, hash a node, open a file | the source, which users go on editing |
| Readers (`Snapshot::Restore`, `VirtualSnapshotFilesystem`, `OutputSnapshotHashValues`, `Diff`, the viewer) | none | restore, mount, hashes, diff, list and download revisions | history, volumes, source |
| Volume writing (`FlatVolumesFileSystem`, `VolumesOutputStream`) | list of open volumes with owner and left size, next number | `CreateFile`, `WriteBytes`, `FindStream`, `BytesWereWrittenToVolume`, `CloseFile`, `WriteProtect` | called by tasks; adds blocks to the index |
| Volume reading (`FlatVolumesFileSystem`, `FlatVolumesBlockInputStream`) | for each volume a mutex, file, and a count of blocks still needed; number of open volumes | open, `ReadBytes`, `LockVolumeStream`, `CloseUnusedVolumes` | tasks of verify and restore, that share the volumes' file positions |
| Persistence (`Snapshot::Serialize`, `Deserialize`, `Util.cpp`) | volumes, index file and hash file of each snapshot; write protection of files and directories | create, write, protect, list, read in | the operating system: kills, other programs, rot |
| Verification (`VerifySnapshot`, `commands/VerifySnapshot.cpp`) | none | add-snapshot's own, verify, verify -s, verify-all | history, volumes |
| Compression statistics (`CompressionStatistics`, `Init`) | table from extensions to rates, and its file | look a rate up, add a sample, read, write | tasks of add-snapshot; init; kills |
| Progress (`status/`, `InjectionContainer`) | processes with counts and sizes; the reporter's thread | announce, count, finish, show, stop | all phases and tasks, terminal or web server |
| Configuration, filters, output of sums | constants | | see section 5 |

**What is hard.** Tasks share the list of volumes, the volumes' files and their positions, with the
bytes themselves written and read outside of the list's lock. The source is read three times (listed,
hashed, piped) while it is edited. A node's data is found by following names back through all
snapshots. A snapshot appears in several steps on disk, any of which may be the last, and so does a
backup directory and the statistics' file. Tasks look rates up that other tasks are changing.
Announced and finished work are counted by different threads.

**What makes it correct.**

- *Writing*: a volume that is written belongs to one stream; left sizes are exact; the blocks of a file,
  in order, are its bytes; every task ends.
- *History*: a snapshot records the source; every node restores to what it records, through any chain
  of back references; nothing old is stored again; a write is never lost.
- *Readers*: restore, mount, hashes, diff and viewer give what the indexes record, and the same.
- *Reading*: a reader gets its own bytes in order although positions are shared and volumes are closed
  under it; counters are exact; nobody waits for ever.
- *Persistence*: wherever a program is killed, older snapshots stay what they were; readers work with
  complete snapshots, none missing in between.
- *Verification*: what is reported as verified can be restored.
- *Statistics*: every sample counts once; what was learned survives the program.
- *Progress*: what is shown as finished is complete; a command ends together with its reporter.

## 2. Modules and the code

| Module | Models | State and actions in the code |
|---|---|---|
| `VolumeWriting` | the write side, a task per file | Every access to the list under its mutex is one action (`FindStream`, `BytesWereWrittenToVolume`, `CloseFile`); the offset query and the write outside of it are two more. The i-th byte of file f is `<<f, i>>`, so a byte in the wrong place is seen. |
| `FileStore` | abstract: files that only grow at their ends, and are then complete | what `VolumeWriting` implements |
| `VolumesAsFiles` | the refinement for TLC: a file is the concatenation of what its blocks read from the volumes (`OpenFileForReading`) | |
| `IndexFormat` | what the index file says of a node, and what is read of it | An optional element is a sequence of at most one. `Serialize` and `Deserialize` leave out and fill in what the code does: a node without blocks loses owner and compression, a directory its size. |
| `SnapshotHistory` | add-snapshot, and a user that edits | `BeginSnapshot` and `IndexFile` are the walk through the source, which comes to a path at any time; `CompareIndexes` is `ComputeDifference`; `HashNode`, `PipeNode` are tasks, in any order, that read the source as it is then; `Abort` is a file that vanished or has another size; `FinishSnapshot` is the loops over `differentMetadata` and `moved`, `Serialize` and reading in again, with the hash index as the thread pool's order makes it. A hash is the content it is the hash of; a node has one for each algorithm it was hashed with, and `Reconfigure` changes the algorithm between snapshots. |
| `SnapshotReaders` | restore, mount, hashes, diff, the viewer's revisions | operators on the state of `SnapshotHistory`: these commands change nothing |
| `SnapshotViewer` | the viewer's downloads by node number | adds the orders in which nodes were added, whose positions are the numbers |
| `VolumeReading` | the read side, a task per file | The pc of a reader is where its thread is: opening (one counter at a time), in the block loop, at the check of open volumes, in the scan that closes (one volume at a time, with both locks), waiting for a volume's mutex, in `seek` and `read`. |
| `SnapshotLog` | abstract: a log of snapshots that is only appended to, readable or not | what `SnapshotStore` implements |
| `SnapshotStore` | files of a backup directory and the programs on it | One action per file that is created, written or protected, in the order of `AddSnapshot` and `Serialize`, and per index that is read in; `Kill`, `Corrupt`, `Edit`, `Tick` are the environment. An exception ends the program (`End`). |
| `CompressionStatistics` | init, and add-snapshot's table of rates | Init's steps on disk, reading the table, and for each task the lookup (under the lock), compressing, and the sample (under the lock again); writing is truncating and then rows. `Kill` can come between any two. Rates are integers over `Unit`. |
| `CommandProgress` | processes, pool, reporters | The phases of a command are computed from its indexes by operators named for the functions that announce and count; the actions are single calls of `ProcessStatus`, taking a task, waiting, adding the next process, and the steps of a reporter. What a file is when it is hashed and when it is piped are parameters (`hashed`, `chunks`): `PipeTask` counts each chunk as `StatusTrackingOutputStream` does, then compares sizes and counts the file or throws; `TaskThrows` ends the command. |
| `*_proofs` | theorems, section 4 | |
| `MC...` | instances for TLC | constants, and one action constraint |

`VolumeWriting` and `VolumeReading` are one class whose two halves share no state: a snapshot that is
written is read only after it was closed. `SnapshotHistory` takes from both that blocks hold what was
piped. `SnapshotStore` takes from `SnapshotHistory` what an index records and keeps only paths that
stay, because its questions are about files and programs. `CompressionStatistics` shares no state with
the history: a node records the compression it was given, and is read with that. They are checked
apart because together they would be out of reach and their properties do not meet: the interfaces are
"a file's blocks read what was piped" (`ImplementsFileStore`, `BytesInOrder`) and "a node resolves to
a snapshot and a path".

## 3. What the runs check

Bounds are named in the modules (`Max...`). A definition that stands next to a mapped one and differs
by a slip ("and without it", "a slip that...") is used by `PROJECT.json`'s mutants, which show for
every property that it can fail.

| Run | Instance | Shows |
|---|---|---|
| `write` | 3 files of up to 3 bytes, 2 threads, volumes of 2, calls of up to 3 | Two streams write while a third waits and takes over a free volume; files span volumes and volumes hold several files; a call spans volumes. Ownership, left sizes, blocks, reuse, dense numbers, the end of every task, and the refinement of `FileStore`. |
| `history_edits` | 2 paths, 2 contents of one size and a directory, 3 edits of any kind at any time, 3 snapshots | Paths that nobody edits during the walk and the backup are recorded as they are, whatever happens to the others; no write is lost; deduplication; nodes restore; nothing differs afterwards (`EnsureNoDifferenceExists`). |
| `readers` | 3 paths, a content with bytes and an empty one, 2 writes or renames between 3 snapshots, 1 change of the hash algorithm | Chains of moves and re-created names. Restore and mount give of every node what its index records, where it has a hash of the configured algorithm; printed hashes are those of the data, for every algorithm; diff lists exactly the differences; the viewer's revisions are the file's versions. |
| `read` | 2 files in 5 layouts over 4 volumes, 2 threads, at most 1 volume kept open | Layouts share volumes in equal and in opposite order, come back to a volume, are empty, or leave many volumes behind. Any volume can be closed at any time it is not needed, which with the code's 100 would need 101 volumes. |
| `store_killed` | 2 paths, 3 names, 1 edit, 2 kills | Every pair of steps as the places where add-snapshot is killed; a slow clock makes names clash with what killed programs left. |
| `store_readers` | 2 programs, 2 paths, 3 names, 1 edit, 1 file that rots | verify commands at any time during add-snapshot; volume, index and hash file rot. |
| `statistics` | 5 nodes: two texts, an image, an empty text, a long link; rates 8/32 and 40/32; 2 threads, 4 programs, 1 kill | Lookups and samples of one extension at the same time; a rate that passes 0.9 and stays; an image that is never compressed; kills in init, in a task and in the write. |
| `progress` | 2 workers; first and second add-snapshot (changed, moved, new nodes) on the web, verify and restore on the terminal; a file edited before it is hashed, one that grows before it is piped, and a first snapshot on the terminal with one file that grew and one that shrank; chunks of up to 2 bytes | Counts, percentages, termination. Bytes exceed what was announced only in a process that reads an edited file, which never finishes; such a command ends with the exception, all others exit. |

Two kills show both what a kill leaves and what the next program that is killed over it leaves. Three
snapshots are the fewest with a chain of two back references and one between. Two threads are enough
for every pairwise race; the third file of `write` brings reuse. A `UInt32Size` or `UInt64Size` is
small so that it can overflow. With 32 as the rate 1, four samples that do not compress at all take a
rate over the limit of 0.9, and 40 is a file that compression makes longer. In `readers` edits happen
between snapshots only, because races are the subject of `history_edits`; what a race leaves in an
index is one of the histories that `OwnReferencesRestore` is checked for. Then the order of the walk, of
hashing and of piping changes nothing, and the action constraint `TasksInOrder` leaves one order.

**Fairness.** `VolumeWriting`, `VolumeReading`: weak fairness for each thread that runs a task, as the
operating system schedules all threads. It does not promise that a thread gets a mutex that others
take again and again, and need not: each of the finitely many others ends, and then the mutex stays free.
`CommandProgress`: weak fairness for workers and the reporter, strong fairness for the main thread,
which waits for `processesLock`: the reporter holds it briefly once a second or per request and sleeps
without it. No other module states liveness.

### Violations that are disagreements with the code's own words

| Run | What happens |
|---|---|
| `history_stale_reference` | A moved node that the next snapshot takes for unchanged keeps its back reference (`Snapshot.cpp:161`); the path it names is not in the snapshot before, and the node cannot be restored. |
| `viewer_revision` | The viewer makes a revision of the file's number in a newer snapshot and of the older snapshot with the data (`src_viewer/DataFileTreeNode.cpp:57`); the number there is another file's, and that file is what is shown as the revision and downloaded. |
| `read_truncated` | `ReadBytes` (`FlatVolumesFileSystem.cpp:153`) never gives up at the end of a file: verifying a truncated volume hangs. |
| `progress_shrunk` | `NodeIndexDifferenceResolver.cpp:50` uses a number of the left index in the right one. |

### What came up and is no run

- `leftSize` is cut to 32 bits before the minimum is taken (`FlatVolumesFileSystem.cpp:175`). With a
  volume size of a multiple of 4096 MiB a fresh volume has room for 0 bytes and `WriteBytes` never
  ends. The model has the narrowing; the theorems about blocks say `SmallVolumes` for it.
- `TerminalStatusTracker.cpp:42` divides by the total size of a process, which is 0 for a phase
  without bytes. `progress` shows add-snapshots with such a phase on the web tracker, which is the
  default; `EveryCommandEnds` says nothing of them on the terminal.
- A file that has grown since it was listed is counted beyond the announced size, since its chunks are counted
  (`StatusTrackingOutputStream.cpp:31`) before sizes are compared (`Snapshot.cpp:140`): the web's progress is
  above 1 and the terminal prints more than 100 % until the exception ends the command. `ProgressAtMostOne`
  allows exactly this, for the bytes of a process that reads an edited file.
- A file that is renamed to a path while the path is piped, and away again, is recorded with
  that path's times if its size is the same (`Snapshot.cpp:140`): `UnchangedMeansRecorded` and
  `UntouchedIsRecorded` speak of histories without such renames.
- The viewer follows a copied back reference (run `history_stale_reference`) into data of another path: a file
  that was moved, unchanged and then written with what had replaced it at its old path is listed with
  two revisions of the same content, of which the older was never its own. `RevisionsAreVersions` leaves this out.
- Permissions are not copied by `CopyFrom` (`FileSystemNodeAttributes.hpp:103`).
- Two add-snapshot at a time, or a clock that is set back, give snapshots whose back references lead
  elsewhere (`SnapshotManager.cpp:178`), which verification does not see because it compares data with
  the hash of the node that owns it (`SnapshotManager.cpp:121`); `BaseIsPrevious` and `VerifiedRestores`
  are checked for one program that adds and a clock that goes on.
- verify -s of an older snapshot skips its back references (`main.cpp:238`), so `VerifiedRestores`
  promises only its own data.
- After the hash algorithm is changed, older data is read with the new algorithm, for which its node
  has no hash (`FlatVolumesFileSystem.cpp:128`): verify and restore of it fail. `ReadersAgree` speaks of
  nodes with a hash of the configured algorithm.
- A killed init leaves a directory that neither init nor add-snapshot accepts (`Init.cpp:36`); a kill
  while the statistics are written leaves a table that is cut off (`CompressionStatistics.cpp:83`).
  `LearnedIsKept` says what holds otherwise.

## 4. What is proved

Eight modules of proofs. "Any" below means: for every value of the constants that the named assumptions
of the module allow.

**`VolumeWriting_proofs`**: any files, threads and sizes.

- `TypeCorrect`: `Spec => []TypeOK`.
- `StreamsOwnTheirVolumes`: `Spec => []ExclusiveOwnership`. A stream between `FindStream` and
  `BytesWereWrittenToVolume` holds no lock; that nobody else writes its volume is what the rest relies on.
- `VolumesAreAccountedFor`: `Spec => []LeftSizeExact`.

None of the three is inductive alone. `IndInv` is `TypeOK`, `ExclusiveOwnership` and `WriteBounds`
(what a stream is about to write fits into its volume and its call). Ownership is kept by `FindStream`
because it takes only volumes without owner, or new numbers; that `BytesWereWrittenToVolume` finds the
right entry, and that a volume is never freed while its stream still writes, needs the types and
the bounds. `LeftSizeExact` is then proved relative to `IndInv`: an entry's left size and the length
of its file change in the same step only by ownership.

In its second part, for volumes of less than 2^32 bytes (`SmallVolumes`) where blocks
are concerned; without it a round of `WriteBytes` may write nothing, and empty blocks break the order:

- `BlocksAreTheFiles` (`BlocksReproduceFile`), `NoByteIsLostOrShared` (`EveryByteInOneBlock`),
  `ReaderCanIndexVolumes` (`VolumeNumbersDense`), `OpenFilesAreBounded` (`OpenVolumesBounded`, for all sizes).

`BlockInv` says of each file: its loop makes progress, what it has written and not recorded ends its
volume, its blocks are a prefix of it in order; and of each volume: every byte is in a block or pending,
and an empty volume is about to be written. A byte `<<f, i>>` names its place, so two blocks that share
a byte are of one file, and the order makes them equal. Blocks stay what they read because volumes
only grow (`BlocksStay`). `CountInv` bounds the running
streams and with them the open volumes: when one is added each of the others has an owner, which is
another running stream.

- `WritersGetOn` (`EveryStepGetsOn`): the safety half of `EveryFileIsStored`. Every step brings its file
  nearer to its next byte (`Distance`) or writes at least one of a bounded number (`CallsFit`): `Progress` in `BlockInv`
  says that what `FindStream` offers is never 0 bytes.

**`VolumeStore_proofs`**: `VolumesImplementStore`, `Spec => Store!Spec` under `SmallVolumes`. The
refinement of `FileStore` maps a file to the bytes that its blocks hold, position by position; TLC
checks the same with the concatenation of the blocks, which no prover here can expand, and
`BlocksAreTheFiles` says that the two agree in order. `AllHeld` (each recorded byte is in a block) and
`Calls` (no file records more than it has written) are added to the invariants above. Only
`BytesWereWrittenToVolume` changes what is recorded (`RecordedStays`), and it adds the file's next bytes.

**`VolumeReading_proofs`**: any files, layouts, threads, volumes and limit.

- `ReadingTypeCorrect`, `ReadersHaveTheirVolumes` (`ReaderHasVolume`), `CountersCountNeeds` (`CountersExact`),
  `OpenVolumesAreCounted` (`OpenVolumesExact`), and for steps `NeededVolumesAreNotClosed` (`NeededVolumesStayOpen`).

They are proved together, as `IndInv` with `Locals` (at each pc, how many of its blocks a reader has
counted, and that its request stays within its block): a counter is only decremented by a reader that is counted in it, so it never wraps; a
volume with a counter above 0 is skipped by the scan, which holds the volume's mutex when it looks.

- `FewUnusedVolumesAreOpen` (`UnusedVolumesBounded`). The bound is not inductive: a reader that passed
  the check makes a volume unused only later, at the end of its block. `Bounded` counts the unused
  volumes together with the readers that have passed (`Passed`), and says of the reader that scans that what
  it has left behind so far is, with them, less than the number of threads. A block is passed at most once before the next
  check, and a scan that ends closes all else.
- `BytesAreInOrder`: `Spec => [](FilesComplete => BytesInOrder)`. `FilesComplete` (each volume file is at least as
  long as its blocks need) is what a snapshot has that was not damaged; of truncated files the bytes that are missing are not in order,
  and the run `read_truncated` shows what happens then. `AllReceived` is the exact account: a stream
  has received its earlier blocks and the part of its block before the offset. That `Content` is the
  concatenation it looks like needs induction over the blocks, see below.
- `ReadersGetOn`: `FilesComplete /\ Spec => EveryReadGetsOn`. No step is taken in vain: what a stream has counted,
  its block, its offset and its `Distance` from the next byte grow or shrink, in this order. A request is for at
  least one byte (`Asks`), and a complete file gives all of it (`ReadsAll`); a truncated one is where this ends.
- `ReadersDoNotDeadlock` (`NobodyWaitsInACircle`): of any streams one waits for none of the others, and nobody waits for
  one that has ended. Who reads waits for nobody, who scans only for who reads, who checks or wants a mutex for
  one of these, who is queued for those that run; `ReaderHasVolume` and `Bounded` say who can hold which lock.

The last two are the argument for `EveryReaderEnds` at any size: a rank that every step lowers, and, until all
have ended, a stream that waits for nobody and so can step. That fairness then takes it on is left to TLC, whose
run `read` checks the end itself and needs no rank; `EveryStepGetsOn`, `EveryReadGetsOn` and `NobodyWaitsInACircle` are
therefore defined next to their proofs.

**`CompressionStatistics_proofs`**: any nodes, rates and threads.

- `StatisticsTypeCorrect` (rates stay fractions, levels at most the configured one),
  `IncompressibleIsFinal` (`IncompressibleStays`), `WhatIsLearnedIsKept` (`LearnedIsKept`), `EverySampleCounts`
  (`NoSampleLost`).

`Phases` ties the pc to the program and to what it has read, `Fixed` says that no task that
will add a sample has an extension that was over the limit, `Kept` follows the file from reading over truncation to the flush. `Sampled` says of every extension,
also one that is not in the table yet, that its rate is what the samples so far make of it (`NoSampleLost` alone does
not say what a look-up enters); that one more sample takes one more mean is by induction over the samples.

**`SnapshotStore_proofs`**: any paths, programs, names, edits, kills and files that rot.

- `StoreTypesAreCorrect` (`TypeOK`), for any number of programs that add snapshots.
- If one of the programs at most is started with add-snapshot (`OneAdds`, as in all runs that pass):
  `AddedIsProtected` (`ReadsProtectedFiles`), `ReadersReadALog` (`ReadersSeeALog`), and of steps
  `VerifiedCanBeRestored` (`VerifiedRestores`). The code has no lock; with two, one unprotects the index
  directory while the other reads it, and a name can be added before one that was read.
- If no file rots besides (`MaxCorruptions = 0`, as in the run `store_killed`): `BasesAreThePrevious`
  (`BaseIsPrevious`) and the refinement `StoreImplementsLog`, `Spec => ImplementsSnapshotLog`. A hash file
  that rots takes its snapshot out of the log, so without this there is no such log.

Four inductive invariants build on each other. `TypeInv` adds to the types what an add-snapshot knows (`Adding`):
what is to be piped is piped before the index is created, so that an index owns only what its volumes hold.
`Protection` follows what is protected by pc. `LogInv` is about what is read: `Serialised` says that what can be read in
was serialised so, and `Follows` that each serialised index refers to the one serialised before it and has its contents
where it owns no data; `Loaded` and `ToRead` that a program
has read the first files in order and still has to read those between them and any later one, also when an index is created meanwhile,
since that has the greatest name; `Knows` that an add-snapshot that gets to its index has read all other ones, which is
why a gap cannot arise. `SoundInv` adds that only the last index file can be incomplete, and that what is
stored stays. From `LogInv`, `VerifiedRestores` follows by induction over the snapshots: `FindDataSnapshot` ends at
the last owner (`FindIsLastOwner`), which has the contents of all that refer to it (`OwnerHasContents`). In the refinement `CreateIndex` is
`BeginAppend` and `WriteHash` is `Commit`; all other steps stutter. That `WriteHash` appends
at the end, and not somewhere, is a fact about sets of numbers in their order (`IncreasingBegins`), as the new name is the greatest.

**`SnapshotHistory_proofs`**: any paths, contents, sizes, algorithms, edits, renames and snapshots; the
paths are finitely many (`PathsAssumption`, `CompareIndexes` takes the last node of a list), `None` is none of them,
and there is one empty file (`EmptyAssumption`: an empty file has no other content, and a link has a target).

- `TypesAreCorrect` (`TypeOK`), `UnchangedFilesAreRecorded` (`UnchangedMeansRecorded`).
- Of steps: `UntouchedPathsAreRecorded`, `StoredDataIsNew` (`OnlyNewDataIsStored`), `NoDifferenceIsLeft` (`NoDifferenceAfterwards`).
- `DeduplicationIsSound` (`OwnReferencesRestore`), `AllReadersAgree` (`ReadersAgree`), `RevisionsAreTheVersions`
  (`RevisionsAreVersions`).
- `DiffsAreTruthful` (`DiffIsTruthful`), if nobody edits while a snapshot is added (`~EditsWhileAdding`, as
  in the run `readers`). Otherwise it does not hold: a file that is written between listing and piping is recorded
  with the old time and the new content, and diff, which compares times, takes it for unchanged later.

One invariant, `IInv`, carries them. `History` says of each snapshot what deduplication needs: a node
has the type, size and one hash of one content, the hash index finds a node for exactly the hashes there
are, and (`Linked`) a node without data refers to a node with its hash in the snapshot before. Being
linked is what an addition must show of the differences, so `Phases` and `Differences` relate what was
indexed, hashed and piped so far to the last snapshot; without them a moved node could refer to
nothing. `Untouched` says that everything read of a path nobody touched would be read again; it makes
`UntouchedIsRecorded` and `OnlyNewDataIsStored` inductive. `TimesAreUnique`, `IndexedIsThere` and
`RecordedIsThere` say that a time belongs to one file at most, now or when it was recorded: that is why
comparing times finds every write, and why renames are the exception. `OwnReferencesRestore` follows from
`History` alone, by induction over the snapshots before; `DiffIsTruthful` needs one invariant more (one content per time, in all
snapshots and the source). `RevisionsAreVersions` needs another one, `Versions`: a node keeps its back reference
and its size as long as only metadata changes (`Kept`), and what a snapshot stores is in no node of the one before
(`Fresh`). `LoadRevisions` goes back any number of snapshots at once: that there is a function with its equation is shown
by course-of-values induction (`RevisionsExist`, `RevisionsAgree`), and so is what its lists are (`IsList`).
The proof found the property wrong as it was first stated: between two revisions that follow each
other there may be a copied back reference, which four snapshots show and the run's three did not (below).

**`CommandProgress_proofs`**: any finite number of workers, any trackers, and any commands that are add-snapshot,
diff, verify or restore of indexes (`CommandsAreOfIndexes`): of any nodes, where a directory has the
size 0 (`FileSystemNodeAttributes.hpp:45`) and the sizes add up to less than 2^64; the files may have any
sizes when they are hashed and any chunks when they are piped.

- `ProgressTypesAreCorrect` (`TypeOK`), `FinishedShowsAll` (`FinishedIsComplete`), `ProgressIsBounded` (`ProgressAtMostOne`).

The invariant `CountInv` is an equation: what is done of the last process, and what the calls that are
left count, is all that its calls count (`AllOf`), where throwing is a kind of call that is never done. The calls that are left are those of the main thread, of the tasks in the
queue and of the workers; every call moves its amount (`CalledCounts`), and taking a task only moves it from the queue to a
worker. When a process ends nothing is left (`LeftAtTheEnds`), so that none of its calls throws. What a phase announces
(`Complete`) is proved of each one: its files are the calls that count a file and those that throw (`CountsOrThrows`),
and its bytes are what is counted if none throws. A task throws if and only if its file was edited (`PipeTaskEnds`,
`ThrowsAreOfEdited`), so more bytes than announced are those of an edited file; `CreateSnapshot` counts the nodes with data in tasks and the others
in the main thread, `Restore` the directories first. The sums in this are over sets of any size. Their laws
need no induction of their own: a sum of naturals is the number of pairs of an argument and a number up to its
value (`Total`), so they are laws of cardinality; `SumIsTotal` says that `SumFunctionOnSet` of the model is the same.
`ComputeDeleted` announces more than it counts, and reads where nothing is (run `progress_shrunk`); of
it only the types are proved.

**`InductionLemmas`**: a set of numbers that is not empty has a least element, and so a set with 0 and with all
successors has all numbers. It is proved from the library's well-founded order on finite sets, since
the library's induction theorems take an operator as a parameter, which the provers cannot instantiate. A finite set
of numbers has its numbers in order (`IncreasingExists`), which sorted names are, and what leaves out no
smaller one is how that begins. By induction
the recursive functions of the models are unfolded: `FindDataSnapshot`, `OwnReferencesOnly`, `Content` and `After` equal
their defining equations because a function that satisfies them exists for each length (`FindExists`,
`OwnExists`, `RevisionsExist`, `UpToExists`, `GivesExists`).

**Only model-checked**: liveness and `ENABLED` (no backend of the provers), that is `EveryFileIsStored`,
`EveryReaderEnds` and `EveryCommandEnds`; what the first two rest on is proved. Every invariant and every
action property of the passing runs is a theorem, and so are the refinements.

## 5. What is not modelled

- *Exceptions in a volume's write or open*: they end the command before an index is written. A size mismatch
  does end the command in `SnapshotHistory` and `CommandProgress`; a failing create does in `SnapshotStore`.
  How the pool passes an exception on is library code: nothing in the program catches it, so the command ends there.
  `CommandProgress` leaves out other ones, such as a file that has vanished or a restore of data that rotted.
- *`verify -l`*: it asks for less than the verify that is modelled (`main.cpp:239`): the own data of a snapshot
  only, as verify-all does of each. *Write protection of a snapshot's files* is one step in `SnapshotStore`
  (`ProtectFiles`), so no program is killed between two of them; the directories are protected in steps of their own.
- *Power loss*: what a program has written stays. Files that rot are modelled.
- *Library code* (StdXX): streams, compressors, hashes, XML, thread pool. `FileOutputStream` without its
  overwrite flag fails where the file exists; `FileInputStream` reads all that is there; hashes do not collide.
- *Links and permissions in a history*: `IndexFormat` has both; no run has a link as content, because
  `Restore` of links and `ReadLinkTarget` are not implemented in the code either.
- *Edits that keep size and time* of a file: the program cannot see them by design.
- *Clocks, speeds, remaining times* of the progress.
- *Source directory walk*: recursion into directories, filters (predicates on names) and the test that
  links point inside; that the walk races with edits is modelled.
- *Configuration*: a record of constants; its file only as something init writes. *Sums of `stats`*: output.
- *Viewer*: its tree and windows; `DownloadTo` of an unchanged file and of directories is not implemented there.
- `backupfilesystem/FlatVolumesDirectory`, `FlatVolumesFile`, `FlatVolumesLink`: dead code.
  `_legacy_encryption`: not built. `src_tests`: read, not modelled.
- `src/resources`: an embedded style sheet and scripts. They are 8893 of the repository's 16107 lines of
  code, which is why the share of all lines that the map names stays small.

## 6. Plan

Order: what would lose data first. Done: (1) `VolumeWriting`, refinement, proofs; (2) `SnapshotHistory`
with types, hash algorithms and the index format; (3) `VolumeReading`, proofs; (4) `SnapshotStore`,
refinement, first proof; (5) `CommandProgress`; (6) readers and viewer; (7) `CompressionStatistics`, proofs;
proofs about the history and its readers.

Next modules: (8) exceptions of the volumes' files while they are written or read; (9) the mount's open streams
as readers of `VolumeReading` that never end; (10) links in the history once the code restores them.
