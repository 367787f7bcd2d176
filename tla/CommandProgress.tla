-------------------------- MODULE CommandProgress --------------------------
(***************************************************************************)
(* How the commands report what they do.  The main thread adds one         *)
(* ProcessStatus after the other to the StatusTracker; it and the tasks it *)
(* enqueues in the thread pool count what they finish; meanwhile a reporter*)
(* shows the processes, the thread of TerminalStatusTracker one per second *)
(* and the server of WebStatusTracker all of them for every request.       *)
(*                                                                         *)
(* A command is the sequence of its processes, and a process the calls of  *)
(* its ProcessStatus: those of the main thread and those of every task.    *)
(* The source may be edited meanwhile: a task that reads a file of another *)
(* size than the index has throws, and that ends the command.  Clocks,     *)
(* speeds and the wording of what is shown are left out.                   *)
(***************************************************************************)
EXTENDS Integers, Sequences, FiniteSets, Functions

CONSTANTS
    Workers,        \* the threads of the pool
    Commands,       \* the commands a run looks at: their processes and tracker
    UInt64Size      \* 2^64, the number of values of a uint64

ASSUME UInt64Assumption == UInt64Size \in Nat \ {0}
ASSUME WorkersAssumption == IsFiniteSet(Workers)

VARIABLES
    command,        \* the command that is run
    processes,      \* StatusTracker.processes
    nCalls,         \* calls the main thread has made of the last of them
    nTaken,         \* its tasks that the pool has taken from the queue
    calls,          \* the calls that a worker still makes in its task
    main,           \* where the main thread is
    running,        \* the tracker's reporter is not asked to stop
    reporter,       \* where the reporter's thread is
    currentStep,    \* the process it shows, currentStep + 1 of ThreadMain
    shown           \* DoneSize() of what is being printed

vars == <<command, processes, nCalls, nTaken, calls, main, running, reporter,
          currentStep, shown>>

-----------------------------------------------------------------------------
\* An index is a sequence of nodes [path, dir, size, mtime, content].
Paths(index) == {index[i].path : i \in DOMAIN index}
Contents(index) == {index[i].content : i \in DOMAIN index}
Sorted(numbers) ==
    CHOOSE s \in [1..Cardinality(numbers) -> numbers] : \A i, j \in DOMAIN s : i < j => s[i] < s[j]
TotalSize(index, numbers) == SumFunctionOnSet([i \in DOMAIN index |-> index[i].size], numbers)

\* ComputeDifference(left, right): the numbers of the nodes that differ.
SameNode(x, y) == x.path = y.path /\ x.dir = y.dir /\ x.size = y.size /\ x.mtime = y.mtime
Different(left, right) ==
    {i \in DOMAIN left : ~\E j \in DOMAIN right : SameNode(left[i], right[j])}

\* The calls of a ProcessStatus.
AddTotalSize(n) == [call |-> "AddTotalSize", n |-> n]
AddFinishedSize(n) == [call |-> "AddFinishedSize", n |-> n]
ReduceTotalSize(n) == [call |-> "ReduceTotalSize", n |-> n]
IncFileCount == [call |-> "IncFileCount", n |-> 1]
IncFinishedCount == [call |-> "IncFinishedCount", n |-> 1]
\* GetNodeAttributes of a number that the index does not have: undefined.
OutOfBounds == [call |-> "OutOfBounds", n |-> 0]
\* StreamPipingFailedException, no call but the end of a task's calls.
Throw == [call |-> "Throw", n |-> 1]

\* The size that was read is compared with the index; and if it were not.
NotCompared(readSize, size) == TRUE
AllRead(readSize, size) == readSize = size

\* A loop that makes two calls for each of its elements.
InTurn(first, second) ==
    [k \in 1..2 * Len(first) |->
        IF k % 2 = 1 THEN first[(k + 1) \div 2] ELSE second[k \div 2]]

Process(title, nFiles, totalSize, mainCalls, tasks) ==
    [title |-> title, isEndDeterminate |-> TRUE, nFiles |-> nFiles,
     totalSize |-> totalSize, mainCalls |-> mainCalls, tasks |-> tasks]

\* OSFileSystemNodeIndex::GenerateIndex
GenerateIndex(right) ==
    [title |-> "Reading directory", isEndDeterminate |-> FALSE, nFiles |-> 0,
     totalSize |-> 0, tasks |-> <<>>,
     mainCalls |-> InTurn([i \in DOMAIN right |-> AddTotalSize(right[i].size)],
                          [i \in DOMAIN right |-> IncFileCount])]

ComputeDifference(left, right) ==
    Process("Computing index differences", Len(left), TotalSize(left, DOMAIN left), <<>>,
            [i \in DOMAIN left |-> <<AddFinishedSize(left[i].size), IncFinishedCount>>])

\* It asks the right index for the number that the node has in the left one.
SizeOnTheRight(right, i) ==
    IF i \in DOMAIN right THEN ReduceTotalSize(right[i].size) ELSE OutOfBounds
ComputeDeleted(left, right) ==
    LET numbers == Sorted(Different(left, right))
        SizeOf(i) == IF left[i].path \in Paths(right) THEN SizeOnTheRight(right, i)
                     ELSE AddFinishedSize(left[i].size)
    IN  Process("Resolving deleted nodes", Len(numbers),
                TotalSize(left, Different(left, right)),
                InTurn([k \in DOMAIN numbers |-> IncFileCount],
                       [k \in DOMAIN numbers |-> SizeOf(numbers[k])]), <<>>)

\* A file is hashed first; hashed is the size it has then.
IndexTask(node, hashed) ==
    IF node.dir \/ AllRead(hashed, node.size)
    THEN <<IncFinishedCount, AddFinishedSize(node.size)>> ELSE <<Throw>>
ComputeNodeDifferences(left, right, hashed) ==
    LET numbers == Sorted(Different(right, left))
    IN  Process("Indexing potentially new nodes", Len(numbers),
                TotalSize(right, Different(right, left)), <<>>,
                [k \in DOMAIN numbers |-> IndexTask(right[numbers[k]], hashed[numbers[k]])])

ComputeDiff(left, right, hashed) ==
    <<ComputeDifference(left, right), ComputeDifference(right, left),
      ComputeDeleted(left, right), ComputeNodeDifferences(left, right, hashed)>>

\* NodeIndexDifferences.differentData: new directories and unknown contents.
DifferentData(left, right) ==
    {i \in Different(right, left) : right[i].dir \/ right[i].content \notin Contents(left)}

\* BackupNode of a file: StatusTrackingOutputStream counts every chunk that is
\* written, and only after the last one the sizes are compared.  A directory has no
\* stream to be piped.
ReadSize(chunks) == SumFunctionOnSet(chunks, DOMAIN chunks)
PipeTask(chunks, size) ==
    [k \in DOMAIN chunks |-> AddFinishedSize(chunks[k])]
    \o <<IF AllRead(ReadSize(chunks), size) THEN IncFinishedCount ELSE Throw>>
BackupTask(node, chunks) ==
    IF node.dir THEN <<IncFinishedCount>> ELSE PipeTask(chunks, node.size)

\* The counting of SnapshotManager::AddSnapshot: the tasks of differentData while
\* the main thread adds all others.  chunks[i] is what node i has when it is piped.
CreateSnapshot(left, right, chunks) ==
    LET data == DifferentData(left, right)
        numbers == Sorted(data)
    IN  Process("Creating snapshot", Len(right), TotalSize(right, data),
                [k \in 1..Len(right) - Len(numbers) |-> IncFinishedCount],
                [k \in DOMAIN numbers |-> BackupTask(right[numbers[k]], chunks[numbers[k]])])

\* SnapshotManager::VerifySnapshot of the nodes whose data is verified.
Verify(index, totalSize, verified) ==
    Process("Verifying snapshot", Len(index), totalSize, <<>>,
            [i \in DOMAIN index |->
                IF i \in verified /\ ~index[i].dir
                THEN <<AddFinishedSize(index[i].size), IncFinishedCount>>
                ELSE <<IncFinishedCount>>])
VerifyFull(index) == Verify(index, TotalSize(index, DOMAIN index), DOMAIN index)

\* Snapshot::Restore counts the directories before it enqueues the tasks, which
\* skip them.
Directories(index) == {i \in DOMAIN index : index[i].dir}
RestoreTask(node) == IF node.dir THEN <<>> ELSE <<AddFinishedSize(node.size), IncFinishedCount>>
Restore(index) ==
    Process("Restoring snapshot", Len(index), TotalSize(index, DOMAIN index),
            [k \in 1..Cardinality(Directories(index)) |-> IncFinishedCount],
            [i \in DOMAIN index |-> RestoreTask(index[i])])

\* CommandAddSnapshot; left is <<>> when there is no snapshot.  The new index has
\* the nodes of the source; nothing differs from it that would be hashed.
AddSnapshot(left, right, hashed, chunks) ==
    <<GenerateIndex(right)>>
    \o (IF left = <<>> THEN <<>> ELSE ComputeDiff(left, right, hashed))
    \o <<CreateSnapshot(left, right, chunks)>>
    \o ComputeDiff(right, right, hashed)
    \o <<VerifyFull(right)>>

-----------------------------------------------------------------------------
Plan == command.processes
Added == Len(processes)
Idle(w) == calls[w] = <<>>

Init ==
    /\ command \in Commands
    /\ processes = <<>>
    /\ nCalls = 0
    /\ nTaken = 0
    /\ calls = [w \in Workers |-> <<>>]
    /\ main = "running"
    /\ running = TRUE
    /\ reporter = "waiting"
    /\ currentStep = 1
    /\ shown = 0

\* The reporter holds processesLock.
Showing == reporter \in {"showing", "printing"}

\* AddProcessStatusTracker, under processesLock; the tasks are enqueued.
AddProcessStatusTracker ==
    /\ main = "running"
    /\ Added < Len(Plan)
    /\ Added > 0 => processes[Added].hasEnded
    /\ ~Showing
    /\ LET p == Plan[Added + 1]
       IN  processes' = Append(processes,
                [isEndDeterminate |-> p.isEndDeterminate, nFiles |-> p.nFiles,
                 totalSize |-> p.totalSize, nFinishedFiles |-> 0, doneSize |-> 0,
                 hasEnded |-> FALSE])
    /\ nCalls' = 0
    /\ nTaken' = 0
    /\ UNCHANGED <<command, calls, main, running, reporter, currentStep, shown>>

\* What a call does to the last process, under its mutex.
Called(c) ==
    [processes EXCEPT
        ![Added].nFiles = IF c.call = "IncFileCount" THEN @ + 1 ELSE @,
        ![Added].nFinishedFiles = IF c.call = "IncFinishedCount" THEN @ + 1 ELSE @,
        ![Added].totalSize = CASE c.call = "AddTotalSize" -> (@ + c.n) % UInt64Size
                              [] c.call = "ReduceTotalSize" -> (@ - c.n) % UInt64Size
                              [] OTHER -> @,
        ![Added].doneSize = IF c.call = "AddFinishedSize" THEN @ + c.n ELSE @]

Active == main = "running" /\ Added > 0 /\ ~processes[Added].hasEnded

MainCall ==
    /\ Active
    /\ nCalls < Len(Plan[Added].mainCalls)
    /\ LET c == Plan[Added].mainCalls[nCalls + 1]
       IN  IF c = OutOfBounds
           THEN \/ /\ main' = "outOfBounds"
                   /\ UNCHANGED processes
                \/ /\ \E n \in 0..UInt64Size - 1 : processes' = Called(ReduceTotalSize(n))
                   /\ UNCHANGED main
           ELSE processes' = Called(c) /\ UNCHANGED main
    /\ nCalls' = nCalls + 1
    /\ UNCHANGED <<command, nTaken, calls, running, reporter, currentStep, shown>>

\* The pool: a worker takes the next task, and makes its calls.
TakeTask(w) ==
    /\ Active
    /\ Idle(w)
    /\ nTaken < Len(Plan[Added].tasks)
    /\ calls' = [calls EXCEPT ![w] = Plan[Added].tasks[nTaken + 1]]
    /\ nTaken' = nTaken + 1
    /\ UNCHANGED <<command, processes, nCalls, main, running, reporter, currentStep, shown>>
TaskCall(w) ==
    /\ main = "running"
    /\ ~Idle(w) /\ Head(calls[w]) # Throw
    /\ processes' = Called(Head(calls[w]))
    /\ calls' = [calls EXCEPT ![w] = Tail(@)]
    /\ UNCHANGED <<command, nCalls, nTaken, main, running, reporter, currentStep, shown>>

\* Nothing in the program catches the exception: the command ends here.
TaskThrows(w) ==
    /\ main = "running"
    /\ ~Idle(w) /\ Head(calls[w]) = Throw
    /\ main' = "failed"
    /\ UNCHANGED <<command, processes, nCalls, nTaken, calls, running, reporter, currentStep,
                   shown>>

\* threadPool.WaitForAllTasksToComplete(): the queue is empty and no task runs;
\* and a phase that does not call it.
NotWaited == TRUE
AllTasksComplete == nTaken = Len(Plan[Added].tasks) /\ \A w \in Workers : Idle(w)

\* process.Finished()
Finished ==
    /\ Active
    /\ nCalls = Len(Plan[Added].mainCalls)
    /\ AllTasksComplete
    /\ processes' = [processes EXCEPT ![Added].hasEnded = TRUE]
    /\ UNCHANGED <<command, nCalls, nTaken, calls, main, running, reporter, currentStep, shown>>

\* UnregisterAll destroys the tracker, whose destructor stops and joins the
\* reporter; and if it only joined it.
JoinOnly == running
StopReporter == FALSE
DestroyTracker ==
    /\ main = "running"
    /\ Added = Len(Plan) /\ processes[Added].hasEnded
    /\ running' = StopReporter
    /\ main' = "joining"
    /\ UNCHANGED <<command, processes, nCalls, nTaken, calls, reporter, currentStep, shown>>
Join ==
    /\ main = "joining"
    /\ reporter = "stopped"
    /\ main' = "exited"
    /\ UNCHANGED <<command, processes, nCalls, nTaken, calls, running, reporter, currentStep, shown>>

Alive == main \in {"running", "joining"}
ShowUnchanged == UNCHANGED <<command, processes, nCalls, nTaken, calls, running>>

\* The head of the reporter's loop: it stops, or takes processesLock.
Report ==
    /\ Alive
    /\ reporter = "waiting"
    /\ reporter' = IF ~running THEN "stopped"
                   ELSE IF Added > 0 THEN "showing" ELSE "waiting"
    /\ ShowUnchanged /\ UNCHANGED <<main, currentStep, shown>>

\* The step after the one just shown stays on the last process; and if it did not.
AlwaysNext == currentStep + 1
NextStep == IF currentStep < Added THEN currentStep + 1 ELSE currentStep

\* TerminalStatusTracker::ThreadMain: PrintKnownEndTask reads DoneSize() and then
\* divides by TotalSize(); both without the mutex of the process.
ReadDoneSize ==
    /\ Alive
    /\ command.tracker = "terminal"
    /\ reporter = "showing"
    /\ shown' = processes[currentStep].doneSize
    /\ reporter' = "printing"
    /\ ShowUnchanged /\ UNCHANGED <<main, currentStep>>
PrintTask ==
    /\ Alive
    /\ reporter = "printing"
    /\ IF processes[currentStep].isEndDeterminate /\ processes[currentStep].totalSize = 0
       THEN main' = "dividedByZero"
       ELSE UNCHANGED main
    /\ currentStep' = NextStep
    /\ reporter' = "waiting"
    /\ ShowUnchanged /\ UNCHANGED shown

\* StatusTrackerWebService::OnGETRequest: ToJSON of one process after the other.
ToJSON ==
    /\ Alive
    /\ command.tracker = "web"
    /\ reporter = "showing"
    /\ IF currentStep < Added
       THEN currentStep' = currentStep + 1 /\ UNCHANGED reporter
       ELSE currentStep' = 1 /\ reporter' = "waiting"
    /\ ShowUnchanged /\ UNCHANGED <<main, shown>>

\* The program has ended, or the operating system has ended it.
Ended == ~Alive /\ UNCHANGED vars

MainThread == AddProcessStatusTracker \/ MainCall \/ Finished \/ DestroyTracker \/ Join
Worker(w) == TakeTask(w) \/ TaskCall(w) \/ TaskThrows(w)
Reporter == Report \/ ReadDoneSize \/ PrintTask \/ ToJSON
Next == MainThread \/ (\E w \in Workers : Worker(w)) \/ Reporter \/ Ended

Spec == Init /\ [][Next]_vars

\* All threads are scheduled.  The reporter lets go of processesLock between two
\* seconds or requests, long enough for the main thread to get it.
Fairness == SF_vars(MainThread) /\ (\A w \in Workers : WF_vars(Worker(w))) /\ WF_vars(Reporter)
FairSpec == Spec /\ Fairness

-----------------------------------------------------------------------------
Status == [isEndDeterminate : BOOLEAN, nFiles : Nat, totalSize : 0..UInt64Size - 1,
           nFinishedFiles : Nat, doneSize : Nat, hasEnded : BOOLEAN]

\* The processes and the threads have their types; the reporter only refers to a
\* process that is there.
TypeOK ==
    /\ processes \in Seq(Status)
    /\ Added <= Len(Plan)
    /\ Added > 0 => nCalls \in 0..Len(Plan[Added].mainCalls)
    /\ Added > 0 => nTaken \in 0..Len(Plan[Added].tasks)
    /\ main \in {"running", "joining", "exited", "failed", "dividedByZero", "outOfBounds"}
    /\ running \in BOOLEAN
    /\ reporter \in {"waiting", "showing", "printing", "stopped"}
    /\ Showing => currentStep \in DOMAIN processes

\* Processes whose total counts what is done: not those of ComputeDeleted.
CountsWhatIsDone(i) ==
    Plan[i].isEndDeterminate /\ Plan[i].title # "Resolving deleted nodes"

\* A file that process i reads has another size by then than the index has.
ReadsEdited(i) == \E t \in DOMAIN Plan[i].tasks : Throw \in Range(Plan[i].tasks[t])

\* A process that has finished shows all its files and all its bytes as done: the
\* main thread and all tasks have counted each node once, and together they count
\* what was announced when the process was added.  One that reads an edited file
\* never gets there.
FinishedIsComplete ==
    \A i \in DOMAIN processes : processes[i].hasEnded /\ CountsWhatIsDone(i) =>
        /\ processes[i].nFinishedFiles = processes[i].nFiles
        /\ processes[i].doneSize = processes[i].totalSize
        /\ ~ReadsEdited(i)

\* The progress that ToJSON computes and the percentage that is being printed are
\* at most 1, also where the terminal reads the two numbers one after the other.
\* Only bytes can be more, and only of a process that reads a file whose size was
\* changed after it was listed: its chunks are counted before the sizes are compared.
ProgressAtMostOne ==
    /\ \A i \in DOMAIN processes : CountsWhatIsDone(i) =>
        /\ processes[i].nFinishedFiles <= processes[i].nFiles
        /\ processes[i].doneSize > processes[i].totalSize =>
                ReadsEdited(i) /\ ~processes[i].hasEnded
    /\ reporter = "printing" /\ CountsWhatIsDone(currentStep) =>
        (shown > processes[currentStep].totalSize => ReadsEdited(currentStep))

\* The command ends and with it the reporter, where no phase that the terminal shows
\* has 0 bytes (PrintTask would divide by 0).  It ends with the exception if a file
\* is read that has been edited, and otherwise the regular way.
EveryCommandEnds ==
    <>(main = IF \E i \in DOMAIN Plan : ReadsEdited(i) THEN "failed" ELSE "exited")

\* README.md:9: "Files that were deleted in the source directory, are unlinked":
\* add-snapshot resolves them without reading nodes that are not there.
DeletedNodesAreResolved == main # "outOfBounds"
=============================================================================
