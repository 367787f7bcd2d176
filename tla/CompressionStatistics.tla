----------------------- MODULE CompressionStatistics -----------------------
(***************************************************************************)
(* How ACBackup learns which files are worth compressing.  init writes a   *)
(* table with the rates of extensions that are known to be incompressible. *)
(* add-snapshot reads it at its start; its tasks look the rate of a file   *)
(* up, compress the file if the rate is good enough and then add a sample, *)
(* all at the same time; at its end the table is written over the old one. *)
(* Programs can be killed between any two steps: CommandInit, class        *)
(* CompressionStatistics, and what Snapshot::BackupNode does with it.      *)
(*                                                                         *)
(* A rate is a float in 0..1, here a number of Unit-ths; a file's compressed*)
(* size can be larger than the file.  Extensions are numbered in their     *)
(* order, which is the order of the map and of the rows of the file.       *)
(***************************************************************************)
EXTENDS Integers, Sequences, FiniteSets

CONSTANTS
    Files,                  \* the nodes that every add-snapshot backs up
    ExtensionOf,            \* their extensions in lower case
    KindOf,                 \* file, empty file, short or long link
    Incompressible,         \* the extensions that init puts into the table
    Unit,                   \* the rate 1
    MaxCompressionLevel,    \* Config.maxCompressionLevel
    RawRates,               \* compressed size / size that compressors reach
    NumThreads,             \* size of the StaticThreadPool
    NoFile,                 \* compression_stats.csv does not exist
    MaxCommands,            \* bound: programs that are started
    MaxKills                \* bound: programs that are killed

Kinds == {"file", "empty file", "short link", "long link"}
Levels == 0..9
Rates == 0..Unit
Extensions == {ExtensionOf[f] : f \in Files} \cup Incompressible
Tables == UNION {[D -> Rates] : D \in SUBSET Extensions}
TableFile == [rows : Tables, readable : BOOLEAN]

ASSUME TablesAssumption ==
    /\ ExtensionOf \in [Files -> Nat]
    /\ KindOf \in [Files -> Kinds]
    /\ Incompressible \subseteq Nat
ASSUME NoFileAssumption == NoFile \notin TableFile
ASSUME NumbersAssumption ==
    /\ Unit \in Nat \ {0}
    /\ MaxCompressionLevel \in Levels
    /\ RawRates \subseteq Nat
    /\ NumThreads \in Nat
    /\ MaxCommands \in Nat
    /\ MaxKills \in Nat

VARIABLES
    config,     \* config.json: not there, cut off, or whole
    dirs,       \* which of the directories data and index are there
    tableFile,  \* compression_stats.csv, see TableFile
    pc,         \* where the running program is
    command,    \* which one it is
    table,      \* compressionStats: extension -> rate
    task,       \* the tasks of BackupNode, see Tasks
    used,       \* how many programs were started, killed
    outcome,    \* how the last program ended
    base,       \* observer: the table that the running command has read
    samples,    \* observer: the samples added since then, oldest first
    learned,    \* observer: the table of the last command that succeeded
    whole       \* observer: no program was killed while it wrote the table

disk == <<config, dirs, tableFile>>
memory == <<table, task>>
observers == <<base, samples, learned, whole>>
vars == <<disk, pc, command, memory, used, outcome, observers>>

-----------------------------------------------------------------------------
Row(t, e, r) == [x \in DOMAIN t \cup {e} |-> IF x = e THEN r ELSE t[x]]

\* Math::Clamp
Clamp(x, low, high) == IF x < low THEN low ELSE IF x > high THEN high ELSE x

\* compressionRate <= 0.9f
Compressible(rate) == 10 * rate <= 9 * Unit

\* AddCompressionRateSample: the mean of the old rate and the clamped sample,
\* where an extension that is not there yet has rate 0; without the clamp.
Rate(t, e) == IF e \in DOMAIN t THEN t[e] ELSE 0
MeanUnclamped(rate, sample) == (rate + sample) \div 2
Mean(rate, sample) == (rate + Clamp(sample, 0, Unit)) \div 2

\* GetCompressionLevel: roundf((maxCompressionLevel + 1) * (1 - rate)) - 1.
Rounded(rate) == (2 * (MaxCompressionLevel + 1) * (Unit - rate) + Unit) \div (2 * Unit)
GetCompressionLevel(rate) == Clamp(Rounded(rate) - 1, 0, 9)

\* The rows that can be parsed; a row that is cut off can make the rest of the
\* file unreadable.
Contents(rows, readable) == [rows |-> rows, readable |-> readable]
SetAsIncompressible == [e \in Incompressible |-> Unit]

NoTask == [pc |-> "queued", rate |-> 0, compress |-> FALSE, level |-> 0]

Init ==
    /\ config = "none"
    /\ dirs = {}
    /\ tableFile = NoFile
    /\ pc = "none"
    /\ command = "none"
    /\ table = <<>>
    /\ task = [f \in Files |-> NoTask]
    /\ used = [commands |-> 0, kills |-> 0]
    /\ outcome = "none"
    /\ base = <<>>
    /\ samples = <<>>
    /\ learned = <<>>
    /\ whole = TRUE

\* What the program kept in memory is gone.
End(result) ==
    /\ pc' = "none"
    /\ command' = "none"
    /\ outcome' = result
    /\ table' = <<>>
    /\ task' = [f \in Files |-> NoTask]
    /\ base' = <<>>
    /\ samples' = <<>>

-----------------------------------------------------------------------------
\* CommandInit works in an empty directory only.
IsDirectoryEmpty == config = "none" /\ tableFile = NoFile /\ dirs = {}
StartInit ==
    /\ pc = "none"
    /\ used.commands < MaxCommands
    /\ used' = [used EXCEPT !.commands = @ + 1]
    /\ IF IsDirectoryEmpty
       THEN /\ pc' = "create config"
            /\ command' = "init"
            /\ outcome' = "none"
            /\ table' = SetAsIncompressible
            /\ base' = SetAsIncompressible
            /\ UNCHANGED <<task, samples>>
       ELSE End("refused")
    /\ UNCHANGED <<disk, learned, whole>>

\* ConfigManager::Write creates the file and flushes its buffer at the end.
CreateConfig ==
    /\ pc = "create config"
    /\ config' = "cut off"
    /\ pc' = "write config"
    /\ UNCHANGED <<dirs, tableFile, command, memory, used, outcome, observers>>
WriteConfig ==
    /\ pc = "write config"
    /\ config' = "whole"
    /\ pc' = "truncate"
    /\ UNCHANGED <<dirs, tableFile, command, memory, used, outcome, observers>>
CreateDirectory(name, from, to) ==
    /\ pc = from
    /\ dirs' = dirs \cup {name}
    /\ pc' = to
    /\ UNCHANGED <<config, tableFile, command, memory, used, outcome, observers>>
InitEnds ==
    /\ pc = "init ends"
    /\ learned' = table
    /\ whole' = TRUE
    /\ End("success")
    /\ UNCHANGED <<disk, used>>

-----------------------------------------------------------------------------
\* Main: the configuration and the snapshots are read before the table is;
\* without any of them the program ends with an exception.
StartAddSnapshot ==
    /\ pc = "none"
    /\ used.commands < MaxCommands
    /\ used' = [used EXCEPT !.commands = @ + 1]
    /\ IF config = "whole" /\ "index" \in dirs
       THEN /\ pc' = "read table"
            /\ command' = "add-snapshot"
            /\ outcome' = "none"
            /\ UNCHANGED <<memory, base, samples>>
       ELSE End("exception")
    /\ UNCHANGED <<disk, learned, whole>>

\* The constructor of CompressionStatistics.
ReadTable ==
    /\ pc = "read table"
    /\ IF tableFile = NoFile \/ ~tableFile.readable
       THEN End("exception")
       ELSE /\ table' = tableFile.rows
            /\ base' = tableFile.rows
            /\ pc' = "backup"
            /\ UNCHANGED <<command, task, outcome, samples>>
    /\ UNCHANGED <<disk, used, learned, whole>>

\* BackupNode: a file's rate is looked up, and entered as 0 if there is none;
\* empty files and short links are not compressed, long links always are.
Running == {f \in Files : task[f].pc = "piping"}
LookedUp(f) ==
    IF KindOf[f] \in {"file", "empty file"}
    THEN Row(table, ExtensionOf[f], Rate(table, ExtensionOf[f]))
    ELSE table
RateOf(f) ==
    CASE KindOf[f] = "file" -> Rate(table, ExtensionOf[f])
      [] KindOf[f] = "long link" -> 0
      [] OTHER -> Unit
GetCompressionRate(f) ==
    /\ pc = "backup"
    /\ task[f].pc = "queued"
    /\ Cardinality(Running) < NumThreads
    /\ table' = LookedUp(f)
    /\ task' = [task EXCEPT ![f] =
                    [pc |-> "piping", rate |-> RateOf(f),
                     compress |-> Compressible(RateOf(f)),
                     level |-> IF Compressible(RateOf(f))
                               THEN GetCompressionLevel(RateOf(f)) ELSE 0]]
    /\ UNCHANGED <<disk, pc, command, used, outcome, observers>>

\* After it was piped: only files that were compressed give a sample; and if all
\* did, or if the mean were taken with the rate from before the piping.
AlwaysSamples(f) == KindOf[f] = "file"
GivesSample(f) == KindOf[f] = "file" /\ task[f].compress
OldMean(f, sample) == Row(table, ExtensionOf[f], Mean(task[f].rate, sample))
AddCompressionRateSample(f, sample) ==
    Row(table, ExtensionOf[f], Mean(Rate(table, ExtensionOf[f]), sample))
Piped(f) ==
    /\ pc = "backup"
    /\ task[f].pc = "piping"
    /\ task' = [task EXCEPT ![f].pc = "done"]
    /\ IF GivesSample(f)
       THEN \E sample \in RawRates :
                /\ table' = AddCompressionRateSample(f, sample)
                /\ samples' = Append(samples, [ext |-> ExtensionOf[f], rate |-> sample])
       ELSE UNCHANGED <<table, samples>>
    /\ UNCHANGED <<disk, pc, command, used, outcome, base, learned, whole>>

\* BackupNode throws when a file has another size than it was indexed with.
Throw(f) ==
    /\ pc = "backup"
    /\ task[f].pc = "piping"
    /\ End("exception while adding")
    /\ UNCHANGED <<disk, used, learned, whole>>

\* AddSnapshot: all tasks are complete, the snapshot is serialised and protected.
AllTasksComplete ==
    /\ pc = "backup"
    /\ \A f \in Files : task[f].pc = "done"
    /\ pc' = "truncate"
    /\ UNCHANGED <<disk, command, memory, used, outcome, observers>>

-----------------------------------------------------------------------------
\* CompressionStatistics::Write truncates the file, its buffer is written when
\* it is full and at the end.
Truncate ==
    /\ pc = "truncate"
    /\ tableFile' = Contents(<<>>, TRUE)
    /\ pc' = "write table"
    /\ UNCHANGED <<config, dirs, command, memory, used, outcome, observers>>
\* The rows up to that of extension e, the last of which can be cut off: in its
\* digits, which gives a smaller rate, or so that it cannot be parsed.
RowsBefore(e) == [x \in {y \in DOMAIN table : y < e} |-> table[x]]
BufferIsFull(e) ==
    /\ pc = "write table"
    /\ used.kills < MaxKills
    /\ \/ \E r \in {0, table[e]} : tableFile' = Contents(Row(RowsBefore(e), e, r), TRUE)
       \/ tableFile' = Contents(RowsBefore(e), FALSE)
    /\ UNCHANGED <<config, dirs, pc, command, memory, used, outcome, observers>>
\* What is in the file after the last flush; and without the flush.
NothingFlushed == Contents(<<>>, TRUE)
Flushed == Contents(table, TRUE)
Flush ==
    /\ pc = "write table"
    /\ tableFile' = Flushed
    /\ pc' = IF command = "init" THEN "create data" ELSE "add-snapshot ends"
    /\ UNCHANGED <<config, dirs, command, memory, used, outcome, observers>>
AddSnapshotEnds ==
    /\ pc = "add-snapshot ends"
    /\ learned' = table
    /\ whole' = TRUE
    /\ End("success")
    /\ UNCHANGED <<disk, used>>

\* The program is killed: what it has written stays.
Kill ==
    /\ pc # "none"
    /\ used.kills < MaxKills
    /\ used' = [used EXCEPT !.kills = @ + 1]
    /\ whole' = (whole /\ pc # "write table")
    /\ learned' = IF pc = "add-snapshot ends" THEN table ELSE learned
    /\ End("killed")
    /\ UNCHANGED disk

InitStep ==
    \/ StartInit \/ CreateConfig \/ WriteConfig
    \/ CreateDirectory("data", "create data", "create index")
    \/ CreateDirectory("index", "create index", "init ends")
    \/ InitEnds
AddStep ==
    \/ StartAddSnapshot \/ ReadTable
    \/ \E f \in Files : GetCompressionRate(f) \/ Piped(f) \/ Throw(f)
    \/ AllTasksComplete \/ AddSnapshotEnds
Write == Truncate \/ (\E e \in DOMAIN table : BufferIsFull(e)) \/ Flush

Next == InitStep \/ AddStep \/ Write \/ Kill

Spec == Init /\ [][Next]_vars

-----------------------------------------------------------------------------
Tasks == [pc : {"queued", "piping", "done"}, rate : Rates, compress : BOOLEAN,
          level : 0..MaxCompressionLevel]

\* The rates are fractions and the levels are at most the configured one, in the
\* table, in its file and in the tasks (AddCompressionRateSample's clamp, which a
\* file that grows when it is compressed needs, and GetCompressionLevel).
TypeOK ==
    /\ config \in {"none", "cut off", "whole"}
    /\ dirs \subseteq {"data", "index"}
    /\ tableFile \in TableFile \cup {NoFile}
    /\ pc \in {"none", "create config", "write config", "create data", "create index",
               "init ends", "read table", "backup", "truncate", "write table",
               "add-snapshot ends"}
    /\ command \in {"none", "init", "add-snapshot"}
    /\ table \in Tables /\ base \in Tables /\ learned \in Tables
    /\ task \in [Files -> Tasks]

\* Every sample counts once and in the order in which the tasks add them, however
\* the look-ups and samples of files with the same extension interleave: the
\* table is what these samples make of the table that was read
\* (AddCompressionRateSample reads the old rate under its lock).
After(e, t, added) ==
    LET rate[n \in 0..Len(added)] ==
            IF n = 0 THEN Rate(t, e)
            ELSE IF added[n].ext = e THEN Mean(rate[n - 1], added[n].rate)
            ELSE rate[n - 1]
    IN  rate[Len(added)]
NoSampleLost == command # "none" => \A e \in DOMAIN table : table[e] = After(e, base, samples)

\* What is known to be incompressible at the start of a program stays exactly as it
\* is: such files are not compressed, so nothing can be learned about them
\* (BackupNode adds a sample for a compressed file only).
IncompressibleStays ==
    command # "none" =>
        \A e \in DOMAIN base : ~Compressible(base[e]) => table[e] = base[e]

\* Between the programs the file holds what the last successful one has learned,
\* unless a program was killed while it wrote it; and then the programs that need
\* it can run (Write flushes, every way to end before it leaves the file alone).
LearnedIsKept ==
    (command = "none" /\ learned # <<>> /\ whole) =>
        tableFile = Contents(learned, TRUE) /\ outcome # "exception"

=============================================================================
