-------------------- MODULE CompressionStatistics_proofs --------------------
(***************************************************************************)
(* Proofs about the compression statistics, for any nodes, extensions,     *)
(* rates and numbers of threads, programs and kills.  The samples of       *)
(* concurrent tasks and the kills change the table and its file; the       *)
(* inductive invariants say what belongs to what in each phase of a        *)
(* program.                                                                *)
(***************************************************************************)
EXTENDS CompressionStatistics, InductionLemmas

-----------------------------------------------------------------------------
(* What the operators on tables and rates give. *)

\* A table is a function from some of the extensions to rates.
LEMMA TableIs ==
    ASSUME NEW t
    PROVE  t \in Tables <=> DOMAIN t \subseteq Extensions /\ t \in [DOMAIN t -> Rates]
<1>1. ASSUME t \in Tables PROVE DOMAIN t \subseteq Extensions /\ t \in [DOMAIN t -> Rates]
  <2>1. PICK D \in SUBSET Extensions : t \in [D -> Rates]
    BY <1>1 DEF Tables
  <2>2. QED
    BY <2>1
<1>2. ASSUME DOMAIN t \subseteq Extensions, t \in [DOMAIN t -> Rates] PROVE t \in Tables
  BY <1>2 DEF Tables
<1>3. QED
  BY <1>1, <1>2

\* The extension of a file is one of the extensions.
LEMMA ExtensionsOfFiles == \A f \in Files : ExtensionOf[f] \in Extensions
BY DEF Extensions

\* The rate 1 is a positive number, and 0 and 1 are rates.
LEMMA UnitPositive == Unit \in Nat /\ Unit > 0 /\ 0 \in Rates /\ Unit \in Rates
BY NumbersAssumption DEF Rates

\* The table without rows is a table, and so is that of the incompressible extensions.
LEMMA EmptyTable == <<>> \in Tables
<1>1. PICK t : t = [x \in {} |-> 0]
  OBVIOUS
<1>2. t = <<>>
  BY <1>1
<1>3. DOMAIN t = {} /\ t \in [{} -> Rates]
  BY <1>1
<1>4. QED
  BY <1>2, <1>3 DEF Tables

\* init writes a table.
LEMMA IncompressibleTable == SetAsIncompressible \in Tables
<1>1. SetAsIncompressible \in [Incompressible -> Rates]
  BY UnitPositive DEF SetAsIncompressible
<1>2. QED
  BY <1>1 DEF Tables, Extensions

\* A table with one row more, or another rate in one, differs there only.
LEMMA RowIs ==
    ASSUME NEW t \in Tables, NEW e \in Extensions, NEW r \in Rates
    PROVE  /\ Row(t, e, r) \in Tables
           /\ DOMAIN Row(t, e, r) = DOMAIN t \cup {e}
           /\ Row(t, e, r)[e] = r
           /\ \A x \in DOMAIN t : x # e => Row(t, e, r)[x] = t[x]
<1>1. DOMAIN t \subseteq Extensions /\ t \in [DOMAIN t -> Rates]
  BY TableIs
<1>2. DOMAIN t \cup {e} \subseteq Extensions
  BY <1>1
<1>3. Row(t, e, r) \in [DOMAIN t \cup {e} -> Rates]
  BY <1>1 DEF Row
<1>4. QED
  BY <1>2, <1>3 DEF Row, Tables

\* Of a table only rates are read.
LEMMA RateIs ==
    ASSUME NEW t \in Tables, NEW e
    PROVE  Rate(t, e) \in Rates
<1>1. t \in [DOMAIN t -> Rates]
  BY TableIs
<1>2. QED
  BY <1>1, UnitPositive DEF Rate

\* The mean of a rate and a clamped sample is a rate.
LEMMA MeanIs ==
    ASSUME NEW r \in Rates, NEW sample \in Nat
    PROVE  Mean(r, sample) \in Rates
<1>1. PICK s \in 0..Unit : s = Clamp(sample, 0, Unit)
  BY UnitPositive DEF Clamp
<1>2. (r + s) \div 2 \in 0..Unit
  BY UnitPositive DEF Rates
<1>3. QED
  BY <1>1, <1>2 DEF Mean, Rates

\* The rounded fraction is at most maxCompressionLevel + 1.
LEMMA LevelIs ==
    ASSUME NEW r \in Rates
    PROVE  GetCompressionLevel(r) \in 0..MaxCompressionLevel
<1>1. PICK m \in 0..9 : m = MaxCompressionLevel
  BY NumbersAssumption DEF Levels
<1>2. PICK d \in Nat : d = 2 * Unit /\ d > 0
  BY UnitPositive
<1>3. PICK a \in Nat : a = Unit - r /\ a <= Unit
  BY UnitPositive DEF Rates
<1>4. PICK n \in Nat : n = 2 * (m + 1) * a + Unit
  BY UnitPositive, SMTT(30)
<1>5. n < (m + 2) * d
  <2>1. (m + 1) * a <= (m + 1) * Unit
    BY <1>3, UnitPositive, SMTT(30)
  <2>2. n <= 2 * ((m + 1) * Unit) + Unit
    BY <1>4, <2>1, UnitPositive, SMTT(30)
  <2>3. (m + 2) * d = 2 * ((m + 1) * Unit) + 2 * Unit
    BY <1>2, UnitPositive, SMTT(30)
  <2>4. QED
    BY <2>2, <2>3, UnitPositive, SMTT(30)
<1>6. n \div d <= m + 1 /\ n \div d \in Int
  BY <1>2, <1>5, SMTT(30)
<1>7. Rounded(r) <= m + 1 /\ Rounded(r) \in Int
  BY <1>1, <1>2, <1>3, <1>4, <1>6 DEF Rounded
<1>8. QED
  BY <1>1, <1>7 DEF GetCompressionLevel, Clamp

-----------------------------------------------------------------------------
(* Types. *)

\* What GetCompressionRate remembers of the rate it has looked up.
LEMMA LookUpIs ==
    ASSUME TypeOK, NEW f \in Files
    PROVE  /\ RateOf(f) \in Rates
           /\ LookedUp(f) \in Tables
           /\ DOMAIN table \subseteq DOMAIN LookedUp(f)
           /\ \A x \in DOMAIN table : LookedUp(f)[x] = table[x]
<1>1. table \in Tables /\ ExtensionOf[f] \in Extensions
  BY ExtensionsOfFiles DEF TypeOK
<1>2. PICK r \in Rates : r = Rate(table, ExtensionOf[f])
  BY <1>1, RateIs
<1>3. RateOf(f) \in Rates
  BY <1>2, UnitPositive DEF RateOf
<1>4. ExtensionOf[f] \in DOMAIN table => r = table[ExtensionOf[f]]
  BY <1>2 DEF Rate
<1>5. CASE KindOf[f] \in {"file", "empty file"}
  <2>1. PICK e \in Extensions : e = ExtensionOf[f]
    BY <1>1
  <2>2. LookedUp(f) = Row(table, e, r)
    BY <1>2, <1>5, <2>1 DEF LookedUp
  <2>3. /\ Row(table, e, r) \in Tables
        /\ DOMAIN Row(table, e, r) = DOMAIN table \cup {e}
        /\ Row(table, e, r)[e] = r
        /\ \A x \in DOMAIN table : x # e => Row(table, e, r)[x] = table[x]
    BY <1>1, RowIs
  <2>4. QED
    BY <1>3, <1>4, <2>1, <2>2, <2>3
<1>6. CASE KindOf[f] \notin {"file", "empty file"}
  <2>1. LookedUp(f) = table
    BY <1>6 DEF LookedUp
  <2>2. QED
    BY <1>1, <1>3, <2>1
<1>7. QED
  BY <1>5, <1>6

\* What Piped makes of the table.
LEMMA SampleIs ==
    ASSUME TypeOK, NEW f \in Files, NEW sample \in RawRates
    PROVE  /\ AddCompressionRateSample(f, sample) \in Tables
           /\ DOMAIN table \subseteq DOMAIN AddCompressionRateSample(f, sample)
           /\ \A x \in DOMAIN table :
                x # ExtensionOf[f] => AddCompressionRateSample(f, sample)[x] = table[x]
<1>1. table \in Tables /\ ExtensionOf[f] \in Extensions /\ sample \in Nat
  BY ExtensionsOfFiles, NumbersAssumption DEF TypeOK
<1>2. PICK r \in Rates : r = Mean(Rate(table, ExtensionOf[f]), sample)
  BY <1>1, RateIs, MeanIs
<1>3. PICK e \in Extensions : e = ExtensionOf[f]
  BY <1>1
<1>4. AddCompressionRateSample(f, sample) = Row(table, e, r)
  BY <1>2, <1>3 DEF AddCompressionRateSample
<1>5. /\ Row(table, e, r) \in Tables
      /\ DOMAIN Row(table, e, r) = DOMAIN table \cup {e}
      /\ \A x \in DOMAIN table : x # e => Row(table, e, r)[x] = table[x]
  BY <1>1, RowIs
<1>6. QED
  BY <1>3, <1>4, <1>5

\* The file's contents are the rows and whether they can be read.
LEMMA ContentsIs ==
    ASSUME NEW t \in Tables, NEW b \in BOOLEAN
    PROVE  /\ Contents(t, b) \in TableFile
           /\ Contents(t, b).rows = t /\ Contents(t, b).readable = b
BY DEF Contents, TableFile

\* A task that is queued is a task.
LEMMA NoTaskType == NoTask \in Tasks
<1>1. 0 \in 0..MaxCompressionLevel /\ 0 \in Rates
  BY NumbersAssumption, UnitPositive DEF Levels
<1>2. QED
  BY <1>1 DEF NoTask, Tasks

\* A program that ends leaves the disk's types to its last step.
LEMMA EndTypes ==
    ASSUME NEW result, End(result)
    PROVE  /\ pc' = "none" /\ command' = "none"
           /\ table' \in Tables /\ base' \in Tables /\ task' \in [Files -> Tasks]
BY EmptyTable, NoTaskType DEF End

\* The types at first.
LEMMA InitTypes == Init => TypeOK
BY EmptyTable, NoTaskType DEF Init, TypeOK

\* Every step keeps the types.
LEMMA NextTypes == TypeOK /\ [Next]_vars => TypeOK'
<1> SUFFICES ASSUME TypeOK, [Next]_vars PROVE TypeOK'
  OBVIOUS
<1>1. CASE StartInit
  <2>1. CASE IsDirectoryEmpty
    BY <1>1, <2>1, IncompressibleTable DEF StartInit, TypeOK, disk
  <2>2. CASE ~IsDirectoryEmpty
    BY <1>1, <2>2, EndTypes DEF StartInit, TypeOK, disk
  <2>3. QED
    BY <2>1, <2>2
<1>2. CASE CreateConfig \/ WriteConfig \/ AllTasksComplete
  BY <1>2 DEF CreateConfig, WriteConfig, AllTasksComplete, TypeOK, disk, memory, observers
<1>3. CASE \/ CreateDirectory("data", "create data", "create index")
           \/ CreateDirectory("index", "create index", "init ends")
  BY <1>3 DEF CreateDirectory, TypeOK, memory, observers
<1>4. CASE InitEnds \/ AddSnapshotEnds
  BY <1>4, EndTypes DEF InitEnds, AddSnapshotEnds, TypeOK, disk
<1>5. CASE StartAddSnapshot
  <2>1. CASE config = "whole" /\ "index" \in dirs
    BY <1>5, <2>1 DEF StartAddSnapshot, TypeOK, disk, memory
  <2>2. CASE ~(config = "whole" /\ "index" \in dirs)
    BY <1>5, <2>2, EndTypes DEF StartAddSnapshot, TypeOK, disk
  <2>3. QED
    BY <2>1, <2>2
<1>6. CASE ReadTable
  <2>1. CASE tableFile = NoFile \/ ~tableFile.readable
    BY <1>6, <2>1, EndTypes DEF ReadTable, TypeOK, disk
  <2>2. CASE ~(tableFile = NoFile \/ ~tableFile.readable)
    <3>1. tableFile.rows \in Tables
      BY <2>2 DEF TypeOK, TableFile
    <3>2. QED
      BY <1>6, <2>2, <3>1 DEF ReadTable, TypeOK, disk
  <2>3. QED
    BY <2>1, <2>2
<1>7. ASSUME NEW f \in Files, GetCompressionRate(f) PROVE TypeOK'
  <2>1. PICK level \in 0..MaxCompressionLevel :
          level = IF Compressible(RateOf(f)) THEN GetCompressionLevel(RateOf(f)) ELSE 0
    <3>1. PICK r \in Rates : r = RateOf(f)
      BY LookUpIs
    <3>2. GetCompressionLevel(r) \in 0..MaxCompressionLevel /\ 0 \in 0..MaxCompressionLevel
      BY LevelIs, NumbersAssumption DEF Levels
    <3>3. QED
      BY <3>1, <3>2
  <2>2. PICK compress \in BOOLEAN : compress = Compressible(RateOf(f))
    <3>1. PICK a \in Int : a = 10 * RateOf(f)
      BY LookUpIs, UnitPositive DEF Rates
    <3>2. PICK b \in Int : b = 9 * Unit
      BY UnitPositive
    <3>3. (a <= b) \in BOOLEAN
      BY SMT
    <3>4. QED
      BY <3>1, <3>2, <3>3 DEF Compressible
  <2>3. [pc |-> "piping", rate |-> RateOf(f), compress |-> compress, level |-> level] \in Tasks
    BY LookUpIs DEF Tasks
  <2>4. task' \in [Files -> Tasks]
    BY <1>7, <2>1, <2>2, <2>3 DEF GetCompressionRate, TypeOK
  <2>5. table' \in Tables
    BY <1>7, LookUpIs DEF GetCompressionRate
  <2>6. QED
    BY <1>7, <2>4, <2>5 DEF GetCompressionRate, TypeOK, disk, observers
<1>8. ASSUME NEW f \in Files, Piped(f) PROVE TypeOK'
  <2>1. task' \in [Files -> Tasks]
    BY <1>8 DEF Piped, TypeOK, Tasks
  <2>2. table' \in Tables
    BY <1>8, SampleIs DEF Piped, TypeOK
  <2>3. QED
    BY <1>8, <2>1, <2>2 DEF Piped, TypeOK, disk
<1>9. ASSUME NEW f \in Files, Throw(f) PROVE TypeOK'
  BY <1>9, EndTypes DEF Throw, TypeOK, disk
<1>10. CASE Truncate \/ Flush
  <2>1. Contents(<<>>, TRUE) \in TableFile /\ Contents(table, TRUE) \in TableFile
    BY EmptyTable, ContentsIs DEF TypeOK
  <2>2. QED
    BY <1>10, <2>1 DEF Truncate, Flush, Flushed, TypeOK, memory, observers
<1>11. ASSUME NEW e \in DOMAIN table, BufferIsFull(e) PROVE TypeOK'
  <2>1. DOMAIN table \subseteq Extensions /\ table \in [DOMAIN table -> Rates]
    BY TableIs DEF TypeOK
  <2>2. RowsBefore(e) \in Tables
    <3>1. PICK D : D = {y \in DOMAIN table : y < e}
      OBVIOUS
    <3>2. D \subseteq Extensions /\ RowsBefore(e) \in [D -> Rates]
      BY <2>1, <3>1 DEF RowsBefore
    <3>3. QED
      BY <3>2 DEF Tables
  <2>3. \A r \in {0, table[e]} : Row(RowsBefore(e), e, r) \in Tables
    <3>1. e \in Extensions /\ {0, table[e]} \subseteq Rates
      BY <2>1, UnitPositive
    <3>2. QED
      BY <2>2, <3>1, RowIs
  <2>4. tableFile' \in TableFile
    BY <1>11, <2>2, <2>3, ContentsIs DEF BufferIsFull
  <2>5. QED
    BY <1>11, <2>4 DEF BufferIsFull, TypeOK, memory, observers
<1>12. CASE Kill
  BY <1>12, EndTypes DEF Kill, TypeOK, disk
<1>13. CASE UNCHANGED vars
  BY <1>13 DEF vars, TypeOK, disk, memory, observers
<1>14. QED
  BY <1>1, <1>2, <1>3, <1>4, <1>5, <1>6, <1>7, <1>8, <1>9, <1>10, <1>11, <1>12, <1>13
     DEF Next, InitStep, AddStep, Write

\* Rates stay fractions and levels stay at most the configured one, for any size
\* that a compressor can make of a file (the clamps of AddCompressionRateSample and
\* GetCompressionLevel).
THEOREM StatisticsTypeCorrect == Spec => []TypeOK
<1>1. QED
  BY InitTypes, NextTypes, PTL DEF Spec

-----------------------------------------------------------------------------
(* Phases: which program runs, and what it has read. *)

InitPcs == {"create config", "write config", "create data", "create index", "init ends"}
AddPcs == {"read table", "backup", "add-snapshot ends"}

\* The pc says which program runs; before a table is read nothing has changed it, and
\* tasks run in the backup only.
Phases ==
    /\ (pc = "none") <=> (command = "none")
    /\ pc \in InitPcs => command = "init"
    /\ pc \in AddPcs => command = "add-snapshot"
    /\ pc \in {"none", "read table"} => base = <<>>
    /\ pc # "backup" => \A f \in Files : task[f].pc # "piping"

\* Where a program ends, and at first, no program runs.
LEMMA EndPhases ==
    ASSUME NEW result, End(result)
    PROVE  Phases'
BY DEF End, Phases, InitPcs, AddPcs, NoTask

\* The phases at first.
LEMMA InitPhases == Init => Phases
BY DEF Init, Phases, InitPcs, AddPcs, NoTask

\* Every step keeps the phases.
LEMMA NextPhases == TypeOK /\ Phases /\ [Next]_vars => Phases'
<1> SUFFICES ASSUME TypeOK, Phases, [Next]_vars PROVE Phases'
  OBVIOUS
<1>1. CASE StartInit
  <2>1. CASE IsDirectoryEmpty
    BY <1>1, <2>1 DEF StartInit, Phases, InitPcs, AddPcs, disk
  <2>2. CASE ~IsDirectoryEmpty
    BY <1>1, <2>2, EndPhases DEF StartInit
  <2>3. QED
    BY <2>1, <2>2
<1>2. CASE CreateConfig \/ WriteConfig
  BY <1>2 DEF CreateConfig, WriteConfig, Phases, InitPcs, AddPcs, memory, observers
<1>3. CASE AllTasksComplete
  BY <1>3 DEF AllTasksComplete, Phases, InitPcs, AddPcs, memory, observers
<1>4. CASE \/ CreateDirectory("data", "create data", "create index")
           \/ CreateDirectory("index", "create index", "init ends")
  BY <1>4 DEF CreateDirectory, Phases, InitPcs, AddPcs, memory, observers
<1>5. CASE InitEnds \/ AddSnapshotEnds
  BY <1>5, EndPhases DEF InitEnds, AddSnapshotEnds
<1>6. CASE StartAddSnapshot
  <2>1. CASE config = "whole" /\ "index" \in dirs
    BY <1>6, <2>1 DEF StartAddSnapshot, Phases, InitPcs, AddPcs, memory
  <2>2. CASE ~(config = "whole" /\ "index" \in dirs)
    BY <1>6, <2>2, EndPhases DEF StartAddSnapshot
  <2>3. QED
    BY <2>1, <2>2
<1>7. CASE ReadTable
  <2>1. CASE tableFile = NoFile \/ ~tableFile.readable
    BY <1>7, <2>1, EndPhases DEF ReadTable
  <2>2. CASE ~(tableFile = NoFile \/ ~tableFile.readable)
    BY <1>7, <2>2 DEF ReadTable, Phases, InitPcs, AddPcs
  <2>3. QED
    BY <2>1, <2>2
<1>8. ASSUME NEW f \in Files, GetCompressionRate(f) \/ Piped(f) PROVE Phases'
  BY <1>8 DEF GetCompressionRate, Piped, Phases, InitPcs, AddPcs, observers
<1>9. ASSUME NEW f \in Files, Throw(f) PROVE Phases'
  BY <1>9, EndPhases DEF Throw
<1>10. CASE Truncate \/ Flush
  <2>1. CASE Truncate
    BY <2>1 DEF Truncate, Phases, InitPcs, AddPcs, memory, observers
  <2>2. CASE Flush
    <3>1. CASE command = "init"
      BY <2>2, <3>1 DEF Flush, Phases, InitPcs, AddPcs, memory, observers
    <3>2. CASE command # "init"
      <4>1. command = "add-snapshot"
        BY <2>2, <3>2 DEF Flush, Phases, TypeOK
      <4>2. QED
        BY <2>2, <3>2, <4>1 DEF Flush, Phases, InitPcs, AddPcs, memory, observers
    <3>3. QED
      BY <3>1, <3>2
  <2>3. QED
    BY <1>10, <2>1, <2>2
<1>11. ASSUME NEW e \in DOMAIN table, BufferIsFull(e) PROVE Phases'
  BY <1>11 DEF BufferIsFull, Phases, memory, observers
<1>12. CASE Kill
  BY <1>12, EndPhases DEF Kill
<1>13. CASE UNCHANGED vars
  BY <1>13 DEF vars, Phases, memory, observers
<1>14. QED
  BY <1>1, <1>2, <1>3, <1>4, <1>5, <1>6, <1>7, <1>8, <1>9, <1>10, <1>11, <1>12, <1>13
     DEF Next, InitStep, AddStep, Write

-----------------------------------------------------------------------------
(* What is incompressible stays.  A sample can reach an extension only through a *)
(* task that looked its rate up and found it compressible, maybe long before.    *)

\* The rates over the limit are those of the start, and no task will sample them.
Fixed ==
    /\ IncompressibleStays
    /\ command # "none" => DOMAIN base \subseteq DOMAIN table
    /\ \A f \in Files :
        /\ task[f].pc = "piping" /\ GivesSample(f)
        /\ ExtensionOf[f] \in DOMAIN base
        => Compressible(base[ExtensionOf[f]])

\* Without a program there is nothing to keep.
LEMMA EndFixed ==
    ASSUME NEW result, End(result)
    PROVE  Fixed'
BY DEF End, Fixed, IncompressibleStays, NoTask

\* A step that leaves the table and the tasks alone.
LEMMA SameTableFixed ==
    ASSUME Fixed, UNCHANGED <<command, table, task, base>>
    PROVE  Fixed'
BY DEF Fixed, IncompressibleStays, GivesSample

\* The invariant holds at first.
LEMMA InitFixed == Init => Fixed
BY DEF Init, Fixed, IncompressibleStays, NoTask

\* Every step keeps it: a task that samples has looked up a rate within the limit.
LEMMA NextFixed == TypeOK /\ Phases /\ Fixed /\ [Next]_vars => Fixed'
<1> SUFFICES ASSUME TypeOK, Phases, Fixed, [Next]_vars PROVE Fixed'
  OBVIOUS
<1>1. CASE StartInit
  <2>1. CASE IsDirectoryEmpty
    <3>1. table' = base' /\ UNCHANGED task /\ pc = "none"
      BY <1>1, <2>1 DEF StartInit
    <3>2. QED
      BY <3>1 DEF Fixed, IncompressibleStays, Phases
  <2>2. CASE ~IsDirectoryEmpty
    BY <1>1, <2>2, EndFixed DEF StartInit
  <2>3. QED
    BY <2>1, <2>2
<1>2. CASE \/ CreateConfig \/ WriteConfig \/ AllTasksComplete \/ Truncate \/ Flush
           \/ CreateDirectory("data", "create data", "create index")
           \/ CreateDirectory("index", "create index", "init ends")
  BY <1>2, SameTableFixed DEF CreateConfig, WriteConfig, AllTasksComplete, Truncate, Flush,
     CreateDirectory, memory, observers
<1>3. CASE InitEnds \/ AddSnapshotEnds
  BY <1>3, EndFixed DEF InitEnds, AddSnapshotEnds
<1>4. CASE StartAddSnapshot
  <2>1. CASE config = "whole" /\ "index" \in dirs
    <3>1. UNCHANGED <<table, task, base>> /\ base = <<>> /\ pc = "none"
      BY <1>4, <2>1 DEF StartAddSnapshot, memory, Phases
    <3>2. DOMAIN base' = {}
      BY <3>1
    <3>3. QED
      BY <3>1, <3>2 DEF Fixed, IncompressibleStays, Phases
  <2>2. CASE ~(config = "whole" /\ "index" \in dirs)
    BY <1>4, <2>2, EndFixed DEF StartAddSnapshot
  <2>3. QED
    BY <2>1, <2>2
<1>5. CASE ReadTable
  <2>1. CASE tableFile = NoFile \/ ~tableFile.readable
    BY <1>5, <2>1, EndFixed DEF ReadTable
  <2>2. CASE ~(tableFile = NoFile \/ ~tableFile.readable)
    <3>1. table' = base' /\ UNCHANGED task /\ pc = "read table"
      BY <1>5, <2>2 DEF ReadTable
    <3>2. QED
      BY <3>1 DEF Fixed, IncompressibleStays, Phases
  <2>3. QED
    BY <2>1, <2>2
<1>6. ASSUME NEW f \in Files, GetCompressionRate(f) PROVE Fixed'
  <2>1. /\ table' = LookedUp(f) /\ UNCHANGED <<command, base>>
        /\ \A x \in DOMAIN table : x \in DOMAIN table' /\ table'[x] = table[x]
    BY <1>6, LookUpIs DEF GetCompressionRate, observers
  <2>2. IncompressibleStays' /\ (command' # "none" => DOMAIN base' \subseteq DOMAIN table')
    BY <2>1 DEF Fixed, IncompressibleStays
  <2>3. command # "none"
    BY <1>6 DEF GetCompressionRate, Phases
  <2>4. ASSUME NEW g \in Files, task'[g].pc = "piping", GivesSample(g)',
               ExtensionOf[g] \in DOMAIN base
        PROVE  Compressible(base[ExtensionOf[g]])
    <3>1. CASE g = f
      <4>1. KindOf[f] = "file" /\ Compressible(RateOf(f))
        BY <1>6, <2>4, <3>1 DEF GivesSample, GetCompressionRate, TypeOK
      <4>2. RateOf(f) = table[ExtensionOf[f]]
        BY <2>3, <2>4, <3>1, <4>1 DEF RateOf, Rate, Fixed
      <4>3. QED
        BY <2>3, <2>4, <3>1, <4>1, <4>2 DEF Fixed, IncompressibleStays
    <3>2. CASE g # f
      BY <1>6, <2>4, <3>2 DEF GetCompressionRate, GivesSample, Fixed, TypeOK
    <3>3. QED
      BY <3>1, <3>2
  <2>5. QED
    BY <2>1, <2>2, <2>4 DEF Fixed
<1>7. ASSUME NEW f \in Files, Piped(f) PROVE Fixed'
  <2>1. /\ task[f].pc = "piping" /\ task' = [task EXCEPT ![f].pc = "done"]
        /\ UNCHANGED <<command, base>>
    BY <1>7 DEF Piped
  <2>2. \/ UNCHANGED table
        \/ GivesSample(f) /\ \E sample \in RawRates : table' = AddCompressionRateSample(f, sample)
    BY <1>7 DEF Piped
  <2>3. \A g \in Files : task'[g].pc = "piping" =>
            /\ task'[g] = task[g] /\ (GivesSample(g)' <=> GivesSample(g))
    BY <2>1 DEF TypeOK, Tasks, GivesSample
  <2>4. \A x \in DOMAIN table : /\ x \in DOMAIN table'
                                /\ table'[x] = table[x] \/ (GivesSample(f) /\ x = ExtensionOf[f])
    BY <2>2, SampleIs
  <2>5. IncompressibleStays' /\ (command' # "none" => DOMAIN base' \subseteq DOMAIN table')
    BY <2>1, <2>4 DEF Fixed, IncompressibleStays
  <2>6. QED
    BY <2>1, <2>3, <2>5 DEF Fixed
<1>8. ASSUME NEW f \in Files, Throw(f) PROVE Fixed'
  BY <1>8, EndFixed DEF Throw
<1>9. ASSUME NEW e \in DOMAIN table, BufferIsFull(e) PROVE Fixed'
  BY <1>9, SameTableFixed DEF BufferIsFull, memory, observers
<1>10. CASE Kill
  BY <1>10, EndFixed DEF Kill
<1>11. CASE UNCHANGED vars
  BY <1>11, SameTableFixed DEF vars, memory, observers
<1>12. QED
  BY <1>1, <1>2, <1>3, <1>4, <1>5, <1>6, <1>7, <1>8, <1>9, <1>10, <1>11
     DEF Next, InitStep, AddStep, Write

\* A rate above 0.9 of the table that a program starts with does not change while it
\* runs, whatever the other tasks with that extension look up and add meanwhile.
THEOREM IncompressibleIsFinal == Spec => []IncompressibleStays
<1>1. Fixed => IncompressibleStays
  BY DEF Fixed
<1>2. QED
  BY <1>1, InitTypes, NextTypes, InitPhases, NextPhases, InitFixed, NextFixed, PTL DEF Spec

-----------------------------------------------------------------------------
(* What was learned is kept.  The file is the learned table until it is truncated *)
(* and the program's table after it was flushed; only a kill in between, which    *)
(* whole records, leaves anything else.                                           *)

Whole == config = "whole" /\ "index" \in dirs

Kept ==
    /\ learned # <<>> => Whole
    /\ command = "init" =>
        /\ learned = <<>>
        /\ pc \notin {"create config", "write config"} => config = "whole"
        /\ pc = "init ends" => "index" \in dirs
    /\ command = "add-snapshot" => Whole
    /\ pc \in {"create data", "create index", "init ends", "add-snapshot ends"} =>
        tableFile = Contents(table, TRUE)
    /\ whole /\ learned # <<>> /\ pc \notin {"write table", "add-snapshot ends"} =>
        tableFile = Contents(learned, TRUE)
    /\ command = "none" /\ whole /\ learned # <<>> => outcome # "exception"

\* The invariant holds at first.
LEMMA InitKept == Init => Kept
BY DEF Init, Kept

\* A step of a running program that leaves the disk and what was learned alone.
LEMMA SameDiskKept ==
    ASSUME Kept, UNCHANGED <<config, dirs, tableFile, command, learned, whole>>,
           command # "none",
           pc' = pc \/ (pc \in {"read table", "backup"} /\ pc' \in {"backup", "truncate"}),
           pc' # "backup" => UNCHANGED table
    PROVE  Kept'
BY DEF Kept, Whole

\* A program that ends for another reason than an exception that the files cause.
LEMMA EndKept ==
    ASSUME Kept, NEW result, End(result), UNCHANGED <<config, dirs, tableFile>>,
           result # "exception",
           \/ UNCHANGED learned /\ (whole' => whole /\ pc # "write table")
              /\ pc # "add-snapshot ends"
           \/ learned' = table /\ Whole /\ pc \in {"init ends", "add-snapshot ends"}
    PROVE  Kept'
BY DEF End, Kept, Whole

\* Every step keeps it.
LEMMA NextKept == TypeOK /\ Phases /\ Kept /\ [Next]_vars => Kept'
<1> SUFFICES ASSUME TypeOK, Phases, Kept, [Next]_vars PROVE Kept'
  OBVIOUS
<1>1. CASE StartInit
  <2>1. CASE IsDirectoryEmpty
    <3>1. learned = <<>>
      BY <2>1 DEF IsDirectoryEmpty, Kept, Whole
    <3>2. QED
      BY <1>1, <2>1, <3>1 DEF StartInit, disk, Kept, Whole
  <2>2. CASE ~IsDirectoryEmpty
    BY <1>1, <2>2, EndKept DEF StartInit, disk
  <2>3. QED
    BY <2>1, <2>2
<1>2. CASE CreateConfig \/ WriteConfig
  <2>1. command = "init" /\ learned = <<>>
    BY <1>2 DEF CreateConfig, WriteConfig, Phases, InitPcs, Kept
  <2>2. QED
    BY <1>2, <2>1 DEF CreateConfig, WriteConfig, Kept, Whole, observers
<1>3. CASE \/ CreateDirectory("data", "create data", "create index")
           \/ CreateDirectory("index", "create index", "init ends")
  <2>1. command = "init" /\ learned = <<>>
    BY <1>3 DEF CreateDirectory, Phases, InitPcs, Kept
  <2>2. QED
    BY <1>3, <2>1 DEF CreateDirectory, Kept, Whole, observers, memory
<1>4. CASE InitEnds \/ AddSnapshotEnds
  <2>1. Whole /\ tableFile = Contents(table, TRUE)
    BY <1>4 DEF InitEnds, AddSnapshotEnds, Phases, InitPcs, AddPcs, Kept, Whole
  <2>2. learned' = table /\ End("success") /\ UNCHANGED disk
    BY <1>4 DEF InitEnds, AddSnapshotEnds
  <2>3. QED
    BY <2>1, <2>2 DEF End, Kept, Whole, disk
<1>5. CASE StartAddSnapshot
  <2>1. CASE Whole
    <3>1. /\ UNCHANGED <<config, dirs, tableFile, learned, whole>>
          /\ pc = "none" /\ pc' = "read table" /\ command' = "add-snapshot"
      BY <1>5, <2>1 DEF StartAddSnapshot, Whole, disk
    <3>2. QED
      BY <2>1, <3>1 DEF Kept, Whole
  <2>2. CASE ~Whole
    <3>1. learned = <<>>
      BY <2>2 DEF Kept
    <3>2. QED
      BY <1>5, <2>2, <3>1 DEF StartAddSnapshot, Whole, End, Kept, disk
  <2>3. QED
    BY <2>1, <2>2
<1>6. CASE ReadTable
  <2>1. CASE tableFile = NoFile \/ ~tableFile.readable
    <3>1. ~(whole /\ learned # <<>>)
      <4>1. SUFFICES ASSUME whole, learned # <<>> PROVE FALSE
        OBVIOUS
      <4>2. tableFile = Contents(learned, TRUE)
        BY <1>6, <4>1 DEF ReadTable, Kept
      <4>3. tableFile \in TableFile /\ tableFile.readable
        BY <4>2, ContentsIs DEF TypeOK
      <4>4. QED
        BY <2>1, <4>3, NoFileAssumption
    <3>2. QED
      BY <1>6, <2>1, <3>1 DEF ReadTable, End, Kept, Whole, disk
  <2>2. CASE ~(tableFile = NoFile \/ ~tableFile.readable)
    BY <1>6, <2>2, SameDiskKept DEF ReadTable, disk, Phases
  <2>3. QED
    BY <2>1, <2>2
<1>7. ASSUME NEW f \in Files, GetCompressionRate(f) \/ Piped(f) PROVE Kept'
  BY <1>7, SameDiskKept DEF GetCompressionRate, Piped, disk, observers, Phases
<1>8. ASSUME NEW f \in Files, Throw(f) PROVE Kept'
  BY <1>8, EndKept DEF Throw, disk
<1>9. CASE AllTasksComplete
  BY <1>9, SameDiskKept DEF AllTasksComplete, disk, memory, observers, Phases
<1>10. CASE Truncate
  BY <1>10 DEF Truncate, Kept, Whole, memory, observers
<1>11. CASE Flush
  <2>1. /\ pc = "write table" /\ tableFile' = Contents(table, TRUE)
        /\ UNCHANGED <<config, dirs, command, table, learned, whole>>
    BY <1>11 DEF Flush, Flushed, memory, observers
  <2>2. CASE command = "init"
    BY <1>11, <2>1, <2>2 DEF Flush, Kept, Whole
  <2>3. CASE command # "init"
    <3>1. command = "add-snapshot" /\ pc' = "add-snapshot ends"
      BY <1>11, <2>1, <2>3 DEF Flush, Phases, TypeOK
    <3>2. QED
      BY <2>1, <3>1 DEF Kept, Whole
  <2>4. QED
    BY <2>2, <2>3
<1>12. ASSUME NEW e \in DOMAIN table, BufferIsFull(e) PROVE Kept'
  BY <1>12 DEF BufferIsFull, Kept, Whole, memory, observers
<1>13. CASE Kill
  <2>1. CASE pc = "add-snapshot ends"
    <3>1. /\ learned' = table /\ (whole' <=> whole) /\ UNCHANGED <<config, dirs, tableFile>>
          /\ End("killed") /\ Whole /\ tableFile = Contents(table, TRUE)
      BY <1>13, <2>1 DEF Kill, disk, Phases, AddPcs, Kept
    <3>2. QED
      BY <3>1 DEF End, Kept, Whole
  <2>2. CASE pc # "add-snapshot ends"
    BY <1>13, <2>2, EndKept DEF Kill, disk
  <2>3. QED
    BY <2>1, <2>2
<1>14. CASE UNCHANGED vars
  BY <1>14 DEF vars, Kept, Whole, disk, memory, observers
<1>15. QED
  BY <1>1, <1>2, <1>3, <1>4, <1>5, <1>6, <1>7, <1>8, <1>9, <1>10, <1>11, <1>12, <1>13, <1>14
     DEF Next, InitStep, AddStep, Write

\* A program that ends in any way, killed or with an exception, leaves the table that
\* the last successful one has learned, unless it is killed while it writes the table;
\* and a backup directory in which a program has succeeded never refuses another one.
THEOREM WhatIsLearnedIsKept == Spec => []LearnedIsKept
<1>1. Phases /\ Kept => LearnedIsKept
  BY DEF Phases, Kept, LearnedIsKept
<1>2. QED
  BY <1>1, InitTypes, NextTypes, InitPhases, NextPhases, InitKept, NextKept, PTL DEF Spec
-----------------------------------------------------------------------------
(* No sample is lost.  The rate of an extension after n samples is the last value *)
(* of a function that is defined sample by sample.                                *)

Sample == [ext : Extensions, rate : Nat]

\* The rate after the n-th sample, from the one before it.
RateNext(e, b, ss, n, before) ==
    IF n = 0 THEN Rate(b, e)
    ELSE IF ss[n].ext = e THEN Mean(before, ss[n].rate)
    ELSE before

\* g gives the rates after the first samples, up to the N-th.
Gives(g, e, b, ss, N) == g = [n \in 0..N |-> RateNext(e, b, ss, n, g[n - 1])]

\* It starts with the rate of the table and goes on sample by sample.
Steps(g, e, b, ss, N) ==
    /\ g[0] = Rate(b, e)
    /\ \A n \in 1..N : g[n] = IF ss[n].ext = e THEN Mean(g[n - 1], ss[n].rate) ELSE g[n - 1]

\* What a function that gives them does.
LEMMA GivesSteps ==
    ASSUME NEW e, NEW b, NEW ss, NEW N \in Nat, NEW g, Gives(g, e, b, ss, N)
    PROVE  Steps(g, e, b, ss, N)
<1>1. \A n \in 0..N : g[n] = RateNext(e, b, ss, n, g[n - 1])
  BY DEF Gives
<1>2. QED
  BY <1>1 DEF RateNext, Steps

\* And a function on 0..N that does is the one.
LEMMA StepsGive ==
    ASSUME NEW e, NEW b, NEW ss, NEW N \in Nat, NEW g, Steps(g, e, b, ss, N),
           g = [n \in 0..N |-> g[n]]
    PROVE  Gives(g, e, b, ss, N)
<1>1. ASSUME NEW n \in 0..N PROVE g[n] = RateNext(e, b, ss, n, g[n - 1])
  <2>1. CASE n = 0
    BY <2>1 DEF RateNext, Steps
  <2>2. CASE n # 0
    <3>1. n \in 1..N
      BY <2>2
    <3>2. QED
      BY <2>2, <3>1 DEF RateNext, Steps
  <2>3. QED
    BY <2>1, <2>2
<1>2. QED
  BY <1>1 DEF Gives

\* There is one for any number of samples: by induction, each has a next value.
LEMMA GivesExists ==
    ASSUME NEW e, NEW b, NEW ss, NEW N \in Nat
    PROVE  \E g : Gives(g, e, b, ss, N)
<1> DEFINE S == {n \in Nat : \E g : Gives(g, e, b, ss, n)}
<1>1. 0 \in S
  <2> DEFINE g == [n \in 0..0 |-> Rate(b, e)]
  <2>1. g = [n \in 0..0 |-> g[n]] /\ g[0] = Rate(b, e) /\ 1..0 = {} /\ 0 \in Nat
    OBVIOUS
  <2>. HIDE DEF g
  <2>2. Gives(g, e, b, ss, 0)
    BY <2>1, StepsGive DEF Steps
  <2>3. QED
    BY <2>2
<1>2. ASSUME NEW n \in S PROVE n + 1 \in S
  <2>0. n \in Nat /\ n + 1 \in Nat
    OBVIOUS
  <2>1. PICK g : Gives(g, e, b, ss, n)
    OBVIOUS
  <2>2. Steps(g, e, b, ss, n)
    BY <2>0, <2>1, GivesSteps
  <2>3. PICK r : r = IF ss[n + 1].ext = e THEN Mean(g[n], ss[n + 1].rate) ELSE g[n]
    OBVIOUS
  <2> DEFINE h == [k \in 0..n + 1 |-> IF k = n + 1 THEN r ELSE g[k]]
  <2>4. h = [k \in 0..n + 1 |-> h[k]] /\ h[n + 1] = r /\ \A k \in 0..n : h[k] = g[k]
    OBVIOUS
  <2>. HIDE DEF h
  <2>5. h[0] = Rate(b, e)
    <3>1. 0 \in 0..n
      BY <2>0
    <3>2. QED
      BY <2>2, <2>4, <3>1 DEF Steps
  <2>6. ASSUME NEW k \in 1..n + 1
        PROVE  h[k] = IF ss[k].ext = e THEN Mean(h[k - 1], ss[k].rate) ELSE h[k - 1]
    <3>1. CASE k = n + 1
      <4>1. k - 1 = n /\ n \in 0..n
        BY <2>0, <3>1
      <4>2. QED
        BY <2>3, <2>4, <3>1, <4>1
    <3>2. CASE k \in 1..n
      <4>1. k \in 0..n /\ k - 1 \in 0..n
        BY <2>0, <3>2
      <4>2. QED
        BY <2>2, <2>4, <3>2, <4>1 DEF Steps
    <3>3. QED
      BY <2>0, <3>1, <3>2
  <2>7. Gives(h, e, b, ss, n + 1)
    <3>1. Steps(h, e, b, ss, n + 1)
      BY <2>5, <2>6 DEF Steps
    <3>2. QED
      BY <2>0, <2>4, <3>1, StepsGive
  <2>8. QED
    BY <2>7
<1>3. S \in SUBSET Nat
  OBVIOUS
<1>. HIDE DEF S
<1>4. S = Nat
  BY <1>1, <1>2, <1>3, ClosedIsNat
<1>5. QED
  BY <1>4 DEF S

\* Two of them agree as far as they have the same samples.
LEMMA GivesTheSame ==
    ASSUME NEW e, NEW b, NEW ss, NEW tt, NEW N \in Nat, NEW M \in Nat, N <= M,
           \A n \in 1..N : ss[n] = tt[n],
           NEW g, Gives(g, e, b, ss, N), NEW h, Gives(h, e, b, tt, M)
    PROVE  g[N] = h[N]
<1> DEFINE S == {n \in Nat : n <= N => g[n] = h[n]}
<1>1. Steps(g, e, b, ss, N) /\ Steps(h, e, b, tt, M)
  BY GivesSteps
<1>3. 0 \in S
  BY <1>1 DEF Steps
<1>4. ASSUME NEW n \in S PROVE n + 1 \in S
  <2>1. SUFFICES ASSUME n + 1 <= N PROVE g[n + 1] = h[n + 1]
    OBVIOUS
  <2>2. PICK k \in 1..N : k = n + 1
    BY <2>1
  <2>3. k \in 1..M /\ ss[k] = tt[k] /\ g[k - 1] = h[k - 1]
    BY <2>2
  <2>4. QED
    BY <1>1, <2>2, <2>3 DEF Steps
<1>5. S \in SUBSET Nat
  OBVIOUS
<1>. HIDE DEF S
<1>6. S = Nat
  BY <1>3, <1>4, <1>5, ClosedIsNat
<1>7. QED
  BY <1>6 DEF S

\* What samples make of a table.
LEMMA AfterIs ==
    ASSUME NEW e, NEW b, NEW ss, NEW m \in Nat, Len(ss) = m
    PROVE  \E g : Gives(g, e, b, ss, m) /\ After(e, b, ss) = g[m]
<1>1. \E g : Gives(g, e, b, ss, m)
  BY GivesExists
<1> DEFINE rate == CHOOSE g : g = [n \in 0..Len(ss) |->
                IF n = 0 THEN Rate(b, e)
                ELSE IF ss[n].ext = e THEN Mean(g[n - 1], ss[n].rate)
                ELSE g[n - 1]]
<1>2. After(e, b, ss) = rate[Len(ss)]
  BY DEF After
<1>3. Gives(rate, e, b, ss, m)
  BY <1>1 DEF Gives, RateNext
<1>4. QED
  BY <1>2, <1>3

\* Without samples the rate is that of the table that was read.
LEMMA AfterNothing ==
    ASSUME NEW e, NEW b
    PROVE  After(e, b, <<>>) = Rate(b, e)
<1>1. Len(<<>>) = 0 /\ 0 \in Nat
  OBVIOUS
<1>2. PICK g : Gives(g, e, b, <<>>, 0) /\ After(e, b, <<>>) = g[0]
  BY <1>1, AfterIs
<1>3. Steps(g, e, b, <<>>, 0)
  BY <1>1, <1>2, GivesSteps
<1>4. QED
  BY <1>2, <1>3 DEF Steps

\* One more sample counts for its extension, and for no other.
LEMMA AfterOneMore ==
    ASSUME NEW e, NEW b, NEW ss \in Seq(Sample), NEW x \in Sample
    PROVE  After(e, b, Append(ss, x)) =
                IF x.ext = e THEN Mean(After(e, b, ss), x.rate) ELSE After(e, b, ss)
<1>1. PICK m \in Nat, k \in Nat : m = Len(ss) /\ k = m + 1
  OBVIOUS
<1>2. PICK tt : tt = Append(ss, x)
  OBVIOUS
<1>3. Len(tt) = k /\ tt[k] = x /\ \A n \in 1..m : ss[n] = tt[n]
  BY <1>1, <1>2
<1>4. PICK g : Gives(g, e, b, ss, m) /\ After(e, b, ss) = g[m]
  BY <1>1, AfterIs
<1>5. PICK h : Gives(h, e, b, tt, k) /\ After(e, b, tt) = h[k]
  BY <1>3, AfterIs
<1>6. g[m] = h[m]
  <2>1. m <= k
    BY <1>1
  <2>2. QED
    BY ONLY m \in Nat, k \in Nat, <1>3, <1>4, <1>5, <2>1, GivesTheSame
<1>7. h[k] = IF x.ext = e THEN Mean(h[m], x.rate) ELSE h[m]
  <2>1. Steps(h, e, b, tt, k)
    BY <1>5, GivesSteps
  <2>2. k \in 1..k /\ k - 1 = m
    BY <1>1
  <2>3. QED
    BY <1>3, <2>1, <2>2 DEF Steps
<1>8. QED
  BY <1>2, <1>4, <1>5, <1>6, <1>7

\* The rate of every extension is what the samples make of it, also of one that is not
\* in the table: a rate of 0, as it is entered with when it is looked up.
Sampled ==
    /\ samples \in Seq(Sample)
    /\ pc \in {"none", "read table"} => samples = <<>>
    /\ \A e \in Extensions : Rate(table, e) = After(e, base, samples)

\* Where there are no samples the table is the one that was read.
LEMMA NoSampleYet ==
    ASSUME samples = <<>>, table = base
    PROVE  Sampled
<1>1. samples \in Seq(Sample)
  OBVIOUS
<1>2. QED
  BY <1>1, AfterNothing DEF Sampled

\* ... also in the next state.
LEMMA NoSampleThen ==
    ASSUME samples' = <<>>, table' = base'
    PROVE  Sampled'
<1>1. samples' \in Seq(Sample)
  OBVIOUS
<1>2. QED
  BY <1>1, AfterNothing DEF Sampled

\* At the end of a program there is no table and no sample.
LEMMA EndSampled ==
    ASSUME NEW result, End(result)
    PROVE  Sampled'
BY NoSampleThen DEF End

\* A step that neither samples nor changes the table, and starts no program.
LEMMA SameSampled ==
    ASSUME Sampled, UNCHANGED <<table, base, samples>>,
           pc' \in {"none", "read table"} => samples = <<>>
    PROVE  Sampled'
BY DEF Sampled

\* The invariant holds at first.
LEMMA InitSampled == Init => Sampled
BY NoSampleYet DEF Init

\* Every step keeps it: a sample is taken with the rate as it is when it is added.
LEMMA NextSampled == TypeOK /\ Phases /\ Sampled /\ [Next]_vars => Sampled'
<1> SUFFICES ASSUME TypeOK, Phases, Sampled, [Next]_vars PROVE Sampled'
  OBVIOUS
<1>1. CASE StartInit
  <2>1. CASE IsDirectoryEmpty
    <3>1. samples' = samples /\ table' = base' /\ pc = "none"
      BY <1>1, <2>1 DEF StartInit
    <3>2. QED
      BY <3>1, NoSampleThen DEF Sampled
  <2>2. CASE ~IsDirectoryEmpty
    BY <1>1, <2>2, EndSampled DEF StartInit
  <2>3. QED
    BY <2>1, <2>2
<1>2. CASE \/ CreateConfig \/ WriteConfig \/ AllTasksComplete \/ Truncate \/ Flush
           \/ CreateDirectory("data", "create data", "create index")
           \/ CreateDirectory("index", "create index", "init ends")
  BY <1>2, SameSampled DEF CreateConfig, WriteConfig, AllTasksComplete, Truncate, Flush,
     CreateDirectory, memory, observers
<1>3. CASE InitEnds \/ AddSnapshotEnds
  BY <1>3, EndSampled DEF InitEnds, AddSnapshotEnds
<1>4. CASE StartAddSnapshot
  <2>1. CASE config = "whole" /\ "index" \in dirs
    BY <1>4, <2>1, SameSampled DEF StartAddSnapshot, memory, Sampled
  <2>2. CASE ~(config = "whole" /\ "index" \in dirs)
    BY <1>4, <2>2, EndSampled DEF StartAddSnapshot
  <2>3. QED
    BY <2>1, <2>2
<1>5. CASE ReadTable
  <2>1. CASE tableFile = NoFile \/ ~tableFile.readable
    BY <1>5, <2>1, EndSampled DEF ReadTable
  <2>2. CASE ~(tableFile = NoFile \/ ~tableFile.readable)
    <3>1. samples' = samples /\ table' = base' /\ pc = "read table"
      BY <1>5, <2>2 DEF ReadTable
    <3>2. QED
      BY <3>1, NoSampleThen DEF Sampled
  <2>3. QED
    BY <2>1, <2>2
<1>6. ASSUME NEW f \in Files, GetCompressionRate(f) PROVE Sampled'
  <2>1. UNCHANGED <<pc, base, samples>> /\ table' = LookedUp(f)
    BY <1>6 DEF GetCompressionRate, observers
  <2>2. \A e : Rate(LookedUp(f), e) = Rate(table, e)
    BY DEF LookedUp, Rate, Row
  <2>3. QED
    BY <2>1, <2>2 DEF Sampled
<1>7. ASSUME NEW f \in Files, Piped(f) PROVE Sampled'
  <2>1. UNCHANGED <<pc, base>> /\ pc = "backup"
    BY <1>7 DEF Piped
  <2>2. CASE ~GivesSample(f)
    BY <1>7, <2>1, <2>2, SameSampled DEF Piped
  <2>3. CASE GivesSample(f)
    <3>1. PICK sample \in RawRates :
            /\ table' = AddCompressionRateSample(f, sample)
            /\ samples' = Append(samples, [ext |-> ExtensionOf[f], rate |-> sample])
      BY <1>7, <2>3 DEF Piped
    <3>2. PICK d \in Extensions : d = ExtensionOf[f]
      BY ExtensionsOfFiles
    <3>3. PICK x \in Sample : x = [ext |-> d, rate |-> sample]
      BY NumbersAssumption DEF Sample
    <3>4. samples \in Seq(Sample) /\ samples' = Append(samples, x)
      BY <3>1, <3>2, <3>3 DEF Sampled
    <3>5. samples' \in Seq(Sample)
      BY <3>4
    <3>6. \A e : Rate(table', e) = IF d = e THEN Mean(Rate(table, e), sample)
                                   ELSE Rate(table, e)
      BY <3>1, <3>2 DEF AddCompressionRateSample, Rate, Row
    <3>7. ASSUME NEW e \in Extensions PROVE Rate(table', e) = After(e, base, samples')
      <4>1. After(e, base, Append(samples, x)) =
                IF x.ext = e THEN Mean(After(e, base, samples), x.rate)
                ELSE After(e, base, samples)
        BY <3>4, AfterOneMore
      <4>2. Rate(table, e) = After(e, base, samples) /\ x.ext = d /\ x.rate = sample
        BY <3>3 DEF Sampled
      <4>3. QED
        BY <3>4, <3>6, <4>1, <4>2
    <3>8. QED
      BY <2>1, <3>5, <3>7 DEF Sampled
  <2>4. QED
    BY <2>2, <2>3
<1>8. ASSUME NEW f \in Files, Throw(f) PROVE Sampled'
  BY <1>8, EndSampled DEF Throw
<1>9. ASSUME NEW e \in DOMAIN table, BufferIsFull(e) PROVE Sampled'
  BY <1>9, SameSampled DEF BufferIsFull, memory, observers, Sampled
<1>10. CASE Kill
  BY <1>10, EndSampled DEF Kill
<1>11. CASE UNCHANGED vars
  BY <1>11, SameSampled DEF vars, memory, observers, Sampled
<1>12. QED
  BY <1>1, <1>2, <1>3, <1>4, <1>5, <1>6, <1>7, <1>8, <1>9, <1>10, <1>11
     DEF Next, InitStep, AddStep, Write

\* No sample is lost and none counts twice, however many tasks with the same extension
\* look its rate up and add samples at the same time.
THEOREM EverySampleCounts == Spec => []NoSampleLost
<1>1. TypeOK /\ Sampled => NoSampleLost
  <2> SUFFICES ASSUME TypeOK, Sampled, NEW e \in DOMAIN table
               PROVE  table[e] = After(e, base, samples)
    BY DEF NoSampleLost
  <2>1. e \in Extensions
    BY TableIs DEF TypeOK
  <2>2. QED
    BY <2>1 DEF Sampled, Rate
<1>2. QED
  BY <1>1, InitTypes, NextTypes, InitPhases, NextPhases, InitSampled, NextSampled,
     PTL DEF Spec

=============================================================================
