------------------------ MODULE VolumeWriting_proofs ------------------------
(***************************************************************************)
(* Proofs about the write side for any number of files and threads and any *)
(* volume size.  The inductive invariant adds to the properties what a     *)
(* stream knows between its two critical sections: the bytes it is about   *)
(* to write, or has written, fit into the volume it owns.                  *)
(*                                                                         *)
(* The second part proves that the blocks in the index are the files and   *)
(* share the volumes without gap or overlap, and that the open volumes are *)
(* bounded by the threads.  The theorems about blocks are for volumes of   *)
(* less than 2^32 bytes: WriteBytes narrows a left size to 32 bits, and a  *)
(* larger one can become 0 there.                                          *)
(***************************************************************************)
EXTENDS VolumeWriting, FiniteSetTheorems, TLAPS

WriteBounds ==
    \A f \in Files :
        /\ pc[f] \in {"offset", "write"} =>
            /\ bytesToWrite[f] <= size[f]
            /\ bytesToWrite[f] <= openVolumes[stream[f]].leftSize
        /\ pc[f] = "record" =>
            nBytesWritten[f] <= openVolumes[stream[f]].leftSize

IndInv == TypeOK /\ ExclusiveOwnership /\ WriteBounds

-----------------------------------------------------------------------------
\* The narrowed minimum is a Nat below both of its arguments.
LEMMA NarrowedMinBounds ==
    ASSUME NEW left \in Nat, NEW count \in Nat
    PROVE  /\ NarrowedMin(left, count) \in Nat
           /\ NarrowedMin(left, count) <= left
           /\ NarrowedMin(left, count) <= count
<1>1. left % UInt32Size \in Nat /\ left % UInt32Size <= left
  BY SizesAssumption, Z3
<1>2. QED
  BY <1>1 DEF NarrowedMin

\* AddBlock keeps a list of blocks a list of blocks.
LEMMA AddBlockType ==
    ASSUME NEW bs \in Seq(Block), NEW b \in Block
    PROVE  AddBlock(bs, b) \in Seq(Block)
<1> DEFINE n == Len(bs)
<1>1. CASE n > 0 /\ Contiguous(bs[n], b)
  <2>1. n \in 1..Len(bs) /\ bs[n] \in Block
    BY <1>1
  <2>a. bs[n].size \in Nat /\ b.size \in Nat
    BY <2>1 DEF Block
  <2>b. bs[n].size + b.size \in Nat
    BY <2>a
  <2>2. [bs[n] EXCEPT !.size = @ + b.size] \in Block
    BY <2>1, <2>b DEF Block
  <2>3. [bs EXCEPT ![n].size = @ + b.size] \in Seq(Block)
    BY <1>1, <2>2
  <2>4. QED
    BY <1>1, <2>3 DEF AddBlock
<1>2. CASE ~(n > 0 /\ Contiguous(bs[n], b))
  BY <1>2 DEF AddBlock
<1>3. QED
  BY <1>1, <1>2

\* A chunk is a sequence of n bytes.
LEMMA ChunkType ==
    ASSUME NEW f \in Files, NEW first \in Nat, NEW n \in Nat
    PROVE  Chunk(f, first, n) \in Seq(Bytes) /\ Len(Chunk(f, first, n)) = n
<1>1. \A i \in 1..n : <<f, first + i>> \in Bytes
  BY DEF Bytes
<1>2. QED
  BY <1>1 DEF Chunk

\* Appending a sequence adds its length.
LEMMA LenConcat ==
    ASSUME NEW S, NEW s \in Seq(S), NEW t \in Seq(S)
    PROVE  Len(s \o t) = Len(s) + Len(t)
OBVIOUS

\* A writing stream's volume is the only one it owns.
LEMMA OwnedByWriter ==
    ASSUME IndInv, NEW f \in Files, Writing(f)
    PROVE  OwnedBy(f) = {stream[f]}
BY NoWriterAssumption DEF IndInv, ExclusiveOwnership, OwnedBy

-----------------------------------------------------------------------------
LEMMA InitIndInv == Init => IndInv
<1> SUFFICES ASSUME Init PROVE IndInv
  OBVIOUS
<1>1. TypeOK
  <2>1. DOMAIN openVolumes = {} /\ DOMAIN volume = {}
    BY DEF Init
  <2>2. openVolumes = [v \in {} |-> 0] /\ volume = [v \in {} |-> 0]
    BY DEF Init
  <2>3. openVolumes \in [DOMAIN openVolumes ->
                          [leftSize : Nat, ownedWriter : Files \cup {NoWriter}]]
    BY <2>1, <2>2
  <2>4. volume \in [0..nextVolumeNumber - 1 -> Seq(Bytes)]
    BY <2>2 DEF Init
  <2>5. blocks \in [Files -> Seq(Block)]
    BY DEF Init
  <2>6. QED
    BY <2>1, <2>3, <2>4, <2>5 DEF Init, TypeOK
<1>2. ExclusiveOwnership
  BY DEF Init, ExclusiveOwnership, Writing
<1>3. WriteBounds
  BY DEF Init, WriteBounds
<1>4. QED
  BY <1>1, <1>2, <1>3 DEF IndInv

-----------------------------------------------------------------------------
\* The types of openVolumes after its four kinds of change.
OpenVolumesType(nums) ==
    [nums -> [leftSize : Nat, ownedWriter : Files \cup {NoWriter}]]

\* Changing an entry's owner, its leftSize, or dropping it keeps the type.
LEMMA OpenVolumesChanges ==
    ASSUME NEW nums, openVolumes \in OpenVolumesType(nums),
           NEW v \in nums, NEW w \in Files \cup {NoWriter}, NEW left \in Nat
    PROVE  /\ SetOwner(v, w) \in OpenVolumesType(nums)
           /\ \A u \in nums :
                /\ SetOwner(v, w)[u].leftSize = openVolumes[u].leftSize
                /\ SetOwner(v, w)[u].ownedWriter =
                     IF u = v THEN w ELSE openVolumes[u].ownedWriter
           /\ [openVolumes EXCEPT ![v].leftSize = left] \in OpenVolumesType(nums)
           /\ \A u \in nums :
                /\ [openVolumes EXCEPT ![v].leftSize = left][u].leftSize =
                     IF u = v THEN left ELSE openVolumes[u].leftSize
                /\ [openVolumes EXCEPT ![v].leftSize = left][u].ownedWriter =
                     openVolumes[u].ownedWriter
           /\ [u \in nums \ {v} |-> openVolumes[u]] \in OpenVolumesType(nums \ {v})
BY DEF OpenVolumesType, SetOwner

-----------------------------------------------------------------------------
\* One lemma per step of a task; the lemmas before NextIndInv say that the
\* step preserves the inductive invariant.

LEMMA CreateFileIndInv ==
    ASSUME IndInv, NEW f \in Files, CreateFile(f)
    PROVE  IndInv'
<1> USE DEF IndInv, CreateFile, locals
<1>1. TypeOK'
  BY DEF TypeOK
<1>2. ExclusiveOwnership'
  BY DEF TypeOK, ExclusiveOwnership, Writing, Running
<1>3. WriteBounds'
  BY DEF TypeOK, WriteBounds
<1>4. QED
  BY <1>1, <1>2, <1>3

LEMMA WriteBytesIndInv ==
    ASSUME IndInv, NEW f \in Files, NEW n \in Nat, WriteBytes(f, n)
    PROVE  IndInv'
<1> USE DEF IndInv, WriteBytes
<1>1. TypeOK'
  BY DEF TypeOK
<1>2. ExclusiveOwnership'
  BY DEF TypeOK, ExclusiveOwnership, Writing, Running
<1>3. WriteBounds'
  BY DEF TypeOK, WriteBounds
<1>4. QED
  BY <1>1, <1>2, <1>3

LEMMA QueryCurrentOffsetIndInv ==
    ASSUME IndInv, NEW f \in Files, QueryCurrentOffset(f)
    PROVE  IndInv'
<1> USE DEF IndInv, QueryCurrentOffset
<1>1. TypeOK'
  <2>1. stream[f] \in DOMAIN volume
    BY DEF TypeOK, ExclusiveOwnership, Writing
  <2>2. Len(volume[stream[f]]) \in Nat
    BY <2>1 DEF TypeOK
  <2>3. QED
    BY <2>2 DEF TypeOK
<1>2. ExclusiveOwnership'
  BY DEF TypeOK, ExclusiveOwnership, Writing, Running
<1>3. WriteBounds'
  BY DEF TypeOK, WriteBounds
<1>4. QED
  BY <1>1, <1>2, <1>3

LEMMA WriteToVolumeIndInv ==
    ASSUME IndInv, NEW f \in Files, NEW n \in Nat, WriteToVolume(f, n)
    PROVE  IndInv'
<1> USE DEF IndInv, WriteToVolume
<1>1. stream[f] \in DOMAIN volume /\ n <= size[f]
      /\ n <= openVolumes[stream[f]].leftSize
  <2>1. stream[f] \in DOMAIN openVolumes
    BY DEF ExclusiveOwnership, Writing
  <2>2. bytesToWrite[f] <= size[f] /\ bytesToWrite[f] <= openVolumes[stream[f]].leftSize
    BY DEF WriteBounds
  <2>3. openVolumes[stream[f]].leftSize \in Nat
    BY <2>1 DEF TypeOK
  <2>4. QED
    BY <2>1, <2>2, <2>3 DEF TypeOK
<1>2. TypeOK'
  <2>1. volume[stream[f]] \o Chunk(f, written[f], n) \in Seq(Bytes)
    BY <1>1, ChunkType DEF TypeOK
  <2>2. volume' \in [0..nextVolumeNumber - 1 -> Seq(Bytes)]
    BY <2>1 DEF TypeOK
  <2>3. size[f] - n \in Nat /\ written[f] + n \in Nat
    BY <1>1, SMTT(30) DEF TypeOK
  <2>4. QED
    BY <2>2, <2>3 DEF TypeOK
<1>3. ExclusiveOwnership'
  BY DEF TypeOK, ExclusiveOwnership, Writing, Running
<1>4. WriteBounds'
  BY <1>1 DEF TypeOK, WriteBounds
<1>5. QED
  BY <1>2, <1>3, <1>4

\* What FindStream leaves behind whichever entry it picked: v is open, owned
\* by f alone, and leftSize is its leftSize; the other owners are as before.
LEMMA FoundIndInv ==
    ASSUME IndInv, NEW f \in Files, pc[f] = "find", NEW v \in Nat,
           NEW left \in Nat, Found(f, v, left),
           nextVolumeNumber' \in Nat,
           DOMAIN openVolumes' \subseteq 0..nextVolumeNumber' - 1,
           openVolumes' \in OpenVolumesType(DOMAIN openVolumes'),
           volume' \in [0..nextVolumeNumber' - 1 -> Seq(Bytes)],
           v \in DOMAIN openVolumes',
           openVolumes'[v].ownedWriter = f, openVolumes'[v].leftSize = left,
           DOMAIN openVolumes \subseteq DOMAIN openVolumes',
           \A u \in DOMAIN openVolumes' \ {v} :
                u \in DOMAIN openVolumes /\ openVolumes'[u] = openVolumes[u],
           v \in DOMAIN openVolumes => openVolumes[v].ownedWriter \in {f, NoWriter},
           \A u \in DOMAIN openVolumes \ {v} : openVolumes[u].ownedWriter # f
    PROVE  IndInv'
<1> USE DEF IndInv, Found
<1>1. TypeOK'
  <2>1. NarrowedMin(left, size[f]) \in Nat
    BY NarrowedMinBounds DEF TypeOK
  <2>2. QED
    BY <2>1 DEF TypeOK, OpenVolumesType
<1>2. ASSUME NEW g \in Files, g # f, Writing(g)
      PROVE  /\ stream[g] # v
             /\ stream[g] \in DOMAIN openVolumes'
             /\ openVolumes'[stream[g]] = openVolumes[stream[g]]
  BY <1>2, NoWriterAssumption DEF ExclusiveOwnership
<1>3. ExclusiveOwnership'
  <2>1. ASSUME NEW g \in Files, Writing(g)'
        PROVE  stream'[g] \in DOMAIN openVolumes' /\ openVolumes'[stream'[g]].ownedWriter = g
    <3>1. CASE g = f
      BY <3>1 DEF TypeOK
    <3>2. CASE g # f
      <4>1. Writing(g) /\ stream'[g] = stream[g]
        BY <2>1, <3>2 DEF TypeOK, Writing
      <4>2. QED
        BY <4>1, <3>2, <1>2 DEF ExclusiveOwnership
    <3>3. QED
      BY <3>1, <3>2
  <2>2. Running' = Running /\ f \in Running
    BY DEF Running, TypeOK
  <2>3. \A u \in DOMAIN openVolumes' :
            openVolumes'[u].ownedWriter \in Running' \cup {NoWriter}
    BY <2>2 DEF ExclusiveOwnership
  <2>4. ASSUME NEW t \in DOMAIN openVolumes', NEW u \in DOMAIN openVolumes',
               openVolumes'[t].ownedWriter = openVolumes'[u].ownedWriter,
               openVolumes'[t].ownedWriter # NoWriter
        PROVE  t = u
    BY <2>4 DEF ExclusiveOwnership
  <2>5. QED
    BY <2>1, <2>3, <2>4 DEF ExclusiveOwnership
<1>4. WriteBounds'
  <2>1. /\ NarrowedMin(left, size[f]) <= left
        /\ NarrowedMin(left, size[f]) <= size[f]
    BY NarrowedMinBounds DEF TypeOK
  <2>2. QED
    BY <1>2, <2>1 DEF WriteBounds, TypeOK, Writing
<1>5. QED
  BY <1>1, <1>3, <1>4

LEMMA FindStreamIndInv ==
    ASSUME IndInv, NEW f \in Files, FindStream(f)
    PROVE  IndInv'
<1> USE DEF IndInv
<1>0. /\ pc[f] = "find"
      /\ openVolumes \in OpenVolumesType(DOMAIN openVolumes)
      /\ \A u \in DOMAIN openVolumes : u \in Nat /\ openVolumes[u].leftSize \in Nat
  BY DEF FindStream, TypeOK, OpenVolumesType
<1>1. CASE FindOwn(f)
  <2>1. PICK v \in OwnedBy(f) : Found(f, v, openVolumes[v].leftSize)
    BY <1>1 DEF FindOwn
  <2>2. /\ v \in DOMAIN openVolumes /\ openVolumes[v].ownedWriter = f
        /\ \A u \in DOMAIN openVolumes \ {v} : openVolumes[u].ownedWriter # f
    BY NoWriterAssumption DEF OwnedBy, ExclusiveOwnership
  <2>3. UNCHANGED <<nextVolumeNumber, openVolumes, volume>>
    BY <1>1 DEF FindOwn
  <2>4. QED
    BY <1>0, <2>1, <2>2, <2>3, FoundIndInv DEF TypeOK
<1>2. CASE FindFree(f)
  <2>1. PICK v \in OwnedBy(NoWriter) :
            openVolumes' = SetOwner(v, f) /\ Found(f, v, openVolumes[v].leftSize)
    BY <1>2 DEF FindFree, TakeFree
  <2>2. /\ v \in DOMAIN openVolumes /\ openVolumes[v].ownedWriter = NoWriter
        /\ \A u \in DOMAIN openVolumes : openVolumes[u].ownedWriter # f
        /\ UNCHANGED <<nextVolumeNumber, volume>>
    BY <1>2 DEF FindFree, OwnedBy
  <2>3. /\ DOMAIN openVolumes' = DOMAIN openVolumes
        /\ openVolumes' \in OpenVolumesType(DOMAIN openVolumes)
        /\ openVolumes'[v].ownedWriter = f
        /\ openVolumes'[v].leftSize = openVolumes[v].leftSize
        /\ \A u \in DOMAIN openVolumes' \ {v} : openVolumes'[u] = openVolumes[u]
    BY <1>0, <2>1, <2>2 DEF SetOwner, OpenVolumesType
  <2>4. QED
    BY <1>0, <2>1, <2>2, <2>3, FoundIndInv, ZenonT(60) DEF TypeOK
<1>3. CASE FindNew(f)
  <2> DEFINE v == nextVolumeNumber
  <2>1. /\ v \in Nat
        /\ v \notin DOMAIN openVolumes
        /\ v \notin DOMAIN volume
        /\ \A u \in DOMAIN openVolumes : openVolumes[u].ownedWriter # f
        /\ Found(f, v, VolumeSize)
        /\ nextVolumeNumber' = v + 1
    BY <1>3 DEF FindNew, NewNumber, OwnedBy, TypeOK
  <2>2. openVolumes' = [u \in DOMAIN openVolumes \cup {v} |->
                          IF u = v THEN [leftSize |-> VolumeSize, ownedWriter |-> f]
                          ELSE openVolumes[u]]
    BY <1>3 DEF FindNew, NewNumber
  <2>3. DOMAIN openVolumes' = DOMAIN openVolumes \cup {v}
    BY <2>2
  <2>4. openVolumes' \in OpenVolumesType(DOMAIN openVolumes')
    BY <1>0, <2>2, <2>3, SizesAssumption DEF OpenVolumesType
  <2>5. volume' \in [0..nextVolumeNumber' - 1 -> Seq(Bytes)]
    <3>1. volume' = [u \in DOMAIN volume \cup {v} |->
                        IF u = v THEN <<>> ELSE volume[u]]
      BY <1>3 DEF FindNew, NewNumber
    <3>2. DOMAIN volume \cup {v} = 0..nextVolumeNumber' - 1
      BY <2>1 DEF TypeOK
    <3>3. QED
      BY <3>1, <3>2 DEF TypeOK
  <2>6. /\ openVolumes'[v].ownedWriter = f
        /\ openVolumes'[v].leftSize = VolumeSize
        /\ \A u \in DOMAIN openVolumes' \ {v} :
             u \in DOMAIN openVolumes /\ openVolumes'[u] = openVolumes[u]
    BY <2>2, <2>3
  <2>7. DOMAIN openVolumes' \subseteq 0..nextVolumeNumber' - 1
    BY <2>1, <2>3 DEF TypeOK
  <2>8. /\ VolumeSize \in Nat
        /\ nextVolumeNumber' \in Nat
        /\ DOMAIN openVolumes \subseteq DOMAIN openVolumes'
        /\ v \in DOMAIN openVolumes'
    BY <2>1, <2>3, SizesAssumption
  <2> HIDE DEF v, IndInv
  <2>9. QED
    BY <1>0, <2>1, <2>4, <2>5, <2>6, <2>7, <2>8, FoundIndInv
<1>4. QED
  BY <1>1, <1>2, <1>3 DEF FindStream

LEMMA BytesWereWrittenIndInv ==
    ASSUME IndInv, NEW f \in Files, BytesWereWrittenToVolume(f)
    PROVE  IndInv'
<1> USE DEF IndInv
<1> DEFINE v == stream[f]
           left == openVolumes[v].leftSize - nBytesWritten[f]
<1>1. /\ pc[f] = "record" /\ Writing(f)
      /\ openVolumes \in OpenVolumesType(DOMAIN openVolumes)
  BY DEF BytesWereWrittenToVolume, Writing, TypeOK, OpenVolumesType
<1>2. OwnedBy(f) = {v}
  BY <1>1, OwnedByWriter
<1>3. /\ v \in DOMAIN openVolumes /\ v \in Nat
      /\ openVolumes[v].ownedWriter = f
      /\ left \in Nat
  BY <1>1 DEF ExclusiveOwnership, WriteBounds, TypeOK
<1>4. /\ blocks' = [blocks EXCEPT ![f] =
                      AddBlock(@, [volumeNumber |-> v, offset |-> offset[f],
                                   size |-> nBytesWritten[f]])]
      /\ SetLeftSize(v, left)
      /\ pc' = [pc EXCEPT ![f] = IF size[f] = 0 THEN "open" ELSE "find"]
      /\ UNCHANGED <<nextVolumeNumber, volume, writeProtected, written, locals>>
  BY <1>2 DEF BytesWereWrittenToVolume
<1>5. /\ DOMAIN openVolumes' \subseteq DOMAIN openVolumes
      /\ openVolumes' \in OpenVolumesType(DOMAIN openVolumes')
      /\ \A u \in DOMAIN openVolumes' :
            openVolumes'[u].ownedWriter = openVolumes[u].ownedWriter
      /\ \A u \in DOMAIN openVolumes \ {v} :
            u \in DOMAIN openVolumes' /\ openVolumes'[u] = openVolumes[u]
  <2>1. CASE left = 0
    <3>1. openVolumes' = [u \in DOMAIN openVolumes \ {v} |-> openVolumes[u]]
      BY <1>4, <2>1 DEF SetLeftSize
    <3>2. QED
      BY <3>1, <1>1, <1>3 DEF OpenVolumesType
  <2>2. CASE left # 0
    <3>1. openVolumes' = [openVolumes EXCEPT ![v].leftSize = left]
      BY <1>4, <2>2 DEF SetLeftSize
    <3> HIDE DEF left, v
    <3>2. QED
      BY <3>1, <1>1, <1>3 DEF OpenVolumesType
  <2>3. QED
    BY <2>1, <2>2
<1>6. TypeOK'
  <2>1. [volumeNumber |-> v, offset |-> offset[f], size |-> nBytesWritten[f]] \in Block
    BY <1>3 DEF Block, TypeOK
  <2>2. blocks' \in [Files -> Seq(Block)]
    BY <1>4, <2>1, AddBlockType DEF TypeOK
  <2>3. pc' \in [Files -> {"queued", "open", "find", "offset", "write", "record",
                           "closed"}]
    BY <1>4 DEF TypeOK
  <2>4. QED
    BY <1>4, <1>5, <2>2, <2>3 DEF TypeOK, locals, OpenVolumesType
<1>7. ASSUME NEW g \in Files, Writing(g)'
      PROVE  /\ g # f /\ Writing(g) /\ pc'[g] = pc[g] /\ stream[g] # v
             /\ stream[g] \in DOMAIN openVolumes'
             /\ openVolumes'[stream[g]] = openVolumes[stream[g]]
             /\ openVolumes[stream[g]].ownedWriter = g
  <2>1. g # f /\ Writing(g) /\ pc'[g] = pc[g]
    BY <1>4, <1>7 DEF Writing, TypeOK
  <2>2. stream[g] \in DOMAIN openVolumes /\ openVolumes[stream[g]].ownedWriter = g
    BY <2>1 DEF ExclusiveOwnership
  <2>3. QED
    BY <2>1, <2>2, <1>3, <1>5
<1>8. ExclusiveOwnership'
  <2>1. Running' = Running
    BY <1>1, <1>4 DEF Running, TypeOK
  <2>2. \A u \in DOMAIN openVolumes' :
            openVolumes'[u].ownedWriter \in Running' \cup {NoWriter}
    BY <2>1, <1>5 DEF ExclusiveOwnership
  <2>3. \A g \in Files : Writing(g)' =>
            stream'[g] \in DOMAIN openVolumes' /\ openVolumes'[stream'[g]].ownedWriter = g
    BY <1>4, <1>7 DEF locals
  <2>4. QED
    BY <2>2, <2>3, <1>5 DEF ExclusiveOwnership
<1>9. WriteBounds'
  BY <1>4, <1>7 DEF WriteBounds, locals, Writing
<1>10. QED
  BY <1>6, <1>8, <1>9

LEMMA CloseFileIndInv ==
    ASSUME IndInv, NEW f \in Files, CloseFile(f)
    PROVE  IndInv'
<1> USE DEF IndInv
<1>1. /\ pc[f] = "open"
      /\ pc' = [pc EXCEPT ![f] = "closed"]
      /\ ReleaseVolume(f)
      /\ UNCHANGED <<nextVolumeNumber, volume, blocks, writeProtected, written, locals>>
  BY DEF CloseFile
<1>2. /\ DOMAIN openVolumes' = DOMAIN openVolumes
      /\ openVolumes' \in OpenVolumesType(DOMAIN openVolumes)
      /\ \A u \in DOMAIN openVolumes :
            /\ openVolumes'[u].leftSize = openVolumes[u].leftSize
            /\ openVolumes'[u].ownedWriter =
                 IF openVolumes[u].ownedWriter = f THEN NoWriter
                 ELSE openVolumes[u].ownedWriter
  <2>1. openVolumes \in OpenVolumesType(DOMAIN openVolumes)
    BY DEF TypeOK, OpenVolumesType
  <2>2. CASE OwnedBy(f) = {} /\ UNCHANGED openVolumes
    BY <2>1, <2>2 DEF OwnedBy
  <2>3. CASE \E v \in OwnedBy(f) : openVolumes' = SetOwner(v, NoWriter)
    <3>1. PICK v \in OwnedBy(f) : openVolumes' = SetOwner(v, NoWriter)
      BY <2>3
    <3>2. /\ v \in DOMAIN openVolumes /\ openVolumes[v].ownedWriter = f
          /\ \A u \in DOMAIN openVolumes \ {v} : openVolumes[u].ownedWriter # f
      BY NoWriterAssumption DEF OwnedBy, ExclusiveOwnership
    <3>3. QED
      BY <2>1, <3>1, <3>2 DEF SetOwner, OpenVolumesType
  <2>4. QED
    BY <1>1, <2>2, <2>3 DEF ReleaseVolume
<1>3. TypeOK'
  BY <1>1, <1>2 DEF TypeOK, locals, OpenVolumesType
<1>4. ASSUME NEW g \in Files, Writing(g)'
      PROVE  g # f /\ Writing(g) /\ pc'[g] = pc[g]
  BY <1>1, <1>4 DEF Writing, TypeOK
<1>5. ExclusiveOwnership'
  <2>1. Running' = Running \ {f}
    BY <1>1 DEF Running, TypeOK
  <2>2. \A g \in Files : Writing(g)' =>
            stream'[g] \in DOMAIN openVolumes' /\ openVolumes'[stream'[g]].ownedWriter = g
    BY <1>1, <1>2, <1>4 DEF locals, ExclusiveOwnership
  <2>3. \A u \in DOMAIN openVolumes' :
            openVolumes'[u].ownedWriter \in Running' \cup {NoWriter}
    BY <2>1, <1>2 DEF ExclusiveOwnership
  <2>4. QED
    BY <2>2, <2>3, <1>2 DEF ExclusiveOwnership
<1>6. WriteBounds'
  <2>1. ASSUME NEW g \in Files, Writing(g)'
        PROVE  openVolumes'[stream[g]].leftSize = openVolumes[stream[g]].leftSize
    BY <2>1, <1>2, <1>4 DEF ExclusiveOwnership
  <2>2. QED
    BY <2>1, <1>1, <1>4 DEF WriteBounds, locals, Writing
<1>7. QED
  BY <1>3, <1>5, <1>6

LEMMA WriteProtectIndInv ==
    ASSUME IndInv, WriteProtect
    PROVE  IndInv'
<1> USE DEF IndInv, WriteProtect, AllTasksComplete, locals
<1>1. openVolumes' = [u \in {} |-> 0] /\ DOMAIN openVolumes' = {}
  OBVIOUS
<1>2. TypeOK'
  BY <1>1 DEF TypeOK
<1>3. ExclusiveOwnership'
  BY <1>1 DEF ExclusiveOwnership, Writing
<1>4. WriteBounds'
  BY DEF WriteBounds
<1>5. QED
  BY <1>2, <1>3, <1>4

LEMMA NextIndInv == IndInv /\ [Next]_vars => IndInv'
<1> SUFFICES ASSUME IndInv, [Next]_vars PROVE IndInv'
  OBVIOUS
<1>1. CASE \E f \in Files : Step(f)
  <2>1. PICK f \in Files : Step(f)
    BY <1>1
  <2>2. 1..MaxCall \subseteq Nat /\ 0..MaxCall \subseteq Nat
    OBVIOUS
  <2>3. QED
    BY <2>1, <2>2, CreateFileIndInv, WriteBytesIndInv, FindStreamIndInv,
       QueryCurrentOffsetIndInv, WriteToVolumeIndInv, BytesWereWrittenIndInv,
       CloseFileIndInv DEF Step
<1>2. CASE WriteProtect
  BY <1>2, WriteProtectIndInv
<1>3. CASE UNCHANGED vars
  BY <1>3 DEF vars, locals, IndInv, TypeOK, ExclusiveOwnership, WriteBounds,
              Writing, Running
<1>4. QED
  BY <1>1, <1>2, <1>3 DEF Next, Finished

\* Whatever the streams do, the inductive invariant holds: FindStream and the
\* two critical sections of WriteBytes protect the bytes written in between.
THEOREM IndInvInvariant == Spec => []IndInv
<1>1. QED
  BY InitIndInv, NextIndInv, PTL DEF Spec

\* The types hold for every number of files, threads and every volume size.
THEOREM TypeCorrect == Spec => []TypeOK
<1>1. IndInv => TypeOK
  BY DEF IndInv
<1>2. QED
  BY <1>1, IndInvInvariant, PTL

\* No two streams ever write to the same volume at the same time, and a stream
\* that is outside of the lock owns the volume it writes to.
THEOREM StreamsOwnTheirVolumes == Spec => []ExclusiveOwnership
<1>1. IndInv => ExclusiveOwnership
  BY DEF IndInv
<1>2. QED
  BY <1>1, IndInvInvariant, PTL

-----------------------------------------------------------------------------
(***************************************************************************)
(* The accounting of leftSize.  Only a writing stream's volume changes, and*)
(* it is the only stream that has bytes pending there.                     *)
(***************************************************************************)

\* A step that keeps the volumes, and the leftSize and the pending bytes of
\* those that stay open, keeps the accounting.
LEMMA SameAccounts ==
    ASSUME LeftSizeExact, UNCHANGED <<volume, writeProtected>>,
           DOMAIN openVolumes' = DOMAIN openVolumes,
           \A v \in DOMAIN openVolumes :
                openVolumes'[v].leftSize = openVolumes[v].leftSize /\ Pending(v)' = Pending(v)
    PROVE  LeftSizeExact'
BY DEF LeftSizeExact

LEMMA FindStreamAccounts ==
    ASSUME IndInv, LeftSizeExact, NEW f \in Files, FindStream(f)
    PROVE  LeftSizeExact'
<1> USE DEF IndInv
<1>1. /\ pc[f] = "find" /\ pc' = [pc EXCEPT ![f] = "offset"]
      /\ UNCHANGED <<nBytesWritten, writeProtected>>
  BY DEF FindStream, FindOwn, FindFree, FindNew, Found
<1>2. \A w : w \in Files /\ pc'[w] = "record" <=> w \in Files /\ pc[w] = "record"
  BY <1>1 DEF TypeOK
<1>3. CASE FindOwn(f)
  BY <1>1, <1>2, <1>3, SameAccounts DEF FindOwn, Pending
<1>4. CASE FindFree(f)
  <2>1. PICK v \in OwnedBy(NoWriter) : openVolumes' = SetOwner(v, f)
    BY <1>4 DEF FindFree, TakeFree
  <2>2. UNCHANGED volume
    BY <1>4 DEF FindFree
  <2>3. openVolumes \in OpenVolumesType(DOMAIN openVolumes)
    BY DEF TypeOK, OpenVolumesType
  <2>4. v \in DOMAIN openVolumes /\ openVolumes[v].ownedWriter = NoWriter
    BY DEF OwnedBy
  <2>5. /\ DOMAIN openVolumes' = DOMAIN openVolumes
        /\ \A u \in DOMAIN openVolumes :
              /\ openVolumes'[u].leftSize = openVolumes[u].leftSize
              /\ openVolumes'[u].ownedWriter =
                   IF u = v THEN f ELSE openVolumes[u].ownedWriter
    BY <2>1, <2>3, <2>4 DEF SetOwner, OpenVolumesType
  <2>6. ASSUME NEW u \in DOMAIN openVolumes PROVE Pending(u)' = Pending(u)
    BY <1>1, <1>2, <2>4, <2>5, NoWriterAssumption DEF Pending
  <2>7. QED
    BY <1>1, <2>2, <2>5, <2>6, SameAccounts
<1>5. CASE FindNew(f)
  <2>0. PICK v : v = nextVolumeNumber
    OBVIOUS
  <2>1. /\ openVolumes' = [u \in DOMAIN openVolumes \cup {v} |->
                            IF u = v THEN [leftSize |-> VolumeSize, ownedWriter |-> f]
                            ELSE openVolumes[u]]
        /\ volume' = [u \in DOMAIN volume \cup {v} |->
                            IF u = v THEN <<>> ELSE volume[u]]
    BY <1>5, <2>0 DEF FindNew, NewNumber
  <2>2. v \notin DOMAIN openVolumes /\ v \notin DOMAIN volume
        /\ DOMAIN openVolumes \subseteq DOMAIN volume
    BY <2>0 DEF TypeOK
  <2>3. ASSUME NEW u \in DOMAIN openVolumes
        PROVE  /\ openVolumes'[u].leftSize = openVolumes[u].leftSize
               /\ volume'[u] = volume[u] /\ Pending(u)' = Pending(u)
    BY <1>1, <1>2, <2>1, <2>2 DEF Pending
  <2>4. /\ openVolumes'[v].leftSize = VolumeSize /\ Len(volume'[v]) = 0
        /\ Pending(v)' = 0
    BY <1>1, <2>1 DEF Pending, TypeOK
  <2>5. /\ DOMAIN openVolumes' = DOMAIN openVolumes \cup {v}
        /\ DOMAIN volume' = DOMAIN volume \cup {v}
        /\ \A u \in DOMAIN volume : volume'[u] = volume[u]
    BY <2>1, <2>2
  <2>6. VolumeSize \in Nat /\ VolumeSize > 0 /\ VolumeSize + 0 = VolumeSize
    BY SizesAssumption
  <2>7. \A u \in DOMAIN openVolumes' :
            /\ openVolumes'[u].leftSize > 0
            /\ openVolumes'[u].leftSize + Len(volume'[u]) = VolumeSize + Pending(u)'
    BY <2>3, <2>4, <2>5, <2>6 DEF LeftSizeExact
  <2>8. \A u \in DOMAIN volume' : Len(volume'[u]) <= VolumeSize
    BY <2>4, <2>5, <2>6 DEF LeftSizeExact
  <2>9. ~writeProtected' => \A u \in DOMAIN volume' \ DOMAIN openVolumes' :
            Len(volume'[u]) = VolumeSize
    BY <1>1, <2>5 DEF LeftSizeExact
  <2>10. QED
    BY <2>7, <2>8, <2>9 DEF LeftSizeExact
<1>6. QED
  BY <1>3, <1>4, <1>5 DEF FindStream

LEMMA WriteToVolumeAccounts ==
    ASSUME IndInv, LeftSizeExact, NEW f \in Files, NEW n \in Nat, WriteToVolume(f, n)
    PROVE  LeftSizeExact'
<1> USE DEF IndInv
<1>0. PICK v : v = stream[f]
  OBVIOUS
<1>1. /\ pc[f] = "write" /\ pc' = [pc EXCEPT ![f] = "record"]
      /\ volume' = [volume EXCEPT ![v] = @ \o Chunk(f, written[f], n)]
      /\ nBytesWritten' = [nBytesWritten EXCEPT ![f] = n]
      /\ n <= bytesToWrite[f]
      /\ UNCHANGED <<openVolumes, writeProtected>>
  BY <1>0 DEF WriteToVolume
<1>2. /\ v \in DOMAIN openVolumes /\ openVolumes[v].ownedWriter = f
      /\ \A u \in DOMAIN openVolumes \ {v} : openVolumes[u].ownedWriter # f
  BY <1>0, <1>1, NoWriterAssumption DEF ExclusiveOwnership, Writing
<1>3. /\ v \in DOMAIN volume /\ Len(volume[v]) \in Nat
      /\ openVolumes[v].leftSize \in Nat /\ n <= openVolumes[v].leftSize
  <2>1. v \in DOMAIN volume /\ Len(volume[v]) \in Nat /\ openVolumes[v].leftSize \in Nat
    BY <1>2 DEF TypeOK
  <2>2. bytesToWrite[f] <= openVolumes[v].leftSize /\ bytesToWrite[f] \in Nat
    BY <1>0, <1>1 DEF WriteBounds, TypeOK
  <2>3. QED
    BY <2>1, <2>2, <1>1
<1>4. Len(volume'[v]) = Len(volume[v]) + n
  <2>1. volume[v] \in Seq(Bytes) /\ volume'[v] = volume[v] \o Chunk(f, written[f], n)
    BY <1>1, <1>3 DEF TypeOK
  <2>2. Chunk(f, written[f], n) \in Seq(Bytes) /\ Len(Chunk(f, written[f], n)) = n
    BY ChunkType DEF TypeOK
  <2>3. QED
    BY <2>1, <2>2, LenConcat
<1>5. Pending(v) = 0 /\ Pending(v)' = n
  BY <1>1, <1>2 DEF Pending, TypeOK
<1>6. \A u \in DOMAIN openVolumes \ {v} : Pending(u)' = Pending(u)
  BY <1>1, <1>2 DEF Pending, TypeOK
<1>7. DOMAIN volume' = DOMAIN volume /\ \A u \in DOMAIN volume \ {v} : volume'[u] = volume[u]
  BY <1>1 DEF TypeOK
<1>8. QED
  BY <1>1, <1>2, <1>3, <1>4, <1>5, <1>6, <1>7, SizesAssumption DEF LeftSizeExact

LEMMA BytesWereWrittenAccounts ==
    ASSUME IndInv, LeftSizeExact, NEW f \in Files, BytesWereWrittenToVolume(f)
    PROVE  LeftSizeExact'
<1> USE DEF IndInv
<1>0. PICK v : v = stream[f]
  OBVIOUS
<1> DEFINE left == openVolumes[v].leftSize - nBytesWritten[f]
<1>1. pc[f] = "record" /\ Writing(f)
  BY DEF BytesWereWrittenToVolume, Writing
<1>2. OwnedBy(f) = {v}
  BY <1>0, <1>1, OwnedByWriter
<1>3. /\ SetLeftSize(v, left)
      /\ pc' = [pc EXCEPT ![f] = IF size[f] = 0 THEN "open" ELSE "find"]
      /\ UNCHANGED <<volume, writeProtected, nBytesWritten>>
  BY <1>2 DEF BytesWereWrittenToVolume, locals
<1>4. /\ v \in DOMAIN openVolumes /\ openVolumes[v].ownedWriter = f
      /\ \A u \in DOMAIN openVolumes \ {v} : openVolumes[u].ownedWriter # f
      /\ left \in Nat /\ openVolumes[v].leftSize \in Nat /\ nBytesWritten[f] \in Nat
      /\ v \in DOMAIN volume /\ Len(volume[v]) \in Nat
  <2>1. /\ v \in DOMAIN openVolumes /\ openVolumes[v].ownedWriter = f
        /\ \A u \in DOMAIN openVolumes \ {v} : openVolumes[u].ownedWriter # f
    BY <1>0, <1>1, NoWriterAssumption DEF ExclusiveOwnership
  <2>2. /\ openVolumes[v].leftSize \in Nat /\ nBytesWritten[f] \in Nat
        /\ v \in DOMAIN volume /\ Len(volume[v]) \in Nat
    BY <2>1 DEF TypeOK
  <2>3. nBytesWritten[f] <= openVolumes[v].leftSize
    BY <1>0, <1>1 DEF WriteBounds
  <2>4. QED
    BY <2>1, <2>2, <2>3
<1>5. Pending(v) = nBytesWritten[f]
  BY <1>1, <1>4 DEF Pending
<1>6. left + Len(volume[v]) = VolumeSize
  BY <1>4, <1>5, SizesAssumption DEF LeftSizeExact
<1>7. pc'[f] # "record" /\ \A g \in Files \ {f} : pc'[g] = pc[g]
  BY <1>3 DEF TypeOK
<1>8. CASE left = 0
  <2>1. openVolumes' = [u \in DOMAIN openVolumes \ {v} |-> openVolumes[u]]
    BY <1>3, <1>8 DEF SetLeftSize
  <2>2. Len(volume[v]) = VolumeSize
    BY <1>4, <1>6, <1>8
  <2>3. \A u \in DOMAIN openVolumes' : openVolumes'[u] = openVolumes[u] /\ Pending(u)' = Pending(u)
    BY <1>3, <1>4, <1>7, <2>1 DEF Pending
  <2> HIDE DEF left
  <2>4. QED
    BY <1>3, <2>1, <2>2, <2>3 DEF LeftSizeExact
<1>9. CASE left # 0
  <2>1. openVolumes' = [openVolumes EXCEPT ![v].leftSize = left]
    BY <1>3, <1>9 DEF SetLeftSize
  <2>2. openVolumes \in OpenVolumesType(DOMAIN openVolumes)
    BY DEF TypeOK, OpenVolumesType
  <2>3. left > 0
    BY <1>4, <1>9
  <2> HIDE DEF left
  <2>4. /\ DOMAIN openVolumes' = DOMAIN openVolumes
        /\ openVolumes'[v].leftSize = left /\ openVolumes'[v].ownedWriter = f
        /\ \A u \in DOMAIN openVolumes \ {v} : openVolumes'[u] = openVolumes[u]
    BY <1>4, <2>1, <2>2 DEF OpenVolumesType
  <2>5. Pending(v)' = 0 /\ \A u \in DOMAIN openVolumes \ {v} : Pending(u)' = Pending(u)
    BY <1>3, <1>4, <1>7, <2>4 DEF Pending
  <2>6. QED
    BY <1>3, <1>4, <1>6, <2>3, <2>4, <2>5, SizesAssumption DEF LeftSizeExact
<1>10. QED
  BY <1>8, <1>9

LEMMA CloseFileAccounts ==
    ASSUME IndInv, LeftSizeExact, NEW f \in Files, CloseFile(f)
    PROVE  LeftSizeExact'
<1> USE DEF IndInv
<1>1. /\ pc[f] = "open" /\ pc' = [pc EXCEPT ![f] = "closed"]
      /\ ReleaseVolume(f)
      /\ UNCHANGED <<volume, writeProtected, nBytesWritten>>
  BY DEF CloseFile, locals
<1>2. CASE OwnedBy(f) = {} /\ UNCHANGED openVolumes
  <2>1. \A u \in DOMAIN openVolumes : Pending(u)' = Pending(u)
    BY <1>1, <1>2 DEF Pending, TypeOK
  <2>2. QED
    BY <1>1, <1>2, <2>1, SameAccounts
<1>3. CASE \E v \in OwnedBy(f) : openVolumes' = SetOwner(v, NoWriter)
  <2>1. PICK v \in OwnedBy(f) : openVolumes' = SetOwner(v, NoWriter)
    BY <1>3
  <2>2. v \in DOMAIN openVolumes /\ openVolumes[v].ownedWriter = f
    BY DEF OwnedBy
  <2>3. openVolumes \in OpenVolumesType(DOMAIN openVolumes)
    BY DEF TypeOK, OpenVolumesType
  <2>4. /\ DOMAIN openVolumes' = DOMAIN openVolumes
        /\ \A u \in DOMAIN openVolumes :
              /\ openVolumes'[u].leftSize = openVolumes[u].leftSize
              /\ openVolumes'[u].ownedWriter =
                   IF u = v THEN NoWriter ELSE openVolumes[u].ownedWriter
    BY <2>1, <2>2, <2>3 DEF SetOwner, OpenVolumesType
  <2>5. ASSUME NEW u \in DOMAIN openVolumes PROVE Pending(u)' = Pending(u)
    BY <1>1, <2>2, <2>4, NoWriterAssumption DEF Pending, TypeOK
  <2>6. QED
    BY <1>1, <2>4, <2>5, SameAccounts
<1>4. QED
  BY <1>1, <1>2, <1>3 DEF ReleaseVolume

LEMMA NextAccounts == IndInv /\ LeftSizeExact /\ [Next]_vars => LeftSizeExact'
<1> SUFFICES ASSUME IndInv, LeftSizeExact, [Next]_vars PROVE LeftSizeExact'
  OBVIOUS
<1>1. ASSUME NEW f \in Files,
             \/ CreateFile(f)
             \/ \E n \in 1..MaxCall : WriteBytes(f, n)
             \/ QueryCurrentOffset(f)
      PROVE  LeftSizeExact'
  <2>1. /\ UNCHANGED <<openVolumes, volume, nBytesWritten, writeProtected>>
        /\ \E p \in {"open", "find", "write"} : pc' = [pc EXCEPT ![f] = p]
        /\ pc[f] # "record"
    BY <1>1 DEF CreateFile, WriteBytes, QueryCurrentOffset, locals
  <2>2. \A u \in DOMAIN openVolumes : Pending(u)' = Pending(u)
    BY <2>1 DEF Pending, IndInv, TypeOK
  <2>3. QED
    BY <2>1, <2>2, SameAccounts
<1>2. CASE \E f \in Files : Step(f)
  BY <1>1, <1>2, FindStreamAccounts, WriteToVolumeAccounts, BytesWereWrittenAccounts,
     CloseFileAccounts DEF Step
<1>3. CASE WriteProtect
  BY <1>3 DEF WriteProtect, LeftSizeExact
<1>4. CASE UNCHANGED vars
  BY <1>4 DEF vars, locals, LeftSizeExact, Pending
<1>5. QED
  BY <1>2, <1>3, <1>4 DEF Next, Finished

\* leftSize of a volume that streams share one after the other never drifts from
\* the file, and no volume grows beyond Config.volumeSize.
THEOREM VolumesAreAccountedFor == Spec => []LeftSizeExact
<1>1. Init => LeftSizeExact
  BY DEF Init, LeftSizeExact
<1>2. QED
  BY <1>1, NextAccounts, IndInvInvariant, PTL DEF Spec

-----------------------------------------------------------------------------
SmallVolumes == VolumeSize < UInt32Size

\* Every round of the loop in WriteBytes writes something.
Progress(f) ==
    /\ pc[f] \in {"find", "offset", "write"} => size[f] > 0
    /\ pc[f] \in {"offset", "write"} => bytesToWrite[f] > 0
    /\ pc[f] = "record" => nBytesWritten[f] > 0

\* What has been written since the offset was queried ends the volume.
PendingBytes(f) ==
    /\ pc[f] = "write" => offset[f] = Len(volume[stream[f]])
    /\ pc[f] = "record" =>
        /\ nBytesWritten[f] <= written[f]
        /\ offset[f] + nBytesWritten[f] = Len(volume[stream[f]])
        /\ \A j \in 1..nBytesWritten[f] :
            volume[stream[f]][offset[f] + j] = <<f, written[f] - nBytesWritten[f] + j>>

\* The blocks bs are, in order, the first n bytes of f.
ReadAs(bs, f, n) ==
    /\ \A k \in DOMAIN bs : bs[k].size > 0 /\ InVolume(bs[k])
    /\ \A k \in DOMAIN bs : \A j \in 1..bs[k].size :
        ByteAt(bs[k], j) = <<f, StartOf(bs[k]) + j>>
    /\ \A k \in 1..Len(bs) - 1 :
        StartOf(bs[k + 1]) = StartOf(bs[k]) + bs[k].size
    /\ IF bs = <<>> THEN n = 0
       ELSE /\ StartOf(bs[1]) = 0
            /\ StartOf(bs[Len(bs)]) + bs[Len(bs)].size = n

\* A later block starts behind every earlier one.
InOrder(bs) == \A k, l \in DOMAIN bs :
    k < l => StartOf(bs[k]) + bs[k].size <= StartOf(bs[l])

\* BlocksReproduceFile of one file, and what makes its blocks disjoint.
Reproduces(f) == ReadAs(blocks[f], f, Recorded(f))
Sorted(f) == InOrder(blocks[f])

\* Every byte is in a block or was just written.
Pends(f, v, p) == pc[f] = "record" /\ stream[f] = v /\ offset[f] < p
Covered(v, p) ==
    \/ \E f \in Files : \E k \in DOMAIN blocks[f] : Covers(<<f, k>>, v, p)
    \/ \E f \in Files : Pends(f, v, p)

\* A volume that is still empty will be written to.
Used(v) ==
    volume[v] = <<>> => \E f \in Files : pc[f] \in {"offset", "write"} /\ stream[f] = v

BlockInv ==
    /\ \A f \in Files : Progress(f) /\ PendingBytes(f) /\ Reproduces(f) /\ Sorted(f)
    /\ \A v \in DOMAIN volume :
        Used(v) /\ \A p \in 1..Len(volume[v]) : Covered(v, p)

\* What is known of a state in which BlockInv is to be kept.
KnownInv == SmallVolumes /\ IndInv /\ LeftSizeExact /\ BlockInv

-----------------------------------------------------------------------------
\* Of a left size that a volume can have the narrowing loses nothing.
LEMMA NarrowedMinPositive ==
    ASSUME SmallVolumes, NEW left \in Nat, NEW count \in Nat,
           0 < left, left <= VolumeSize, 0 < count
    PROVE  NarrowedMin(left, count) > 0
<1>1. left % UInt32Size = left
  BY SizesAssumption, Z3 DEF SmallVolumes
<1>2. QED
  BY <1>1 DEF NarrowedMin

\* The parts of a concatenation.
LEMMA ConcatParts ==
    ASSUME NEW S, NEW s \in Seq(S), NEW t \in Seq(S)
    PROVE  /\ Len(s \o t) = Len(s) + Len(t)
           /\ \A p \in 1..Len(s) : (s \o t)[p] = s[p]
           /\ \A j \in 1..Len(t) : (s \o t)[Len(s) + j] = t[j]
OBVIOUS

\* A new block is appended, or makes the last one longer.
LEMMA AddBlockCases ==
    ASSUME NEW bs \in Seq(Block), NEW b \in Block
    PROVE  LET r == AddBlock(bs, b)
               m == Len(bs)
           IN  \/ /\ m > 0 /\ Contiguous(bs[m], b)
                  /\ Len(r) = m
                  /\ \A k \in 1..m - 1 : r[k] = bs[k]
                  /\ r[m].volumeNumber = bs[m].volumeNumber
                  /\ r[m].offset = bs[m].offset
                  /\ r[m].size = bs[m].size + b.size
               \/ /\ Len(r) = m + 1
                  /\ \A k \in 1..m : r[k] = bs[k]
                  /\ r[m + 1] = b
<1> DEFINE m == Len(bs)
<1>1. CASE m > 0 /\ Contiguous(bs[m], b)
  <2>1. m \in 1..Len(bs) /\ bs[m] \in Block
    BY <1>1
  <2>2. AddBlock(bs, b) = [bs EXCEPT ![m].size = @ + b.size]
    BY <1>1 DEF AddBlock
  <2>3. QED
    BY <1>1, <2>1, <2>2 DEF Block
<1>2. CASE ~(m > 0 /\ Contiguous(bs[m], b))
  <2>1. AddBlock(bs, b) = Append(bs, b)
    BY <1>2 DEF AddBlock
  <2>2. QED
    BY <2>1
<1>3. QED
  BY <1>1, <1>2

-----------------------------------------------------------------------------
\* Volumes are only appended to.
Grows ==
    /\ DOMAIN volume \subseteq DOMAIN volume'
    /\ \A v \in DOMAIN volume :
        /\ Len(volume[v]) <= Len(volume'[v])
        /\ \A p \in 1..Len(volume[v]) : volume'[v][p] = volume[v][p]

\* What blocks in the volumes read stays.
LEMMA BlocksStay ==
    ASSUME IndInv, IndInv', Grows, NEW b \in Block, b.size > 0, InVolume(b)
    PROVE  /\ InVolume(b)'
           /\ \A j \in 1..b.size : ByteAt(b, j)' = ByteAt(b, j)
           /\ StartOf(b)' = StartOf(b)
<1> DEFINE v == b.volumeNumber
<1>1. /\ v \in DOMAIN volume /\ b.offset \in Nat /\ b.size \in Nat
      /\ b.offset + b.size <= Len(volume[v])
      /\ Len(volume[v]) \in Nat /\ v \in DOMAIN volume' /\ Len(volume'[v]) \in Nat
  BY DEF Block, InVolume, IndInv, TypeOK, Grows
<1>2. InVolume(b)'
  BY <1>1 DEF InVolume, Grows
<1>3. ASSUME NEW j \in 1..b.size PROVE ByteAt(b, j)' = ByteAt(b, j)
  <2>1. b.offset + j \in 1..Len(volume[v])
    BY <1>1
  <2>2. QED
    BY <1>1, <2>1 DEF ByteAt, Grows
<1>4. StartOf(b)' = StartOf(b)
  BY <1>1, <1>3 DEF StartOf
<1>5. QED
  BY <1>2, <1>3, <1>4

LEMMA FileStays ==
    ASSUME KnownInv, IndInv', Grows, NEW f \in Files,
           blocks'[f] = blocks[f], Recorded(f)' = Recorded(f)
    PROVE  Reproduces(f)' /\ Sorted(f)'
<1> DEFINE bs == blocks[f]
<1>1. bs \in Seq(Block) /\ Reproduces(f) /\ Sorted(f)
  BY DEF KnownInv, IndInv, TypeOK, BlockInv
<1>2. ASSUME NEW k \in DOMAIN bs
      PROVE  /\ bs[k] \in Block /\ bs[k].size > 0 /\ InVolume(bs[k])
             /\ InVolume(bs[k])'
             /\ \A j \in 1..bs[k].size : ByteAt(bs[k], j)' = ByteAt(bs[k], j)
             /\ StartOf(bs[k])' = StartOf(bs[k])
  <2>1. bs[k] \in Block /\ bs[k].size > 0 /\ InVolume(bs[k])
    BY <1>1 DEF Reproduces, ReadAs
  <2>2. IndInv
    BY DEF KnownInv
  <2>3. QED
    BY <2>1, <2>2, BlocksStay
<1>3. bs' = bs
  OBVIOUS
<1>4. Sorted(f)'
  BY <1>1, <1>2, <1>3 DEF Sorted, InOrder
<1>5. Reproduces(f)'
  <2>1. bs = <<>> \/ (1 \in DOMAIN bs /\ Len(bs) \in DOMAIN bs)
    BY <1>1
  <2>2. \A k \in 1..Len(bs) - 1 : k \in DOMAIN bs /\ k + 1 \in DOMAIN bs
    BY <1>1
  <2>3. \A k \in DOMAIN bs : bs[k].size > 0 /\ InVolume(bs[k])'
    BY <1>2
  <2>4. \A k \in DOMAIN bs : \A j \in 1..bs[k].size :
            ByteAt(bs[k], j)' = <<f, StartOf(bs[k])' + j>>
    BY <1>1, <1>2 DEF Reproduces, ReadAs
  <2>5. \A k \in 1..Len(bs) - 1 : StartOf(bs[k + 1])' = StartOf(bs[k])' + bs[k].size
    BY <1>1, <1>2, <2>2 DEF Reproduces, ReadAs
  <2>6. IF bs = <<>> THEN Recorded(f)' = 0
        ELSE /\ StartOf(bs[1])' = 0
             /\ StartOf(bs[Len(bs)])' + bs[Len(bs)].size = Recorded(f)'
    BY <1>1, <1>2, <2>1 DEF Reproduces, ReadAs
  <2> HIDE DEF bs
  <2>7. QED
    BY <1>3, <2>3, <2>4, <2>5, <2>6 DEF Reproduces, ReadAs, bs
<1>6. QED
  BY <1>4, <1>5

\* A file whose task did nothing, and whose volume nobody else writes to.
LEMMA OthersStay ==
    ASSUME KnownInv, IndInv', Grows, NEW f \in Files,
           blocks'[f] = blocks[f], pc'[f] = pc[f], written'[f] = written[f],
           size'[f] = size[f], stream'[f] = stream[f],
           bytesToWrite'[f] = bytesToWrite[f], offset'[f] = offset[f],
           nBytesWritten'[f] = nBytesWritten[f],
           Writing(f) => volume'[stream[f]] = volume[stream[f]]
    PROVE  Progress(f)' /\ PendingBytes(f)' /\ Reproduces(f)' /\ Sorted(f)'
<1>1. Recorded(f)' = Recorded(f)
  BY DEF Recorded
<1>2. Reproduces(f)' /\ Sorted(f)'
  BY <1>1, FileStays
<1>3. Progress(f) /\ PendingBytes(f)
  BY DEF KnownInv, BlockInv
<1>4. QED
  BY <1>2, <1>3 DEF Progress, PendingBytes, Writing

\* The bytes in the volumes stay covered when no stream writes or records.
LEMMA BytesStayCovered ==
    ASSUME KnownInv, UNCHANGED <<volume, blocks>>,
           \A g \in Files : pc[g] = "record" =>
                pc'[g] = "record" /\ stream'[g] = stream[g] /\ offset'[g] = offset[g],
           \A g \in Files : pc[g] \in {"offset", "write"} =>
                pc'[g] \in {"offset", "write"} /\ stream'[g] = stream[g]
    PROVE  \A v \in DOMAIN volume' :
                Used(v)' /\ \A p \in 1..Len(volume'[v]) : Covered(v, p)'
<1> SUFFICES ASSUME NEW v \in DOMAIN volume
             PROVE  Used(v)' /\ \A p \in 1..Len(volume[v]) : Covered(v, p)'
  OBVIOUS
<1>1. Used(v) /\ \A p \in 1..Len(volume[v]) : Covered(v, p)
  BY DEF KnownInv, BlockInv
<1>2. Used(v)'
  BY <1>1 DEF Used
<1>3. ASSUME NEW p \in 1..Len(volume[v]) PROVE Covered(v, p)'
  <2>1. CASE \E f \in Files : Pends(f, v, p)
    BY <2>1 DEF Covered, Pends
  <2>2. CASE \E f \in Files : \E k \in DOMAIN blocks[f] : Covers(<<f, k>>, v, p)
    BY <2>2 DEF Covered, Covers
  <2>3. QED
    BY <1>1, <2>1, <2>2 DEF Covered
<1>4. QED
  BY <1>2, <1>3

-----------------------------------------------------------------------------
\* One lemma for each kind of step.
LEMMA LocalStepBlocks ==
    ASSUME KnownInv, IndInv', NEW f \in Files,
           \/ CreateFile(f)
           \/ \E n \in 1..MaxCall : WriteBytes(f, n)
           \/ QueryCurrentOffset(f)
           \/ CloseFile(f)
    PROVE  BlockInv'
<1>1. /\ UNCHANGED <<volume, blocks, written, stream, bytesToWrite, nBytesWritten>>
      /\ \A g \in Files \ {f} :
            pc'[g] = pc[g] /\ size'[g] = size[g] /\ offset'[g] = offset[g]
      /\ IndInv /\ BlockInv
  BY DEF CreateFile, WriteBytes, QueryCurrentOffset, CloseFile, locals, KnownInv,
         IndInv, TypeOK
<1>2. Grows
  BY <1>1 DEF Grows, IndInv, TypeOK
<1>3. ASSUME NEW g \in Files \ {f}
      PROVE  Progress(g)' /\ PendingBytes(g)' /\ Reproduces(g)' /\ Sorted(g)'
  BY <1>1, <1>2, OthersStay
<1>4. /\ pc[f] # "record" /\ pc'[f] # "record"
      /\ pc[f] \in {"offset", "write"} => pc'[f] \in {"offset", "write"}
  BY DEF CreateFile, WriteBytes, QueryCurrentOffset, CloseFile, KnownInv, IndInv, TypeOK
<1>5. Reproduces(f)' /\ Sorted(f)'
  <2>1. Recorded(f)' = Recorded(f)
    BY <1>1, <1>4 DEF Recorded
  <2>2. QED
    BY <1>1, <1>2, <2>1, FileStays
<1>6. Progress(f)' /\ PendingBytes(f)'
  <2>0. Progress(f) /\ PendingBytes(f)
    BY <1>1 DEF BlockInv
  <2>1. CASE CreateFile(f)
    BY <2>1 DEF CreateFile, Progress, PendingBytes, KnownInv, IndInv, TypeOK
  <2>2. CASE \E n \in 1..MaxCall : WriteBytes(f, n)
    BY <2>2 DEF WriteBytes, Progress, PendingBytes, KnownInv, IndInv, TypeOK
  <2>3. CASE QueryCurrentOffset(f)
    BY <2>0, <2>3 DEF QueryCurrentOffset, Progress, PendingBytes, KnownInv, IndInv, TypeOK
  <2>4. CASE CloseFile(f)
    BY <2>4 DEF CloseFile, Progress, PendingBytes, KnownInv, IndInv, TypeOK
  <2>5. QED
    BY <2>1, <2>2, <2>3, <2>4
<1>7. \A v \in DOMAIN volume' :
            Used(v)' /\ \A p \in 1..Len(volume'[v]) : Covered(v, p)'
  BY <1>1, <1>4, BytesStayCovered
<1>8. QED
  BY <1>3, <1>5, <1>6, <1>7 DEF BlockInv

\* The volume that FindStream gives a stream has bytes left.
LEMMA FindStreamFinds ==
    ASSUME KnownInv, IndInv', NEW f \in Files, FindStream(f)
    PROVE  /\ pc[f] = "find" /\ pc' = [pc EXCEPT ![f] = "offset"]
           /\ UNCHANGED <<blocks, written, size, offset, nBytesWritten>>
           /\ \A g \in Files \ {f} :
                stream'[g] = stream[g] /\ bytesToWrite'[g] = bytesToWrite[g]
           /\ bytesToWrite'[f] > 0
           /\ \/ UNCHANGED volume
              \/ /\ nextVolumeNumber \notin DOMAIN volume
                 /\ stream'[f] = nextVolumeNumber
                 /\ volume' = [v \in DOMAIN volume \cup {nextVolumeNumber} |->
                                 IF v = nextVolumeNumber THEN <<>> ELSE volume[v]]
<1>1. pc[f] = "find" /\ size[f] > 0 /\ size[f] \in Nat /\ SmallVolumes
  BY DEF FindStream, KnownInv, BlockInv, Progress, IndInv, TypeOK
<1>2. PICK v, left :
        /\ Found(f, v, left)
        /\ \/ /\ UNCHANGED volume /\ v \in DOMAIN openVolumes
              /\ left = openVolumes[v].leftSize
              /\ openVolumes[v].ownedWriter \in {f, NoWriter}
           \/ /\ v = nextVolumeNumber /\ left = VolumeSize
              /\ volume' = [u \in DOMAIN volume \cup {v} |->
                              IF u = v THEN <<>> ELSE volume[u]]
  BY DEF FindStream, FindOwn, FindFree, FindNew, NewNumber, OwnedBy
<1>3. left \in Nat /\ 0 < left /\ left <= VolumeSize
  <2>1. CASE left = VolumeSize
    BY <2>1, SizesAssumption
  <2>2. CASE /\ v \in DOMAIN openVolumes /\ left = openVolumes[v].leftSize
             /\ openVolumes[v].ownedWriter \in {f, NoWriter}
    <3>1. Pending(v) = 0
      BY <1>1, <2>2, NoWriterAssumption DEF Pending
    <3>2. v \in DOMAIN volume /\ Len(volume[v]) \in Nat /\ left \in Nat
      <4>1. TypeOK /\ openVolumes[v].leftSize \in Nat
        BY <2>2 DEF KnownInv, IndInv, TypeOK
      <4>2. v \in DOMAIN volume /\ Len(volume[v]) \in Nat
        BY <2>2, <4>1 DEF TypeOK
      <4>3. QED
        BY <2>2, <4>1, <4>2
    <3>3. left > 0 /\ left + Len(volume[v]) = VolumeSize + 0
      BY <2>2, <3>1 DEF KnownInv, LeftSizeExact
    <3>4. QED
      BY <3>2, <3>3, SizesAssumption
  <2>3. QED
    BY <1>2, <2>1, <2>2
<1>4. bytesToWrite'[f] > 0
  <2>1. bytesToWrite' = [bytesToWrite EXCEPT ![f] = NarrowedMin(left, size[f])]
    BY <1>2 DEF Found
  <2>2. f \in DOMAIN bytesToWrite
    BY DEF KnownInv, IndInv, TypeOK
  <2>3. QED
    BY <1>1, <1>3, <2>1, <2>2, NarrowedMinPositive
<1>5. /\ stream' = [stream EXCEPT ![f] = v]
      /\ \A g \in Files \ {f} : bytesToWrite'[g] = bytesToWrite[g]
      /\ pc' = [pc EXCEPT ![f] = "offset"]
      /\ UNCHANGED <<blocks, written, size, offset, nBytesWritten>>
  BY <1>2 DEF Found, KnownInv, IndInv, TypeOK
<1>6. stream'[f] = v /\ \A g \in Files \ {f} : stream'[g] = stream[g]
  BY <1>5 DEF KnownInv, IndInv, TypeOK
<1>7. nextVolumeNumber \notin DOMAIN volume
  BY DEF KnownInv, IndInv, TypeOK
<1>8. QED
  BY <1>1, <1>2, <1>4, <1>5, <1>6, <1>7

LEMMA FindStreamBlocks ==
    ASSUME KnownInv, IndInv', NEW f \in Files, FindStream(f)
    PROVE  BlockInv'
<1>1. /\ pc[f] = "find" /\ pc' = [pc EXCEPT ![f] = "offset"]
      /\ UNCHANGED <<blocks, written, size, offset, nBytesWritten>>
      /\ \A g \in Files \ {f} :
            stream'[g] = stream[g] /\ bytesToWrite'[g] = bytesToWrite[g]
      /\ bytesToWrite'[f] > 0
      /\ \/ UNCHANGED volume
         \/ /\ nextVolumeNumber \notin DOMAIN volume
            /\ stream'[f] = nextVolumeNumber
            /\ volume' = [v \in DOMAIN volume \cup {nextVolumeNumber} |->
                            IF v = nextVolumeNumber THEN <<>> ELSE volume[v]]
  BY FindStreamFinds
<1>2. IndInv /\ BlockInv /\ pc'[f] = "offset" /\ \A g \in Files \ {f} : pc'[g] = pc[g]
  BY <1>1 DEF KnownInv, IndInv, TypeOK
<1>3. Grows /\ \A v \in DOMAIN volume : volume'[v] = volume[v]
  <2>1. /\ DOMAIN volume \subseteq DOMAIN volume'
        /\ \A v \in DOMAIN volume : volume'[v] = volume[v]
    BY <1>1
  <2>2. \A v \in DOMAIN volume : Len(volume[v]) \in Nat
    BY <1>2 DEF IndInv, TypeOK
  <2>3. QED
    BY <2>1, <2>2 DEF Grows
<1>4. ASSUME NEW g \in Files \ {f}
      PROVE  Progress(g)' /\ PendingBytes(g)' /\ Reproduces(g)' /\ Sorted(g)'
  <2>1. Writing(g) => stream[g] \in DOMAIN volume
    BY <1>2 DEF IndInv, TypeOK, ExclusiveOwnership
  <2>2. QED
    BY <1>1, <1>2, <1>3, <2>1, OthersStay
<1>5. Reproduces(f)' /\ Sorted(f)'
  <2>1. Recorded(f)' = Recorded(f)
    BY <1>1, <1>2 DEF Recorded
  <2>2. QED
    BY <1>1, <1>3, <2>1, FileStays
<1>6. Progress(f)' /\ PendingBytes(f)'
  BY <1>1, <1>2 DEF Progress, PendingBytes, BlockInv
<1>7. ASSUME NEW v \in DOMAIN volume'
      PROVE  Used(v)' /\ \A p \in 1..Len(volume'[v]) : Covered(v, p)'
  <2>1. CASE v \in DOMAIN volume
    <3>1. volume'[v] = volume[v]
      BY <1>3, <2>1
    <3>2. Used(v) /\ \A p \in 1..Len(volume[v]) : Covered(v, p)
      BY <1>2, <2>1 DEF BlockInv
    <3>3. Used(v)'
      BY <1>1, <1>2, <3>1, <3>2 DEF Used
    <3>4. ASSUME NEW p \in 1..Len(volume[v]) PROVE Covered(v, p)'
      <4>1. CASE \E g \in Files : Pends(g, v, p)
        BY <1>1, <1>2, <4>1 DEF Covered, Pends
      <4>2. CASE \E g \in Files : \E k \in DOMAIN blocks[g] : Covers(<<g, k>>, v, p)
        BY <1>1, <4>2 DEF Covered, Covers
      <4>3. QED
        BY <3>2, <4>1, <4>2 DEF Covered
    <3>5. QED
      BY <3>1, <3>3, <3>4
  <2>2. CASE v \notin DOMAIN volume
    <3>1. volume'[v] = <<>> /\ stream'[f] = v
      BY <1>1, <2>2
    <3>2. QED
      BY <1>2, <3>1 DEF Used
  <2>3. QED
    BY <2>1, <2>2
<1>8. QED
  BY <1>4, <1>5, <1>6, <1>7 DEF BlockInv

LEMMA WriteToVolumeBlocks ==
    ASSUME KnownInv, IndInv', NEW f \in Files, NEW n \in Nat, WriteToVolume(f, n)
    PROVE  BlockInv'
<1>0. PICK v : v = stream[f]
  OBVIOUS
<1>1. /\ pc[f] = "write" /\ pc' = [pc EXCEPT ![f] = "record"]
      /\ n <= bytesToWrite[f] /\ (n = 0 => bytesToWrite[f] = 0)
      /\ volume' = [volume EXCEPT ![v] = @ \o Chunk(f, written[f], n)]
      /\ written' = [written EXCEPT ![f] = @ + n]
      /\ size' = [size EXCEPT ![f] = @ - n]
      /\ nBytesWritten' = [nBytesWritten EXCEPT ![f] = n]
      /\ UNCHANGED <<blocks, stream, bytesToWrite, offset>>
  BY <1>0 DEF WriteToVolume
<1>2. /\ IndInv /\ TypeOK /\ BlockInv
      /\ Progress(f) /\ PendingBytes(f)
      /\ v \in DOMAIN openVolumes /\ openVolumes[v].ownedWriter = f /\ v \in DOMAIN volume
  BY <1>0, <1>1 DEF KnownInv, BlockInv, IndInv, TypeOK, ExclusiveOwnership, Writing
<1>3. /\ n > 0 /\ written[f] \in Nat /\ offset[f] \in Nat
      /\ offset[f] = Len(volume[v]) /\ Len(volume[v]) \in Nat
  <2>1. bytesToWrite[f] > 0 /\ offset[f] = Len(volume[v])
    BY <1>0, <1>1, <1>2 DEF Progress, PendingBytes
  <2>2. written[f] \in Nat /\ offset[f] \in Nat
    BY <1>2 DEF TypeOK
  <2>3. QED
    BY <2>1, <2>2, <1>1
<1>4. /\ Len(volume'[v]) = Len(volume[v]) + n
      /\ \A p \in 1..Len(volume[v]) : volume'[v][p] = volume[v][p]
      /\ \A j \in 1..n : volume'[v][Len(volume[v]) + j] = <<f, written[f] + j>>
  <2>1. volume'[v] = volume[v] \o Chunk(f, written[f], n) /\ volume[v] \in Seq(Bytes)
    BY <1>1, <1>2 DEF TypeOK
  <2>2. Chunk(f, written[f], n) \in Seq(Bytes) /\ Len(Chunk(f, written[f], n)) = n
    BY <1>3, ChunkType
  <2>3. \A j \in 1..n : Chunk(f, written[f], n)[j] = <<f, written[f] + j>>
    BY DEF Chunk
  <2> DEFINE c == Chunk(f, written[f], n)
  <2> HIDE DEF c
  <2>4. c \in Seq(Bytes) /\ Len(c) = n
    BY <2>2 DEF c
  <2>5. /\ Len(volume[v] \o c) = Len(volume[v]) + n
        /\ \A p \in 1..Len(volume[v]) : (volume[v] \o c)[p] = volume[v][p]
        /\ \A j \in 1..n : (volume[v] \o c)[Len(volume[v]) + j] = c[j]
    <3>1. PICK s : s = volume[v] /\ s \in Seq(Bytes)
      BY <2>1
    <3>2. /\ Len(s \o c) = Len(s) + Len(c)
          /\ \A p \in 1..Len(s) : (s \o c)[p] = s[p]
          /\ \A j \in 1..Len(c) : (s \o c)[Len(s) + j] = c[j]
      BY <3>1, <2>4
    <3>3. QED
      BY <3>1, <3>2, <2>4
  <2>6. volume'[v] = volume[v] \o c /\ \A j \in 1..n : c[j] = <<f, written[f] + j>>
    BY <2>1, <2>3 DEF c
  <2>7. QED
    BY <2>5, <2>6
<1>5. DOMAIN volume' = DOMAIN volume /\ \A u \in DOMAIN volume \ {v} : volume'[u] = volume[u]
  BY <1>1, <1>2 DEF TypeOK
<1>6. Grows
  <2>1. \A u \in DOMAIN volume : Len(volume[u]) \in Nat
    BY <1>2 DEF TypeOK
  <2>2. QED
    BY <1>3, <1>4, <1>5, <2>1 DEF Grows
<1>7. /\ pc'[f] = "record" /\ written'[f] = written[f] + n /\ nBytesWritten'[f] = n
      /\ \A g \in Files \ {f} :
            /\ pc'[g] = pc[g] /\ written'[g] = written[g] /\ size'[g] = size[g]
            /\ nBytesWritten'[g] = nBytesWritten[g]
  BY <1>1, <1>2 DEF TypeOK
<1>8. ASSUME NEW g \in Files \ {f}
      PROVE  Progress(g)' /\ PendingBytes(g)' /\ Reproduces(g)' /\ Sorted(g)'
  <2>1. Writing(g) => stream[g] \in DOMAIN volume \ {v}
    BY <1>2 DEF IndInv, TypeOK, ExclusiveOwnership
  <2>2. QED
    BY <1>1, <1>5, <1>6, <1>7, <2>1, OthersStay
<1>9. Reproduces(f)' /\ Sorted(f)'
  <2>1. Recorded(f)' = Recorded(f)
    BY <1>1, <1>3, <1>7 DEF Recorded
  <2>2. QED
    BY <1>1, <1>6, <2>1, FileStays
<1>10. Progress(f)' /\ PendingBytes(f)'
  <2>1. stream'[f] = v /\ offset'[f] = Len(volume[v])
    BY <1>0, <1>1, <1>3
  <2>2. \A j \in 1..n : written'[f] - n + j = written[f] + j
    BY <1>3, <1>7
  <2>3. /\ n <= written[f] + n
        /\ Len(volume[v]) + n = Len(volume'[v])
    BY <1>3, <1>4
  <2>4. \A j \in 1..n :
            volume'[v][Len(volume[v]) + j] = <<f, written'[f] - n + j>>
    BY <1>4, <2>2
  <2>5. PendingBytes(f)'
    BY <1>7, <2>1, <2>3, <2>4 DEF PendingBytes
  <2>6. QED
    BY <1>3, <1>7, <2>5 DEF Progress
<1>11. ASSUME NEW u \in DOMAIN volume'
       PROVE  Used(u)' /\ \A p \in 1..Len(volume'[u]) : Covered(u, p)'
  <2>1. Used(u) /\ \A p \in 1..Len(volume[u]) : Covered(u, p)
    BY <1>2, <1>5 DEF BlockInv
  <2>2. Used(u)'
    <3>1. CASE u = v
      <4>1. Len(volume'[u]) > 0
        BY <1>3, <1>4, <3>1
      <4>2. QED
        BY <4>1 DEF Used
    <3>2. CASE u # v
      BY <1>0, <1>1, <1>5, <1>7, <2>1, <3>2 DEF Used
    <3>3. QED
      BY <3>1, <3>2
  <2>3. ASSUME NEW p \in 1..Len(volume'[u]) PROVE Covered(u, p)'
    <3>1. CASE u = v /\ p > Len(volume[v])
      <4>1. Pends(f, u, p)'
        BY <1>0, <1>1, <1>3, <1>7, <3>1 DEF Pends
      <4>2. QED
        BY <4>1 DEF Covered
    <3>2. CASE ~(u = v /\ p > Len(volume[v]))
      <4>1. p \in 1..Len(volume[u])
        BY <1>3, <1>4, <1>5, <3>2
      <4>2. CASE \E g \in Files : Pends(g, u, p)
        BY <1>1, <1>7, <4>2 DEF Covered, Pends
      <4>3. CASE \E g \in Files : \E k \in DOMAIN blocks[g] : Covers(<<g, k>>, u, p)
        BY <1>1, <4>3 DEF Covered, Covers
      <4>4. QED
        BY <2>1, <4>1, <4>2, <4>3 DEF Covered
    <3>3. QED
      BY <3>1, <3>2
  <2>4. QED
    BY <2>2, <2>3
<1>12. QED
  BY <1>8, <1>9, <1>10, <1>11 DEF BlockInv

-----------------------------------------------------------------------------
\* Where a block starts in its file is a number.
LEMMA StartOfType ==
    ASSUME TypeOK, NEW b \in Block, b.size > 0, InVolume(b)
    PROVE  StartOf(b) \in Int
<1>1. PICK v \in DOMAIN volume : v = b.volumeNumber
  BY DEF InVolume
<1>2. b.offset + 1 \in 1..Len(volume[v]) /\ volume[v] \in Seq(Bytes)
  <2>1. volume[v] \in Seq(Bytes) /\ Len(volume[v]) \in Nat
    BY DEF TypeOK
  <2>2. b.offset + b.size <= Len(volume[v])
    BY <1>1 DEF InVolume
  <2>3. b.offset \in Nat /\ b.size \in Nat
    BY DEF Block
  <2>4. QED
    BY <2>1, <2>2, <2>3
<1>3. ByteAt(b, 1) \in Bytes
  BY <1>1, <1>2 DEF ByteAt
<1>4. ByteAt(b, 1)[2] \in Nat
  BY <1>3 DEF Bytes
<1>5. QED
  BY <1>4 DEF StartOf

\* A block with the next bytes of f makes the blocks read as more of f, and what
\* was in a block still is.
LEMMA AddBlockReads ==
    ASSUME TypeOK, NEW f \in Files, NEW bs \in Seq(Block), NEW b \in Block, NEW n \in Nat,
           ReadAs(bs, f, n), InOrder(bs), b.size > 0, InVolume(b),
           \A j \in 1..b.size : ByteAt(b, j) = <<f, n + j>>
    PROVE  LET r == AddBlock(bs, b)
           IN  /\ ReadAs(r, f, n + b.size) /\ InOrder(r)
               /\ \A c \in {b} \cup {bs[k] : k \in DOMAIN bs} : \E l \in DOMAIN r :
                    /\ r[l].volumeNumber = c.volumeNumber
                    /\ r[l].offset <= c.offset
                    /\ c.offset + c.size <= r[l].offset + r[l].size
<1>1. PICK m \in Nat : m = Len(bs) /\ DOMAIN bs = 1..m
  OBVIOUS
<1>2. b.volumeNumber \in Nat /\ b.offset \in Nat /\ b.size \in Nat
  BY DEF Block
<1>3. StartOf(b) = n
  BY <1>2 DEF StartOf
<1>4. \A k \in 1..m :
        /\ bs[k].volumeNumber \in Nat /\ bs[k].offset \in Nat /\ bs[k].size \in Nat
        /\ bs[k].size > 0 /\ InVolume(bs[k])
        /\ \A j \in 1..bs[k].size : ByteAt(bs[k], j) = <<f, StartOf(bs[k]) + j>>
  <2>1. \A k \in 1..m : bs[k] \in Block
    BY <1>1
  <2>2. \A k \in 1..m : bs[k].size > 0 /\ InVolume(bs[k])
    BY <1>1 DEF ReadAs
  <2>3. \A k \in 1..m : \A j \in 1..bs[k].size : ByteAt(bs[k], j) = <<f, StartOf(bs[k]) + j>>
    BY <1>1 DEF ReadAs
  <2>4. QED
    BY <2>1, <2>2, <2>3 DEF Block
<1>5. \A k \in 1..m : StartOf(bs[k]) \in Int
  BY <1>1, <1>4, StartOfType
<1>6. /\ \A k \in 1..m - 1 : StartOf(bs[k + 1]) = StartOf(bs[k]) + bs[k].size
      /\ m = 0 => n = 0
      /\ m > 0 => StartOf(bs[1]) = 0 /\ StartOf(bs[m]) + bs[m].size = n
      /\ \A k, l \in 1..m : k < l => StartOf(bs[k]) + bs[k].size <= StartOf(bs[l])
  <2>1. \A k \in 1..m - 1 : StartOf(bs[k + 1]) = StartOf(bs[k]) + bs[k].size
    BY <1>1 DEF ReadAs
  <2>2. m = 0 <=> bs = <<>>
    BY <1>1
  <2>3. IF bs = <<>> THEN n = 0
        ELSE StartOf(bs[1]) = 0 /\ StartOf(bs[m]) + bs[m].size = n
    BY <1>1 DEF ReadAs
  <2>4. \A k, l \in 1..m : k < l => StartOf(bs[k]) + bs[k].size <= StartOf(bs[l])
    BY <1>1 DEF InOrder
  <2>5. QED
    BY <2>1, <2>2, <2>3, <2>4
<1>7. PICK r : r = AddBlock(bs, b)
  OBVIOUS
<1>8. r \in Seq(Block)
  BY <1>7, AddBlockType
<1>9. CASE /\ m > 0 /\ Contiguous(bs[m], b) /\ Len(r) = m
           /\ \A k \in 1..m - 1 : r[k] = bs[k]
           /\ r[m].volumeNumber = bs[m].volumeNumber
           /\ r[m].offset = bs[m].offset
           /\ r[m].size = bs[m].size + b.size
  <2>1. m \in 1..m /\ DOMAIN r = 1..m /\ r # <<>>
    BY <1>8, <1>9
  <2>2. bs[m].volumeNumber = b.volumeNumber /\ bs[m].offset + bs[m].size = b.offset
    BY <1>9 DEF Contiguous
  <2>3. StartOf(r[m]) = StartOf(bs[m])
    BY <1>9 DEF StartOf, ByteAt
  <2>4. InVolume(r[m]) /\ r[m].size > 0
    BY <1>2, <1>4, <1>9, <2>1, <2>2 DEF InVolume
  <2>5. ASSUME NEW j \in 1..r[m].size
        PROVE  ByteAt(r[m], j) = <<f, StartOf(r[m]) + j>>
    <3>1. CASE j <= bs[m].size
      <4>1. ByteAt(r[m], j) = ByteAt(bs[m], j)
        BY <1>9 DEF ByteAt
      <4>2. j \in 1..bs[m].size
        BY <1>2, <1>4, <1>9, <2>1, <3>1
      <4>3. QED
        BY <1>4, <2>1, <2>3, <4>1, <4>2
    <3>2. CASE j > bs[m].size
      <4>0. PICK held \in Nat, at \in Nat, size_ \in Nat :
                /\ held = bs[m].size /\ at = bs[m].offset /\ size_ = b.size
                /\ r[m].offset = at /\ r[m].size = held + size_
                /\ b.offset = at + held
        BY <1>2, <1>4, <1>9, <2>1, <2>2
      <4>a. j \in 1..held + size_ /\ j > held
        BY <3>2, <4>0
      <4>1. PICK i \in 1..size_ : j = held + i
        BY <4>a
      <4>2. i \in 1..b.size /\ r[m].offset + j = b.offset + i
        BY <4>0, <4>1
      <4>3. ByteAt(r[m], j) = ByteAt(b, i)
        BY <1>9, <2>2, <4>2 DEF ByteAt
      <4>4. n + i = StartOf(bs[m]) + j
        <5>1. PICK start \in Int : start = StartOf(bs[m])
          BY <1>5, <2>1
        <5>2. start + held = n
          BY <1>6, <1>9, <4>0, <5>1
        <5>3. QED
          BY <4>1, <5>1, <5>2
      <4>5. QED
        BY <2>3, <4>2, <4>3, <4>4
    <3>3. QED
      BY <1>2, <1>4, <1>9, <2>1, <3>1, <3>2
  <2>6. StartOf(r[m]) + r[m].size = n + b.size
    BY <1>2, <1>4, <1>5, <1>6, <1>9, <2>1, <2>3
  <2>7. \A k \in 1..m : k # m => r[k] = bs[k]
    BY <1>9
  <2>8. StartOf(r[1]) = 0
    BY <1>6, <1>9, <2>1, <2>3, <2>7
  <2>9. ASSUME NEW k \in 1..m - 1
        PROVE  StartOf(r[k + 1]) = StartOf(r[k]) + r[k].size
    BY <1>6, <2>3, <2>7
  <2>10. ReadAs(r, f, n + b.size)
    <3>1. \A k \in 1..m : r[k].size > 0 /\ InVolume(r[k])
      BY <1>4, <2>4, <2>7
    <3>2. \A k \in 1..m : \A j \in 1..r[k].size :
            ByteAt(r[k], j) = <<f, StartOf(r[k]) + j>>
      BY <1>4, <2>5, <2>7
    <3>3. QED
      BY <1>9, <2>1, <2>6, <2>8, <2>9, <3>1, <3>2 DEF ReadAs
  <2>11. InOrder(r)
    BY <1>6, <2>1, <2>3, <2>7 DEF InOrder
  <2>12. ASSUME NEW c \in {b} \cup {bs[k] : k \in DOMAIN bs}
         PROVE  \E l \in DOMAIN r :
                    /\ r[l].volumeNumber = c.volumeNumber
                    /\ r[l].offset <= c.offset
                    /\ c.offset + c.size <= r[l].offset + r[l].size
    <3>0. bs[m].size \in Nat /\ bs[m].offset \in Nat
      BY <1>4, <2>1
    <3>1. CASE c = b
      <4>1. /\ r[m].volumeNumber = c.volumeNumber
            /\ r[m].offset <= c.offset
            /\ c.offset + c.size <= r[m].offset + r[m].size
        BY <1>2, <1>9, <2>2, <3>0, <3>1
      <4>2. QED
        BY <2>1, <4>1
    <3>2. CASE \E k \in 1..m : c = bs[k]
      <4>1. PICK k \in 1..m : c = bs[k]
        BY <3>2
      <4>2. c.size \in Nat /\ c.offset \in Nat
        BY <1>4, <4>1
      <4>3. /\ r[k].volumeNumber = c.volumeNumber
            /\ r[k].offset <= c.offset
            /\ c.offset + c.size <= r[k].offset + r[k].size
        <5>1. CASE k = m
          BY <1>2, <1>9, <3>0, <4>1, <5>1
        <5>2. CASE k # m
          BY <2>7, <4>1, <4>2, <5>2
        <5>3. QED
          BY <5>1, <5>2
      <4>4. QED
        BY <2>1, <4>3
    <3>3. QED
      BY <1>1, <3>1, <3>2
  <2>13. QED
    BY <1>7, <2>10, <2>11, <2>12
<1>10. CASE /\ Len(r) = m + 1
            /\ \A k \in 1..m : r[k] = bs[k]
            /\ r[m + 1] = b
  <2>1. DOMAIN r = 1..m + 1 /\ r # <<>>
    BY <1>8, <1>10
  <2>2. \A k \in 1..m + 1 : r[k] = (IF k = m + 1 THEN b ELSE bs[k])
    BY <1>10
  <2>3. ReadAs(r, f, n + b.size)
    <3>1. \A k \in 1..m + 1 : r[k].size > 0 /\ InVolume(r[k])
      BY <1>4, <2>2
    <3>2. \A k \in 1..m + 1 : \A j \in 1..r[k].size :
            ByteAt(r[k], j) = <<f, StartOf(r[k]) + j>>
      BY <1>3, <1>4, <2>2
    <3>3. \A k \in 1..m : StartOf(r[k + 1]) = StartOf(r[k]) + r[k].size
      BY <1>3, <1>6, <1>10
    <3>4. StartOf(r[1]) = 0 /\ StartOf(r[m + 1]) + r[m + 1].size = n + b.size
      BY <1>3, <1>6, <1>10
    <3>5. Len(r) - 1 = m
      BY <1>10
    <3>6. QED
      BY <1>10, <2>1, <3>1, <3>2, <3>3, <3>4, <3>5 DEF ReadAs
  <2>4. InOrder(r)
    <3>1. ASSUME NEW k \in 1..m PROVE StartOf(bs[k]) + bs[k].size <= n
      <4>1. m \in 1..m /\ m > 0
        OBVIOUS
      <4>2. StartOf(bs[m]) + bs[m].size = n
        BY <1>6, <4>1
      <4>3. StartOf(bs[m]) \in Int /\ bs[m].size \in Nat
        BY <1>4, <1>5, <4>1
      <4>4. k < m => StartOf(bs[k]) + bs[k].size <= StartOf(bs[m])
        BY <1>6, <4>1
      <4>5. StartOf(bs[k]) \in Int /\ bs[k].size \in Nat
        BY <1>4, <1>5
      <4>6. CASE k = m
        BY <4>2, <4>6
      <4>7. CASE k < m
        BY <4>2, <4>3, <4>4, <4>5, <4>7
      <4>8. QED
        BY <4>6, <4>7
    <3>2. QED
      BY <1>3, <1>6, <2>1, <2>2, <3>1 DEF InOrder
  <2>5. ASSUME NEW c \in {b} \cup {bs[k] : k \in DOMAIN bs}
        PROVE  \E l \in DOMAIN r :
                    /\ r[l].volumeNumber = c.volumeNumber
                    /\ r[l].offset <= c.offset
                    /\ c.offset + c.size <= r[l].offset + r[l].size
    <3>1. PICK l \in 1..m + 1 : r[l] = c
      BY <1>1, <1>10
    <3>2. c.offset \in Nat /\ c.size \in Nat
      BY <1>2, <1>4, <1>1
    <3>3. QED
      BY <2>1, <3>1, <3>2
  <2>6. QED
    BY <1>7, <2>3, <2>4, <2>5
<1>11. QED
  <2>1. \/ /\ m > 0 /\ Contiguous(bs[m], b) /\ Len(r) = m
           /\ \A k \in 1..m - 1 : r[k] = bs[k]
           /\ r[m].volumeNumber = bs[m].volumeNumber
           /\ r[m].offset = bs[m].offset
           /\ r[m].size = bs[m].size + b.size
        \/ /\ Len(r) = m + 1
           /\ \A k \in 1..m : r[k] = bs[k]
           /\ r[m + 1] = b
    BY <1>1, <1>7, AddBlockCases
  <2>2. QED
    BY <1>9, <1>10, <2>1

\* What BytesWereWrittenToVolume does to the blocks.
LEMMA BytesWereWrittenAdds ==
    ASSUME IndInv, NEW f \in Files, BytesWereWrittenToVolume(f)
    PROVE  /\ pc[f] = "record"
           /\ blocks'[f] = AddBlock(blocks[f],
                [volumeNumber |-> stream[f], offset |-> offset[f], size |-> nBytesWritten[f]])
           /\ pc'[f] = (IF size[f] = 0 THEN "open" ELSE "find")
           /\ \A g \in Files \ {f} : pc'[g] = pc[g] /\ blocks'[g] = blocks[g]
           /\ UNCHANGED <<volume, written, size, stream, bytesToWrite, offset, nBytesWritten>>
<1>1. pc[f] = "record" /\ Writing(f)
  BY DEF BytesWereWrittenToVolume, Writing
<1>2. OwnedBy(f) = {stream[f]}
  BY <1>1, OwnedByWriter
<1>3. TypeOK
  BY DEF IndInv
<1>4. /\ blocks' = [blocks EXCEPT ![f] = AddBlock(@,
            [volumeNumber |-> stream[f], offset |-> offset[f], size |-> nBytesWritten[f]])]
      /\ pc' = [pc EXCEPT ![f] = IF size[f] = 0 THEN "open" ELSE "find"]
      /\ UNCHANGED <<volume, written, size, stream, bytesToWrite, offset, nBytesWritten>>
  BY <1>2 DEF BytesWereWrittenToVolume, locals
<1>5. QED
  BY <1>1, <1>3, <1>4 DEF TypeOK

\* What BytesWereWrittenToVolume(f) adds to the index: the next bytes of f.
NewBlock(f) == [volumeNumber |-> stream[f], offset |-> offset[f], size |-> nBytesWritten[f]]

LEMMA BytesWereWrittenBlock ==
    ASSUME KnownInv, NEW f \in Files, pc[f] = "record"
    PROVE  \E n \in Nat :
            /\ n = Recorded(f) /\ n + NewBlock(f).size = written[f]
            /\ NewBlock(f) \in Block /\ NewBlock(f).size > 0 /\ InVolume(NewBlock(f))
            /\ \A j \in 1..NewBlock(f).size : ByteAt(NewBlock(f), j) = <<f, n + j>>
            /\ NewBlock(f).offset + NewBlock(f).size = Len(volume[stream[f]])
            /\ ReadAs(blocks[f], f, n) /\ InOrder(blocks[f]) /\ blocks[f] \in Seq(Block)
<1>0. PICK b : b = NewBlock(f)
  OBVIOUS
<1>1. IndInv /\ TypeOK /\ BlockInv
  BY DEF KnownInv, IndInv
<1>2. PICK n \in Nat : n = written[f] - nBytesWritten[f]
  BY <1>1 DEF TypeOK, BlockInv, PendingBytes
<1>3. /\ stream[f] \in Nat /\ offset[f] \in Nat /\ nBytesWritten[f] \in Nat
      /\ written[f] \in Nat
  BY <1>1 DEF TypeOK
<1>4. b \in Block
  BY <1>0, <1>3 DEF Block, NewBlock
<1>5. /\ nBytesWritten[f] > 0
      /\ offset[f] + nBytesWritten[f] = Len(volume[stream[f]])
      /\ \A j \in 1..nBytesWritten[f] :
            volume[stream[f]][offset[f] + j] = <<f, written[f] - nBytesWritten[f] + j>>
  BY <1>1 DEF BlockInv, Progress, PendingBytes
<1>6. stream[f] \in DOMAIN volume
  BY <1>1 DEF IndInv, TypeOK, ExclusiveOwnership, Writing
<1>7. InVolume(b)
  BY <1>0, <1>3, <1>5, <1>6 DEF InVolume, NewBlock
<1>8. \A j \in 1..b.size : ByteAt(b, j) = <<f, n + j>>
  BY <1>0, <1>2, <1>5 DEF ByteAt, NewBlock
<1>9. n + b.size = written[f]
  BY <1>0, <1>2, <1>3 DEF NewBlock
<1>10. n = Recorded(f)
  BY <1>2 DEF Recorded
<1>11. ReadAs(blocks[f], f, n) /\ InOrder(blocks[f]) /\ blocks[f] \in Seq(Block)
  BY <1>1, <1>10 DEF BlockInv, Reproduces, Sorted, TypeOK
<1>12. b.size > 0 /\ b.offset + b.size = Len(volume[stream[f]])
  BY <1>0, <1>5 DEF NewBlock
<1>13. QED
  BY <1>0, <1>4, <1>7, <1>8, <1>9, <1>10, <1>11, <1>12

LEMMA BytesWereWrittenBlocks ==
    ASSUME KnownInv, IndInv', NEW f \in Files, BytesWereWrittenToVolume(f)
    PROVE  BlockInv'
<1>0. PICK b : b = NewBlock(f)
  OBVIOUS
<1>1. IndInv /\ TypeOK /\ BlockInv
  BY DEF KnownInv, IndInv
<1>2. /\ pc[f] = "record"
      /\ blocks'[f] = AddBlock(blocks[f], b)
      /\ pc'[f] = (IF size[f] = 0 THEN "open" ELSE "find")
      /\ \A g \in Files \ {f} : pc'[g] = pc[g] /\ blocks'[g] = blocks[g]
      /\ UNCHANGED <<volume, written, size, stream, bytesToWrite, offset, nBytesWritten>>
  BY <1>0, <1>1, BytesWereWrittenAdds DEF NewBlock
<1>3. Grows
  BY <1>1, <1>2 DEF Grows, TypeOK
<1>4. ASSUME NEW g \in Files \ {f}
      PROVE  Progress(g)' /\ PendingBytes(g)' /\ Reproduces(g)' /\ Sorted(g)'
  BY <1>2, <1>3, OthersStay
<1>5. Progress(f)' /\ PendingBytes(f)'
  <2>1. size[f] \in Nat
    BY <1>1 DEF TypeOK
  <2>2. QED
    BY <1>2, <2>1 DEF Progress, PendingBytes
<1>6. b.volumeNumber = stream[f] /\ b.offset = offset[f] /\ b.size = nBytesWritten[f]
  BY <1>0 DEF NewBlock
<1>7. PICK n \in Nat :
        /\ n = Recorded(f) /\ n + b.size = written[f]
        /\ b \in Block /\ b.size > 0 /\ InVolume(b)
        /\ \A j \in 1..b.size : ByteAt(b, j) = <<f, n + j>>
        /\ b.offset + b.size = Len(volume[stream[f]])
        /\ ReadAs(blocks[f], f, n) /\ InOrder(blocks[f]) /\ blocks[f] \in Seq(Block)
  BY <1>0, <1>2, BytesWereWrittenBlock
<1>8. ReadAs(blocks[f], f, n) /\ InOrder(blocks[f]) /\ blocks[f] \in Seq(Block)
  BY <1>7
<1>9. PICK r : r = AddBlock(blocks[f], b)
  OBVIOUS
<1>10. /\ ReadAs(r, f, n + b.size) /\ InOrder(r)
       /\ \A c \in {b} \cup {blocks[f][k] : k \in DOMAIN blocks[f]} : \E l \in DOMAIN r :
            /\ r[l].volumeNumber = c.volumeNumber
            /\ r[l].offset <= c.offset
            /\ c.offset + c.size <= r[l].offset + r[l].size
  BY <1>1, <1>7, <1>8, <1>9, AddBlockReads
<1>11. blocks'[f] = r /\ r \in Seq(Block)
  BY <1>2, <1>7, <1>8, <1>9, AddBlockType
<1>12. Reproduces(f)' /\ Sorted(f)'
  <2>1. Recorded(f)' = n + b.size
    BY <1>2, <1>7 DEF Recorded
  <2>2. ReadAs(r, f, n + b.size)'
    BY <1>2, <1>10 DEF ReadAs, InVolume, StartOf, ByteAt
  <2>3. InOrder(r)'
    BY <1>2, <1>10 DEF InOrder, StartOf, ByteAt
  <2>4. QED
    BY <1>11, <2>1, <2>2, <2>3 DEF Reproduces, Sorted
<1>13. ASSUME NEW v \in DOMAIN volume' PROVE Used(v)'
  <2>1. Used(v)
    BY <1>1, <1>2, <1>13 DEF BlockInv
  <2>2. QED
    BY <1>2, <2>1 DEF Used
<1>14. ASSUME NEW v \in DOMAIN volume, NEW p \in 1..Len(volume[v])
       PROVE  Covered(v, p)'
  <2>0. p \in Nat /\ Covered(v, p)
    BY <1>1 DEF BlockInv
  <2>1. ASSUME NEW c \in {b} \cup {blocks[f][k] : k \in DOMAIN blocks[f]},
               c.volumeNumber = v, c.offset < p, p <= c.offset + c.size
        PROVE  Covered(v, p)'
    <3>1. PICK l \in DOMAIN r :
                /\ r[l].volumeNumber = c.volumeNumber
                /\ r[l].offset <= c.offset
                /\ c.offset + c.size <= r[l].offset + r[l].size
      BY <1>10
    <3>2. /\ r[l].offset \in Nat /\ r[l].size \in Nat
          /\ c.offset \in Nat /\ c.size \in Nat
      <4>1. r[l] \in Block /\ c \in Block
        BY <1>7, <1>8, <1>11
      <4>2. QED
        BY <4>1 DEF Block
    <3>3. r[l].volumeNumber = v /\ r[l].offset < p /\ p <= r[l].offset + r[l].size
      BY <2>0, <2>1, <3>1, <3>2
    <3>4. Covers(<<f, l>>, v, p)'
      BY <1>11, <3>3 DEF Covers
    <3>5. QED
      BY <1>11, <3>4 DEF Covered
  <2>2. CASE \E g \in Files : Pends(g, v, p)
    <3>1. PICK g \in Files : Pends(g, v, p)
      BY <2>2
    <3>2. CASE g = f
      <4>1. b.volumeNumber = v /\ b.offset < p /\ p <= b.offset + b.size
        BY <1>6, <1>7, <3>1, <3>2 DEF Pends
      <4>2. QED
        BY <2>1, <4>1
    <3>3. CASE g # f
      BY <1>2, <3>1, <3>3 DEF Covered, Pends
    <3>4. QED
      BY <3>2, <3>3
  <2>3. CASE \E g \in Files : \E k \in DOMAIN blocks[g] : Covers(<<g, k>>, v, p)
    <3>0. PICK g \in Files : \E k \in DOMAIN blocks[g] : Covers(<<g, k>>, v, p)
      BY <2>3
    <3>1. PICK k \in DOMAIN blocks[g] : Covers(<<g, k>>, v, p)
      BY <3>0
    <3>2. CASE g = f
      BY <2>1, <3>1, <3>2 DEF Covers
    <3>3. CASE g # f
      BY <1>2, <3>1, <3>3 DEF Covered, Covers
    <3>4. QED
      BY <3>2, <3>3
  <2>4. QED
    BY <2>0, <2>2, <2>3 DEF Covered
<1>15. QED
  BY <1>2, <1>4, <1>5, <1>12, <1>13, <1>14 DEF BlockInv

-----------------------------------------------------------------------------
LEMMA InitBlocks == Init => BlockInv
BY DEF Init, BlockInv, Progress, PendingBytes, Reproduces, ReadAs, Sorted, InOrder, Recorded

LEMMA NextBlocks ==
    SmallVolumes /\ IndInv /\ IndInv' /\ LeftSizeExact /\ BlockInv /\ [Next]_vars => BlockInv'
<1> SUFFICES ASSUME KnownInv, IndInv', [Next]_vars PROVE BlockInv'
  BY DEF KnownInv
<1>1. CASE \E f \in Files : Step(f)
  <2>1. PICK f \in Files : Step(f)
    BY <1>1
  <2>2. 0..MaxCall \subseteq Nat
    OBVIOUS
  <2>3. QED
    BY <2>1, <2>2, LocalStepBlocks, FindStreamBlocks, WriteToVolumeBlocks,
       BytesWereWrittenBlocks DEF Step
<1>2. CASE WriteProtect \/ UNCHANGED vars
  <2>1. UNCHANGED <<volume, blocks, written, size, pc, stream, bytesToWrite, offset,
                    nBytesWritten>>
    BY <1>2 DEF WriteProtect, vars, locals
  <2>2. Grows
    BY <2>1 DEF Grows, KnownInv, IndInv, TypeOK
  <2>3. \A f \in Files : Progress(f)' /\ PendingBytes(f)' /\ Reproduces(f)' /\ Sorted(f)'
    BY <2>1, <2>2, OthersStay
  <2>4. \A v \in DOMAIN volume' : Used(v)' /\ \A p \in 1..Len(volume'[v]) : Covered(v, p)'
    BY <2>1, BytesStayCovered
  <2>5. QED
    BY <2>3, <2>4 DEF BlockInv
<1>3. QED
  BY <1>1, <1>2 DEF Next, Finished

\* While every volume is smaller than 2^32 bytes the blocks, what is pending and
\* the volumes fit together.
THEOREM BlockInvInvariant == Spec => [](SmallVolumes => BlockInv)
<1>1. Init => (SmallVolumes => BlockInv)
  BY InitBlocks
<1>2. IndInv /\ IndInv' /\ LeftSizeExact /\ (SmallVolumes => BlockInv) /\ [Next]_vars
      => (SmallVolumes => BlockInv)'
  BY NextBlocks DEF SmallVolumes
<1>3. QED
  BY <1>1, <1>2, IndInvInvariant, VolumesAreAccountedFor, PTL DEF Spec

\* The blocks in the index are the file, whatever the streams' interleaving, the
\* number of files and threads and the sizes of the calls.
THEOREM BlocksAreTheFiles == Spec => [](SmallVolumes => BlocksReproduceFile)
<1>1. BlockInv => BlocksReproduceFile
  BY DEF BlockInv, Reproduces, ReadAs, BlocksReproduceFile
<1>2. QED
  BY <1>1, BlockInvInvariant, PTL

-----------------------------------------------------------------------------
\* No two blocks have a byte in common: a byte tells the file it is of and where
\* it is in it.
LEMMA OneBlockCovers ==
    ASSUME IndInv, BlockInv, NEW v, NEW p \in Nat,
           NEW f \in Files, NEW k \in DOMAIN blocks[f], Covers(<<f, k>>, v, p),
           NEW g \in Files, NEW l \in DOMAIN blocks[g], Covers(<<g, l>>, v, p)
    PROVE  f = g /\ k = l
<1>1. TypeOK /\ blocks[f] \in Seq(Block) /\ blocks[g] \in Seq(Block)
  BY DEF IndInv, TypeOK
<1>2. PICK b \in Block, c \in Block : b = blocks[f][k] /\ c = blocks[g][l]
  BY <1>1
<1>3. /\ b.volumeNumber = v /\ b.offset < p /\ p <= b.offset + b.size
      /\ c.volumeNumber = v /\ c.offset < p /\ p <= c.offset + c.size
  BY <1>2 DEF Covers
<1>4. /\ b.offset \in Nat /\ b.size \in Nat /\ c.offset \in Nat /\ c.size \in Nat
      /\ k \in Nat /\ l \in Nat
  <2>1. k \in Nat /\ l \in Nat
    BY <1>1
  <2>2. QED
    BY <2>1 DEF Block
<1>5. PICK j \in 1..b.size : p = b.offset + j
  <2>1. p - b.offset \in 1..b.size /\ p = b.offset + (p - b.offset)
    BY <1>3, <1>4
  <2>2. QED
    BY <2>1
<1>6. PICK i \in 1..c.size : p = c.offset + i
  <2>1. p - c.offset \in 1..c.size /\ p = c.offset + (p - c.offset)
    BY <1>3, <1>4
  <2>2. QED
    BY <2>1
<1>7. /\ b.size > 0 /\ InVolume(b) /\ ByteAt(b, j) = <<f, StartOf(b) + j>>
      /\ c.size > 0 /\ InVolume(c) /\ ByteAt(c, i) = <<g, StartOf(c) + i>>
  BY <1>2 DEF BlockInv, Reproduces, ReadAs
<1>8. ByteAt(b, j) = ByteAt(c, i)
  BY <1>3, <1>5, <1>6 DEF ByteAt
<1>9. f = g /\ StartOf(b) + j = StartOf(c) + i
  BY <1>7, <1>8
<1>10. StartOf(b) \in Int /\ StartOf(c) \in Int
  BY <1>1, <1>7, StartOfType
<1>11. ASSUME k < l PROVE FALSE
  <2>1. StartOf(b) + b.size <= StartOf(c)
    BY <1>2, <1>9, <1>11 DEF BlockInv, Sorted, InOrder
  <2>2. QED
    BY <1>4, <1>9, <1>10, <2>1
<1>12. ASSUME l < k PROVE FALSE
  <2>1. StartOf(c) + c.size <= StartOf(b)
    BY <1>2, <1>9, <1>12 DEF BlockInv, Sorted, InOrder
  <2>2. QED
    BY <1>4, <1>9, <1>10, <2>1
<1>13. QED
  BY <1>4, <1>9, <1>11, <1>12

\* When all tasks are complete every byte of the volumes is in a block, and every
\* volume has a byte.
LEMMA CompleteVolumes ==
    ASSUME IndInv, BlockInv, AllTasksComplete, NEW v \in DOMAIN volume
    PROVE  /\ Len(volume[v]) > 0
           /\ \A p \in 1..Len(volume[v]) :
                \E f \in Files : \E k \in DOMAIN blocks[f] : Covers(<<f, k>>, v, p)
<1>1. volume[v] \in Seq(Bytes)
  BY DEF IndInv, TypeOK
<1>2. volume[v] # <<>>
  BY DEF BlockInv, Used, AllTasksComplete
<1>3. QED
  BY <1>1, <1>2 DEF BlockInv, Covered, Pends, AllTasksComplete

LEMMA BlockRefsOf ==
    /\ \A f \in Files : \A k \in DOMAIN blocks[f] : <<f, k>> \in BlockRefs
    /\ \A r \in BlockRefs : \E f \in Files : \E k \in DOMAIN blocks[f] : r = <<f, k>>
BY DEF BlockRefs

\* When the streams are closed no two blocks overlap and no byte is lost.
THEOREM NoByteIsLostOrShared == Spec => [](SmallVolumes => EveryByteInOneBlock)
<1>1. IndInv /\ BlockInv => EveryByteInOneBlock
  <2> SUFFICES ASSUME IndInv, BlockInv, AllTasksComplete,
                      NEW v \in DOMAIN volume, NEW p \in 1..Len(volume[v])
               PROVE  Cardinality({r \in BlockRefs : Covers(r, v, p)}) = 1
    BY DEF EveryByteInOneBlock
  <2>2. PICK f \in Files : \E k \in DOMAIN blocks[f] : Covers(<<f, k>>, v, p)
    BY CompleteVolumes
  <2>3. PICK k \in DOMAIN blocks[f] : Covers(<<f, k>>, v, p)
    BY <2>2
  <2>4. p \in Nat
    OBVIOUS
  <2>5. \A g \in Files : \A l \in DOMAIN blocks[g] :
            Covers(<<g, l>>, v, p) => <<g, l>> = <<f, k>>
    BY <2>3, <2>4, OneBlockCovers
  <2>6. {r \in BlockRefs : Covers(r, v, p)} = {<<f, k>>}
    BY <2>3, <2>5, BlockRefsOf
  <2>7. QED
    BY <2>6, FS_Singleton
<1>2. QED
  BY <1>1, IndInvInvariant, BlockInvInvariant, PTL

\* The numbers in the index have no gap: the reader can use them as array indices.
THEOREM ReaderCanIndexVolumes == Spec => [](SmallVolumes => VolumeNumbersDense)
<1>1. IndInv /\ BlockInv => VolumeNumbersDense
  <2> SUFFICES ASSUME IndInv, BlockInv, AllTasksComplete
               PROVE  LET used == {blocks[r[1]][r[2]].volumeNumber : r \in BlockRefs}
                      IN  used = 0..Cardinality(used) - 1
    BY DEF VolumeNumbersDense
  <2> DEFINE used == {blocks[r[1]][r[2]].volumeNumber : r \in BlockRefs}
  <2>1. nextVolumeNumber \in Nat /\ DOMAIN volume = 0..nextVolumeNumber - 1
    BY DEF IndInv, TypeOK
  <2>2. ASSUME NEW v \in used PROVE v \in DOMAIN volume
    <3>1. PICK r \in BlockRefs : v = blocks[r[1]][r[2]].volumeNumber
      BY <2>2
    <3>2. PICK f \in Files : \E k \in DOMAIN blocks[f] : r = <<f, k>>
      BY BlockRefsOf
    <3>3. PICK k \in DOMAIN blocks[f] : r = <<f, k>>
      BY <3>2
    <3>4. InVolume(blocks[f][k]) /\ v = blocks[f][k].volumeNumber
      BY <3>1, <3>3 DEF BlockInv, Reproduces, ReadAs
    <3>5. QED
      BY <3>4 DEF InVolume
  <2>3. ASSUME NEW v \in DOMAIN volume PROVE v \in used
    <3>1. Len(volume[v]) > 0 /\ Len(volume[v]) \in Nat
      BY CompleteVolumes DEF IndInv, TypeOK
    <3>2. PICK f \in Files : \E k \in DOMAIN blocks[f] : Covers(<<f, k>>, v, 1)
      BY <3>1, CompleteVolumes
    <3>3. PICK k \in DOMAIN blocks[f] : Covers(<<f, k>>, v, 1)
      BY <3>2
    <3>4. blocks[f][k].volumeNumber = v /\ <<f, k>> \in BlockRefs
      BY <3>3, BlockRefsOf DEF Covers
    <3>5. QED
      BY <3>4
  <2> HIDE DEF used
  <2>4. used = 0..nextVolumeNumber - 1
    BY <2>1, <2>2, <2>3
  <2>5. Cardinality(used) = nextVolumeNumber
    BY <2>1, <2>4, FS_Interval
  <2>6. QED
    BY <2>4, <2>5 DEF used
<1>2. QED
  BY <1>1, IndInvInvariant, BlockInvInvariant, PTL

-----------------------------------------------------------------------------
(***************************************************************************)
(* The number of open volumes.  A new one is made only when every open one *)
(* has an owner, which is another running task each.                       *)
(***************************************************************************)
FewRunning == IsFiniteSet(Running) /\ Cardinality(Running) <= NumThreads
CountInv == FewRunning /\ OpenVolumesBounded

\* The open volumes that are numbers below nextVolumeNumber are finitely many.
LEMMA OpenVolumesFinite ==
    ASSUME TypeOK
    PROVE  IsFiniteSet(DOMAIN openVolumes)
<1>1. IsFiniteSet(0..nextVolumeNumber - 1)
  <2>1. nextVolumeNumber - 1 \in Int /\ 0 \in Int
    BY DEF TypeOK
  <2>2. QED
    BY <2>1, FS_Interval
<1>2. DOMAIN openVolumes \in SUBSET (0..nextVolumeNumber - 1)
  BY DEF TypeOK
<1>3. QED
  BY <1>1, <1>2, FS_Subset

LEMMA FindNewCounts ==
    ASSUME IndInv, CountInv, NEW f \in Files, pc[f] = "find", FindNew(f)
    PROVE  OpenVolumesBounded'
<1>1. /\ TypeOK /\ ExclusiveOwnership /\ IsFiniteSet(Running)
      /\ Cardinality(Running) <= NumThreads /\ NumThreads \in Nat
  BY SizesAssumption DEF IndInv, CountInv, FewRunning
<1>2. /\ \A v \in DOMAIN openVolumes : openVolumes[v].ownedWriter \in Running \ {f}
      /\ f \in Running
  BY <1>1 DEF FindNew, OwnedBy, ExclusiveOwnership, Running
<1>3. PICK owner : owner = [v \in DOMAIN openVolumes |-> openVolumes[v].ownedWriter]
  OBVIOUS
<1>4. owner \in Injection(DOMAIN openVolumes, Running \ {f})
  <2>1. owner \in [DOMAIN openVolumes -> Running \ {f}]
    BY <1>2, <1>3
  <2>2. ASSUME NEW u \in DOMAIN openVolumes, NEW v \in DOMAIN openVolumes,
               owner[u] = owner[v]
        PROVE  u = v
    <3>1. openVolumes[u].ownedWriter # NoWriter
      BY <1>2, NoWriterAssumption DEF Running
    <3>2. QED
      BY <1>1, <1>3, <2>2, <3>1 DEF ExclusiveOwnership
  <2>3. IsInjective(owner)
    BY <2>1, <2>2 DEF IsInjective
  <2>4. QED
    BY <2>1, <2>3 DEF Injection
<1>5. /\ IsFiniteSet(Running \ {f})
      /\ Cardinality(Running \ {f}) = Cardinality(Running) - 1
  BY <1>1, <1>2, FS_RemoveElement
<1>6. IsFiniteSet(DOMAIN openVolumes)
      /\ Cardinality(DOMAIN openVolumes) <= Cardinality(Running \ {f})
  BY <1>4, <1>5, FS_Injection
<1>7. DOMAIN openVolumes' = DOMAIN openVolumes \cup {NewNumber}
  BY DEF FindNew
<1>8. Cardinality(DOMAIN openVolumes') <= Cardinality(DOMAIN openVolumes) + 1
  <2>1. Cardinality(DOMAIN openVolumes) \in Nat
    BY <1>6, FS_CardinalityType
  <2>2. Cardinality(DOMAIN openVolumes') =
            IF NewNumber \in DOMAIN openVolumes THEN Cardinality(DOMAIN openVolumes)
            ELSE Cardinality(DOMAIN openVolumes) + 1
    BY <1>6, <1>7, FS_AddElement
  <2>3. QED
    BY <2>1, <2>2
<1>9. /\ Cardinality(DOMAIN openVolumes) \in Nat /\ Cardinality(Running) \in Nat
      /\ Cardinality(DOMAIN openVolumes') \in Nat
  BY <1>1, <1>6, <1>7, FS_CardinalityType, FS_AddElement
<1>10. QED
  BY <1>1, <1>5, <1>6, <1>8, <1>9 DEF OpenVolumesBounded

\* A step that makes no volume.
LEMMA FewerVolumes ==
    ASSUME TypeOK, OpenVolumesBounded, DOMAIN openVolumes' \subseteq DOMAIN openVolumes
    PROVE  OpenVolumesBounded'
<1>1. IsFiniteSet(DOMAIN openVolumes)
  BY OpenVolumesFinite
<1>2. /\ IsFiniteSet(DOMAIN openVolumes')
      /\ Cardinality(DOMAIN openVolumes') <= Cardinality(DOMAIN openVolumes)
  BY <1>1, FS_Subset
<1>3. /\ Cardinality(DOMAIN openVolumes') \in Nat /\ Cardinality(DOMAIN openVolumes) \in Nat
  BY <1>1, <1>2, FS_CardinalityType
<1>4. QED
  BY <1>2, <1>3, SizesAssumption DEF OpenVolumesBounded

\* A step that starts no task.
LEMMA FewerRunning ==
    ASSUME FewRunning, Running' \subseteq Running
    PROVE  FewRunning'
<1>1. /\ IsFiniteSet(Running') /\ Cardinality(Running') <= Cardinality(Running)
  BY FS_Subset DEF FewRunning
<1>2. /\ Cardinality(Running') \in Nat /\ Cardinality(Running) \in Nat
  BY <1>1, FS_CardinalityType DEF FewRunning
<1>3. QED
  BY <1>1, <1>2, SizesAssumption DEF FewRunning

LEMMA CreateFileCounts ==
    ASSUME TypeOK, FewRunning, NEW f \in Files, CreateFile(f)
    PROVE  FewRunning'
<1>1. Running' = Running \cup {f} /\ f \notin Running /\ Cardinality(Running) < NumThreads
  BY DEF CreateFile, Running, TypeOK
<1>2. /\ IsFiniteSet(Running') /\ Cardinality(Running') = Cardinality(Running) + 1
  BY <1>1, FS_AddElement DEF FewRunning
<1>3. Cardinality(Running) \in Nat
  BY FS_CardinalityType DEF FewRunning
<1>4. QED
  BY <1>1, <1>2, <1>3, SizesAssumption DEF FewRunning

LEMMA NextCounts == IndInv /\ CountInv /\ [Next]_vars => CountInv'
<1> SUFFICES ASSUME IndInv, CountInv, [Next]_vars PROVE CountInv'
  OBVIOUS
<1>0. TypeOK /\ FewRunning /\ OpenVolumesBounded
  BY DEF IndInv, CountInv
<1>1. ASSUME NEW f \in Files, CreateFile(f) PROVE CountInv'
  <2>1. DOMAIN openVolumes' \subseteq DOMAIN openVolumes
    BY <1>1 DEF CreateFile
  <2>2. QED
    BY <1>0, <1>1, <2>1, CreateFileCounts, FewerVolumes DEF CountInv
<1>2. ASSUME NEW f \in Files,
             \/ \E n \in 1..MaxCall : WriteBytes(f, n)
             \/ QueryCurrentOffset(f)
             \/ \E n \in 0..MaxCall : WriteToVolume(f, n)
             \/ CloseFile(f)
      PROVE  CountInv'
  <2>1. Running' \subseteq Running
    BY <1>0, <1>2 DEF WriteBytes, QueryCurrentOffset, WriteToVolume, CloseFile, Running, TypeOK
  <2>2. DOMAIN openVolumes' \subseteq DOMAIN openVolumes
    BY <1>2 DEF WriteBytes, QueryCurrentOffset, WriteToVolume, CloseFile, ReleaseVolume, SetOwner
  <2>3. QED
    BY <1>0, <2>1, <2>2, FewerRunning, FewerVolumes DEF CountInv
<1>3. ASSUME NEW f \in Files, FindStream(f) PROVE CountInv'
  <2>1. pc[f] = "find" /\ Running' \subseteq Running
    BY <1>0, <1>3 DEF FindStream, FindOwn, FindFree, FindNew, Found, Running, TypeOK
  <2>2. CASE FindNew(f)
    BY <1>0, <2>1, <2>2, FewerRunning, FindNewCounts DEF CountInv
  <2>3. CASE FindOwn(f) \/ FindFree(f)
    <3>1. DOMAIN openVolumes' \subseteq DOMAIN openVolumes
      BY <2>3 DEF FindOwn, FindFree, TakeFree, SetOwner
    <3>2. QED
      BY <1>0, <2>1, <3>1, FewerRunning, FewerVolumes DEF CountInv
  <2>4. QED
    BY <1>3, <2>2, <2>3 DEF FindStream
<1>4. ASSUME NEW f \in Files, BytesWereWrittenToVolume(f) PROVE CountInv'
  <2>1. Running' \subseteq Running
    BY <1>0, <1>4 DEF BytesWereWrittenToVolume, Running, TypeOK
  <2>2. DOMAIN openVolumes' \subseteq DOMAIN openVolumes
    BY <1>4 DEF BytesWereWrittenToVolume, SetLeftSize
  <2>3. QED
    BY <1>0, <2>1, <2>2, FewerRunning, FewerVolumes DEF CountInv
<1>5. CASE WriteProtect \/ UNCHANGED vars
  <2>1. Running' \subseteq Running /\ DOMAIN openVolumes' \subseteq DOMAIN openVolumes
    BY <1>5 DEF WriteProtect, vars, Running
  <2>2. QED
    BY <1>0, <2>1, FewerRunning, FewerVolumes DEF CountInv
<1>6. QED
  BY <1>1, <1>2, <1>3, <1>4, <1>5 DEF Next, Step, Finished

\* There are never more open volumes than threads, however many files are piped.
THEOREM OpenFilesAreBounded == Spec => []OpenVolumesBounded
<1>1. Init => CountInv
  <2>1. ASSUME Init PROVE Running = {} /\ DOMAIN openVolumes = {}
    BY <2>1 DEF Init, Running
  <2>2. QED
    BY <2>1, FS_EmptySet, SizesAssumption DEF CountInv, FewRunning, OpenVolumesBounded
<1>2. CountInv => OpenVolumesBounded
  BY DEF CountInv
<1>3. QED
  BY <1>1, <1>2, NextCounts, IndInvInvariant, PTL DEF Spec

-----------------------------------------------------------------------------
\* How far a task is from its next byte; when it gives a byte it starts again.
Distance == [queued |-> 6, record |-> 5, open |-> 4, find |-> 3, offset |-> 2,
             write |-> 1, closed |-> 0]
GetsOn(f) ==
    \/ written[f] < written'[f] /\ written'[f] <= MaxBytes
    \/ written'[f] = written[f] /\ Distance[pc'[f]] < Distance[pc[f]]

OneFileGetsOn ==
    /\ \E f \in Files :
        /\ GetsOn(f)
        /\ \A g \in Files \ {f} : pc'[g] = pc[g] /\ written'[g] = written[g]
    /\ UNCHANGED writeProtected
Protects == ~writeProtected /\ writeProtected' /\ UNCHANGED <<pc, written>>

\* No step is taken in vain: it brings the one task that takes it nearer to its
\* next byte, or writes bytes, of which a file has a bounded number.  So the
\* loop of WriteBytes ends, and with it the task, whoever shares the volumes.
EveryStepGetsOn == [][OneFileGetsOn \/ Protects]_vars

\* What is left of a call is within the bytes that a file has.
CallsFit ==
    \A f \in Files : pc[f] \in {"find", "offset", "write", "record"} =>
        written[f] + size[f] <= MaxBytes

\* Every step keeps the calls within their files.
LEMMA NextCallsFit == TypeOK /\ CallsFit /\ [Next]_vars => CallsFit'
<1> SUFFICES ASSUME TypeOK, CallsFit, [Next]_vars PROVE CallsFit'
  OBVIOUS
<1>1. ASSUME NEW f \in Files, Step(f) PROVE CallsFit'
  <2>1. CASE CreateFile(f) \/ CloseFile(f)
    BY <2>1 DEF CreateFile, CloseFile, locals, TypeOK, CallsFit
  <2>2. CASE \E n \in 1..MaxCall : WriteBytes(f, n)
    BY <2>2 DEF WriteBytes, TypeOK, CallsFit
  <2>3. CASE FindStream(f)
    BY <2>3 DEF FindStream, FindOwn, FindFree, FindNew, Found, TypeOK, CallsFit
  <2>4. CASE QueryCurrentOffset(f)
    BY <2>4 DEF QueryCurrentOffset, TypeOK, CallsFit
  <2>5. CASE \E n \in 0..MaxCall : WriteToVolume(f, n)
    <3>1. PICK n \in Nat : WriteToVolume(f, n)
      BY <2>5
    <3>2. /\ pc[f] = "write" /\ pc' = [pc EXCEPT ![f] = "record"]
          /\ written' = [written EXCEPT ![f] = @ + n]
          /\ size' = [size EXCEPT ![f] = @ - n]
      BY <3>1 DEF WriteToVolume
    <3>3. written'[f] + size'[f] = written[f] + size[f]
      BY <3>2 DEF TypeOK
    <3>4. QED
      BY <3>2, <3>3 DEF TypeOK, CallsFit
  <2>6. CASE BytesWereWrittenToVolume(f)
    BY <2>6 DEF BytesWereWrittenToVolume, locals, TypeOK, CallsFit
  <2>7. QED
    BY <1>1, <2>1, <2>2, <2>3, <2>4, <2>5, <2>6 DEF Step
<1>2. CASE WriteProtect \/ UNCHANGED vars
  BY <1>2 DEF WriteProtect, vars, locals, CallsFit
<1>3. QED
  BY <1>1, <1>2 DEF Next, Finished

\* A step of f takes f on, and changes no other file and not the protection.
LEMMA StepGetsOn ==
    ASSUME IndInv, BlockInv, CallsFit, NEW f \in Files, Step(f)
    PROVE  /\ GetsOn(f)
           /\ \A g \in Files \ {f} : pc'[g] = pc[g] /\ written'[g] = written[g]
           /\ UNCHANGED writeProtected
<1> USE DEF IndInv, TypeOK
<1>1. CASE CreateFile(f)
  BY <1>1 DEF CreateFile, GetsOn, Distance
<1>2. CASE \E n \in 1..MaxCall : WriteBytes(f, n)
  BY <1>2 DEF WriteBytes, GetsOn, Distance
<1>3. CASE FindStream(f)
  <2>1. PICK v, left : Found(f, v, left)
    BY <1>3 DEF FindStream, FindOwn, FindFree, FindNew
  <2>2. pc[f] = "find" /\ pc' = [pc EXCEPT ![f] = "offset"]
        /\ UNCHANGED <<written, writeProtected>>
    BY <1>3, <2>1 DEF FindStream, Found
  <2>3. QED
    BY <2>2 DEF GetsOn, Distance
<1>4. CASE QueryCurrentOffset(f)
  BY <1>4 DEF QueryCurrentOffset, GetsOn, Distance
<1>5. CASE \E n \in 0..MaxCall : WriteToVolume(f, n)
  <2>1. PICK n \in Nat : WriteToVolume(f, n)
    BY <1>5
  <2>2. /\ pc[f] = "write" /\ pc' = [pc EXCEPT ![f] = "record"]
        /\ written' = [written EXCEPT ![f] = @ + n]
        /\ n <= bytesToWrite[f] /\ (n = 0 => bytesToWrite[f] = 0)
        /\ UNCHANGED writeProtected
    BY <2>1 DEF WriteToVolume
  <2>3. bytesToWrite[f] > 0 /\ bytesToWrite[f] <= size[f]
    BY <2>2 DEF BlockInv, Progress, WriteBounds
  <2>4. written[f] + size[f] <= MaxBytes
    BY <2>2 DEF CallsFit
  <2>5. written'[f] = written[f] + n
    BY <2>2
  <2>6. written[f] < written'[f] /\ written'[f] <= MaxBytes
    BY <2>2, <2>3, <2>4, <2>5, SizesAssumption
  <2>7. QED
    BY <2>2, <2>6 DEF GetsOn
<1>6. CASE BytesWereWrittenToVolume(f)
  BY <1>6 DEF BytesWereWrittenToVolume, locals, GetsOn, Distance
<1>7. CASE CloseFile(f)
  BY <1>7 DEF CloseFile, locals, GetsOn, Distance
<1>8. QED
  BY <1>1, <1>2, <1>3, <1>4, <1>5, <1>6, <1>7 DEF Step

\* No thread ever goes round in WriteBytes without writing: for any number of
\* files and threads, every step takes its file nearer to its end.
THEOREM WritersGetOn == ASSUME SmallVolumes PROVE Spec => EveryStepGetsOn
<1>1. Init => CallsFit
  BY DEF Init, CallsFit
<1>2. IndInv => TypeOK
  BY DEF IndInv
<1>3. BlockInv <=> (SmallVolumes => BlockInv)
  OBVIOUS
<1>4. IndInv /\ BlockInv /\ CallsFit /\ [Next]_vars => [OneFileGetsOn \/ Protects]_vars
  <2> SUFFICES ASSUME IndInv, BlockInv, CallsFit, Next, ~UNCHANGED vars
               PROVE  OneFileGetsOn \/ Protects
    OBVIOUS
  <2>1. CASE WriteProtect
    BY <2>1 DEF WriteProtect, Protects
  <2>2. ASSUME NEW f \in Files, Step(f) PROVE OneFileGetsOn
    BY <2>2, StepGetsOn DEF OneFileGetsOn
  <2>3. QED
    BY <2>1, <2>2 DEF Next, Finished
<1>5. QED
  BY <1>1, <1>2, <1>3, <1>4, NextCallsFit, IndInvInvariant, BlockInvInvariant, PTL
     DEF Spec, EveryStepGetsOn
=============================================================================
