------------------------- MODULE VolumeStore_proofs -------------------------
(***************************************************************************)
(* Proof that the write side implements FileStore, for any files, threads  *)
(* and sizes: what is read of a file through its blocks grows at its end   *)
(* until the file is closed, and then stays.  A block tells where in the   *)
(* file it belongs by its first byte; that the blocks of a file are in     *)
(* this order, without gap, is BlocksAreTheFiles of VolumeWriting_proofs.  *)
(***************************************************************************)
EXTENDS VolumeWriting_proofs, SequenceTheorems

\* The block of bs with the p-th byte of its file.
Holds(b, p) == StartOf(b) < p /\ p <= StartOf(b) + b.size
ReadByte(bs, p) ==
    LET k == CHOOSE k \in DOMAIN bs : Holds(bs[k], p)
    IN  ByteAt(bs[k], p - StartOf(bs[k]))
ReadFile(f) == [p \in 1..Recorded(f) |-> ReadByte(blocks[f], p)]
StoredFiles == [f \in Files |-> ReadFile(f)]

\* The bytes that should be read.
WrittenFiles == [f \in Files |-> Chunk(f, 0, Recorded(f))]

Store == INSTANCE FileStore WITH
    content <- StoredFiles,
    closed <- {f \in Files : pc[f] = "closed"},
    sealed <- writeProtected

Recording == INSTANCE FileStore WITH
    content <- WrittenFiles,
    closed <- {f \in Files : pc[f] = "closed"},
    sealed <- writeProtected

\* Each of the first n bytes of a file is in a block.
HeldIn(bs, n) == \A p \in 1..n : \E k \in DOMAIN bs : Holds(bs[k], p)
AllHeld == \A f \in Files : HeldIn(blocks[f], Recorded(f))

\* A call writes at most what was left of it, and nothing is recorded twice.
Calls ==
    \A f \in Files :
        /\ written[f] <= MaxBytes
        /\ pc[f] \in {"find", "offset", "write", "record"} => written[f] + size[f] <= MaxBytes
        /\ pc[f] = "record" => nBytesWritten[f] <= written[f]

\* Together the invariant of this module.
StoreInv == IndInv /\ LeftSizeExact /\ BlockInv /\ Calls /\ AllHeld

-----------------------------------------------------------------------------
LEMMA InitCalls == Init => Calls
BY SizesAssumption DEF Init, Calls

LEMMA NextCalls == IndInv /\ Calls /\ [Next]_vars => Calls'
<1> SUFFICES ASSUME IndInv, Calls, [Next]_vars PROVE Calls'
  OBVIOUS
<1>0. TypeOK /\ MaxBytes \in Nat
  BY SizesAssumption DEF IndInv
<1>1. ASSUME NEW f \in Files, CreateFile(f) PROVE Calls'
  BY <1>0, <1>1 DEF CreateFile, Calls, locals, TypeOK
<1>2. ASSUME NEW f \in Files, NEW n \in 1..MaxCall, WriteBytes(f, n) PROVE Calls'
  BY <1>0, <1>2 DEF WriteBytes, Calls, TypeOK
<1>3. ASSUME NEW f \in Files, FindStream(f) PROVE Calls'
  <2>1. pc[f] = "find" /\ pc' = [pc EXCEPT ![f] = "offset"]
        /\ UNCHANGED <<written, size, nBytesWritten>>
    BY <1>3 DEF FindStream, FindOwn, FindFree, FindNew, Found
  <2>2. QED
    BY <1>0, <2>1 DEF Calls, TypeOK
<1>4. ASSUME NEW f \in Files, QueryCurrentOffset(f) PROVE Calls'
  BY <1>0, <1>4 DEF QueryCurrentOffset, Calls, TypeOK
<1>5. ASSUME NEW f \in Files, NEW n \in 0..MaxCall, WriteToVolume(f, n) PROVE Calls'
  <2>1. n \in Nat /\ n <= size[f]
    BY <1>0, <1>5, SizesAssumption DEF WriteToVolume, IndInv, WriteBounds, TypeOK
  <2>2. /\ pc[f] = "write" /\ pc' = [pc EXCEPT ![f] = "record"]
        /\ written' = [written EXCEPT ![f] = @ + n]
        /\ size' = [size EXCEPT ![f] = @ - n]
        /\ nBytesWritten' = [nBytesWritten EXCEPT ![f] = n]
    BY <1>5 DEF WriteToVolume
  <2>3. QED
    BY <1>0, <2>1, <2>2 DEF Calls, TypeOK
<1>6. ASSUME NEW f \in Files, BytesWereWrittenToVolume(f) PROVE Calls'
  BY <1>0, <1>6 DEF BytesWereWrittenToVolume, Calls, locals, TypeOK
<1>7. ASSUME NEW f \in Files, CloseFile(f) PROVE Calls'
  BY <1>0, <1>7 DEF CloseFile, Calls, locals, TypeOK
<1>8. CASE WriteProtect \/ UNCHANGED vars
  BY <1>8 DEF WriteProtect, vars, locals, Calls
<1>9. QED
  BY <1>1, <1>2, <1>3, <1>4, <1>5, <1>6, <1>7, <1>8 DEF Next, Step, Finished

-----------------------------------------------------------------------------
\* Two chunks that follow each other are one.
LEMMA ChunksJoin ==
    ASSUME NEW f \in Files, NEW a \in Nat, NEW n \in Nat
    PROVE  Chunk(f, 0, a + n) = Chunk(f, 0, a) \o [i \in 1..n |-> <<f, Len(Chunk(f, 0, a)) + i>>]
<1>1. PICK s \in Seq(Bytes) : s = Chunk(f, 0, a) /\ Len(s) = a
  BY ChunkType
<1>2. PICK t \in Seq(Bytes) : t = Chunk(f, a, n) /\ Len(t) = n
  BY ChunkType
<1>3. PICK u \in Seq(Bytes) : u = Chunk(f, 0, a + n) /\ Len(u) = a + n
  BY ChunkType
<1>4. \A i \in 1..a : s[i] = <<f, i>>
  BY <1>1 DEF Chunk
<1>5. \A i \in 1..n : t[i] = <<f, a + i>>
  BY <1>2 DEF Chunk
<1>6. \A i \in 1..(a + n) : u[i] = <<f, i>>
  BY <1>3 DEF Chunk
<1>7. s \o t \in Seq(Bytes) /\ Len(s \o t) = a + n
  BY <1>1, <1>2
<1>8. ASSUME NEW i \in 1..(a + n) PROVE (s \o t)[i] = u[i]
  <2>1. CASE i <= a
    <3>1. (s \o t)[i] = s[i]
      BY <1>1, <1>2, <2>1
    <3>2. i \in 1..a
      BY <2>1
    <3>3. s[i] = <<f, i>>
      BY <1>4, <3>2
    <3>4. u[i] = <<f, i>>
      BY <1>6
    <3>5. QED
      BY <3>1, <3>3, <3>4
  <2>2. CASE i > a
    <3>1. PICK j \in 1..n : i = a + j
      BY <2>2
    <3>2. (s \o t)[i] = t[j]
      BY <1>1, <1>2, <3>1, SMTT(30)
    <3>3. t[j] = <<f, a + j>>
      BY <1>5
    <3>4. u[i] = <<f, i>>
      BY <1>6
    <3>5. QED
      BY <3>1, <3>2, <3>3, <3>4
  <2>3. i <= a \/ i > a
    OBVIOUS
  <2>4. QED
    BY <2>1, <2>2, <2>3, Zenon
<1>9. s \o t = u
  BY <1>3, <1>7, <1>8, SeqEqual
<1>10. t = [i \in 1..n |-> <<f, Len(s) + i>>]
  BY <1>1, <1>2 DEF Chunk
<1>11. QED
  BY <1>1, <1>3, <1>9, <1>10

\* A step that neither records nor closes is a stutter.
LEMMA Stutters ==
    ASSUME UNCHANGED writeProtected,
           \A f \in Files : Recorded(f)' = Recorded(f) /\ (pc'[f] = "closed" <=> pc[f] = "closed")
    PROVE  UNCHANGED Recording!storeVars
BY DEF Recording!storeVars, WrittenFiles

LEMMA NextImplements ==
    IndInv /\ Calls /\ [Next]_vars => [Recording!Next]_Recording!storeVars
<1> SUFFICES ASSUME IndInv, Calls, [Next]_vars
             PROVE  Recording!Next \/ UNCHANGED Recording!storeVars
  BY Zenon
<1>0. TypeOK
  BY DEF IndInv
<1>1. ASSUME NEW f \in Files, CreateFile(f) PROVE UNCHANGED Recording!storeVars
  BY <1>0, <1>1, Stutters DEF CreateFile, Recorded, locals, TypeOK
<1>2. ASSUME NEW f \in Files, NEW n \in 1..MaxCall, WriteBytes(f, n)
      PROVE  UNCHANGED Recording!storeVars
  BY <1>0, <1>2, Stutters DEF WriteBytes, Recorded, TypeOK
<1>3. ASSUME NEW f \in Files, FindStream(f) PROVE UNCHANGED Recording!storeVars
  <2>1. pc[f] = "find" /\ pc' = [pc EXCEPT ![f] = "offset"]
        /\ UNCHANGED <<written, nBytesWritten, writeProtected>>
    BY <1>3 DEF FindStream, FindOwn, FindFree, FindNew, Found
  <2>2. QED
    BY <1>0, <2>1, Stutters DEF Recorded, TypeOK
<1>4. ASSUME NEW f \in Files, QueryCurrentOffset(f) PROVE UNCHANGED Recording!storeVars
  BY <1>0, <1>4, Stutters DEF QueryCurrentOffset, Recorded, TypeOK
<1>5. ASSUME NEW f \in Files, NEW n \in 0..MaxCall, WriteToVolume(f, n)
      PROVE  UNCHANGED Recording!storeVars
  <2>1. /\ pc[f] = "write" /\ pc' = [pc EXCEPT ![f] = "record"]
        /\ written' = [written EXCEPT ![f] = @ + n]
        /\ nBytesWritten' = [nBytesWritten EXCEPT ![f] = n]
        /\ UNCHANGED writeProtected
    BY <1>5 DEF WriteToVolume
  <2>2. Recorded(f)' = Recorded(f)
    <3>1. written[f] \in Nat /\ n \in Int
      BY <1>0 DEF TypeOK
    <3>2. QED
      BY <1>0, <2>1, <3>1 DEF Recorded, TypeOK
  <2>3. \A g \in Files \ {f} : Recorded(g)' = Recorded(g) /\ pc'[g] = pc[g]
    BY <1>0, <2>1 DEF Recorded, TypeOK
  <2>4. pc'[f] = "record"
    BY <1>0, <2>1 DEF TypeOK
  <2>5. QED
    BY <2>1, <2>2, <2>3, <2>4, Stutters
<1>6. ASSUME NEW f \in Files, BytesWereWrittenToVolume(f)
      PROVE  Recording!Next \/ UNCHANGED Recording!storeVars
  <2>1. /\ pc[f] = "record" /\ pc'[f] \in {"open", "find"}
        /\ \A g \in Files \ {f} : pc'[g] = pc[g]
        /\ UNCHANGED <<written, nBytesWritten, writeProtected>>
    BY <1>0, <1>6 DEF BytesWereWrittenToVolume, locals, TypeOK
  <2>2. PICK n \in Nat : n = nBytesWritten[f] /\ n <= written[f] /\ written[f] <= MaxBytes
    BY <1>0, <2>1 DEF Calls, TypeOK
  <2>3. PICK a \in Nat : a = Recorded(f) /\ a + n = written[f]
    BY <1>0, <2>1, <2>2 DEF Recorded, TypeOK
  <2>4. Recorded(f)' = a + n /\ \A g \in Files \ {f} : Recorded(g)' = Recorded(g)
    BY <2>1, <2>3 DEF Recorded
  <2>5. CASE n = 0
    <3>1. Recorded(f)' = Recorded(f)
      BY <2>3, <2>4, <2>5
    <3>2. \A g \in Files : pc'[g] = "closed" <=> pc[g] = "closed"
      BY <2>1
    <3>3. QED
      BY <2>1, <2>4, <3>1, <3>2, Stutters
  <2>6. CASE n # 0
    <3>1. n \in 1..MaxBytes
      <4>1. PICK w \in Nat : w = written[f]
        BY <1>0 DEF TypeOK
      <4>2. n <= w /\ w <= MaxBytes
        BY <2>2, <4>1
      <4>3. QED
        BY <2>6, <4>2, SizesAssumption
    <3>2. {g \in Files : pc'[g] = "closed"} = {g \in Files : pc[g] = "closed"}
          /\ f \notin {g \in Files : pc[g] = "closed"}
      BY <2>1
    <3>3. WrittenFiles'
            = [WrittenFiles EXCEPT ![f] =
                    Chunk(f, 0, a) \o [i \in 1..n |-> <<f, Len(Chunk(f, 0, a)) + i>>]]
      <4>1. PICK c : c = Chunk(f, 0, a) \o [i \in 1..n |-> <<f, Len(Chunk(f, 0, a)) + i>>]
        OBVIOUS
      <4>2. Chunk(f, 0, Recorded(f)') = c
        BY <2>2, <2>3, <2>4, <4>1, ChunksJoin, ZenonT(60)
      <4>3. \A g \in Files \ {f} : Chunk(g, 0, Recorded(g)') = Chunk(g, 0, Recorded(g))
        BY <2>4
      <4>4. WrittenFiles' = [WrittenFiles EXCEPT ![f] = c]
        BY <4>2, <4>3 DEF WrittenFiles
      <4>5. QED
        BY <4>1, <4>4
    <3>4. WrittenFiles[f] = Chunk(f, 0, a)
      BY <2>3 DEF WrittenFiles
    <3>5. Recording!Extend(f, n)
      BY <2>1, <3>2, <3>3, <3>4 DEF Recording!Extend
    <3>6. QED
      BY <3>1, <3>5 DEF Recording!Next
  <2>7. QED
    BY <2>5, <2>6
<1>7. ASSUME NEW f \in Files, CloseFile(f) PROVE Recording!Next
  <2>1. /\ pc[f] = "open" /\ pc' = [pc EXCEPT ![f] = "closed"]
        /\ UNCHANGED <<written, nBytesWritten, writeProtected>>
    BY <1>7 DEF CloseFile, locals
  <2>2. \A g \in Files : Recorded(g)' = Recorded(g)
    BY <1>0, <2>1 DEF Recorded, TypeOK
  <2>3. {g \in Files : pc'[g] = "closed"} = {g \in Files : pc[g] = "closed"} \cup {f}
        /\ f \notin {g \in Files : pc[g] = "closed"}
    BY <1>0, <2>1 DEF TypeOK
  <2>4. Recording!Close(f)
    BY <2>1, <2>2, <2>3 DEF Recording!Close, WrittenFiles
  <2>5. QED
    BY <2>4 DEF Recording!Next
<1>8. CASE WriteProtect
  <2>1. /\ \A f \in Files : pc[f] = "closed"
        /\ writeProtected' = TRUE
        /\ UNCHANGED <<pc, written, nBytesWritten>>
    BY <1>8 DEF WriteProtect, AllTasksComplete, locals
  <2>2. \A g \in Files : Recorded(g)' = Recorded(g)
    BY <2>1 DEF Recorded
  <2>3. Recording!Seal
    BY <2>1, <2>2 DEF Recording!Seal, WrittenFiles
  <2>4. QED
    BY <2>3 DEF Recording!Next
<1>9. CASE UNCHANGED vars
  BY <1>9, Stutters DEF vars, locals, Recorded
<1>10. QED
  BY <1>1, <1>2, <1>3, <1>4, <1>5, <1>6, <1>7, <1>8, <1>9 DEF Next, Step, Finished

-----------------------------------------------------------------------------
\* What is read is what should be.
LEMMA FilesAreRead == StoreInv => StoredFiles = WrittenFiles
<1> SUFFICES ASSUME StoreInv PROVE StoredFiles = WrittenFiles
  OBVIOUS
<1>1. ASSUME NEW f \in Files PROVE ReadFile(f) = Chunk(f, 0, Recorded(f))
  <2>1. PICK bs \in Seq(Block) : bs = blocks[f]
    BY DEF StoreInv, IndInv, TypeOK
  <2>2. ReadAs(bs, f, Recorded(f)) /\ HeldIn(bs, Recorded(f)) /\ TypeOK
    BY <2>1 DEF StoreInv, IndInv, BlockInv, Reproduces, AllHeld
  <2>3. ASSUME NEW p \in 1..Recorded(f) PROVE ReadByte(bs, p) = <<f, p>>
    <3>1. PICK k \in DOMAIN bs : Holds(bs[k], p) /\ ReadByte(bs, p) = ByteAt(bs[k], p - StartOf(bs[k]))
      BY <2>2 DEF HeldIn, ReadByte
    <3>2. bs[k] \in Block /\ bs[k].size > 0 /\ InVolume(bs[k])
      BY <2>2 DEF ReadAs
    <3>3. PICK a \in Int : a = StartOf(bs[k])
      BY <2>2, <3>2, StartOfType
    <3>4. bs[k].size \in Nat
      BY <3>2 DEF Block
    <3>5. a < p /\ p <= a + bs[k].size
      BY <3>1, <3>3 DEF Holds
    <3>6. PICK j \in 1..bs[k].size : j = p - a
      BY <3>4, <3>5
    <3>7. ByteAt(bs[k], j) = <<f, a + j>>
      BY <2>2, <3>3 DEF ReadAs
    <3>8. a + j = p
      BY <3>6
    <3>9. QED
      BY <3>1, <3>3, <3>6, <3>7, <3>8
  <2>4. QED
    BY <2>1, <2>3 DEF ReadFile, Chunk
<1>2. QED
  BY <1>1 DEF StoredFiles, WrittenFiles

\* Every step of the write side is one of the store, or none.
LEMMA StepsImplement ==
    /\ StoredFiles = WrittenFiles /\ (StoredFiles = WrittenFiles)'
    /\ [Recording!Next]_Recording!storeVars
    => [Store!Next]_Store!storeVars
<1> SUFFICES ASSUME StoredFiles = WrittenFiles, StoredFiles' = WrittenFiles',
                    Recording!Next \/ UNCHANGED Recording!storeVars
             PROVE  Store!Next \/ UNCHANGED Store!storeVars
  BY Zenon
<1>1. CASE UNCHANGED Recording!storeVars
  BY <1>1 DEF Recording!storeVars, Store!storeVars
<1>2. ASSUME NEW f \in Files, NEW n \in 1..MaxBytes, Recording!Extend(f, n)
      PROVE  Store!Extend(f, n)
  BY <1>2 DEF Recording!Extend, Store!Extend
<1>3. ASSUME NEW f \in Files, Recording!Close(f) PROVE Store!Close(f)
  BY <1>3 DEF Recording!Close, Store!Close
<1>4. ASSUME Recording!Seal PROVE Store!Seal
  BY <1>4 DEF Recording!Seal, Store!Seal
<1>5. QED
  BY <1>1, <1>2, <1>3, <1>4 DEF Recording!Next, Store!Next

LEMMA InitStore == Init => AllHeld /\ Store!Init
<1> SUFFICES ASSUME Init PROVE AllHeld /\ Store!Init
  OBVIOUS
<1>1. \A f \in Files : pc[f] = "queued" /\ Recorded(f) = 0
  BY DEF Init, Recorded
<1>2. AllHeld
  BY <1>1 DEF AllHeld, HeldIn
<1>3. StoredFiles = [f \in Files |-> <<>>]
  BY <1>1 DEF ReadFile, StoredFiles
<1>4. QED
  BY <1>1, <1>2, <1>3 DEF Init, Store!Init

-----------------------------------------------------------------------------
\* A block with the next bytes holds them, and the others stay held.
LEMMA AddBlockHolds ==
    ASSUME TypeOK, NEW f \in Files, NEW bs \in Seq(Block), NEW b \in Block, NEW n \in Nat,
           ReadAs(bs, f, n), HeldIn(bs, n), b.size > 0, InVolume(b),
           \A j \in 1..b.size : ByteAt(b, j) = <<f, n + j>>
    PROVE  HeldIn(AddBlock(bs, b), n + b.size)
<1>0. PICK r \in Seq(Block) : r = AddBlock(bs, b)
  BY AddBlockType
<1>1. PICK m \in Nat : m = Len(bs) /\ DOMAIN bs = 1..m
  OBVIOUS
<1>2. PICK c \in Nat : c = b.size /\ c > 0
  BY DEF Block
<1>3. StartOf(b) = n
  BY <1>2 DEF StartOf
<1>4. ASSUME NEW k \in 1..m
      PROVE  bs[k] \in Block /\ bs[k].size \in Nat /\ StartOf(bs[k]) \in Int
  <2>1. bs[k] \in Block /\ bs[k].size > 0 /\ InVolume(bs[k])
    BY <1>1 DEF ReadAs
  <2>2. QED
    BY <2>1, StartOfType DEF Block
<1>5. \A p \in 1..n : \E k \in 1..m : Holds(bs[k], p)
  BY <1>1 DEF HeldIn
<1>6. CASE /\ Len(r) = m + 1
           /\ \A k \in 1..m : r[k] = bs[k]
           /\ r[m + 1] = b
  <2>1. DOMAIN r = 1..(m + 1)
    BY <1>6
  <2>2. ASSUME NEW p \in 1..(n + c) PROVE \E k \in DOMAIN r : Holds(r[k], p)
    <3>1. CASE p \in 1..n
      <4>1. PICK k \in 1..m : Holds(bs[k], p)
        BY <1>5, <3>1
      <4>2. k \in DOMAIN r /\ r[k] = bs[k]
        BY <1>6, <2>1
      <4>3. QED
        BY <4>1, <4>2
    <3>2. CASE p > n
      <4>1. Holds(b, p)
        BY <1>2, <1>3, <3>2 DEF Holds
      <4>2. QED
        BY <1>6, <2>1, <4>1
    <3>3. p \in 1..n \/ p > n
      OBVIOUS
    <3>4. QED
      BY <3>1, <3>2, <3>3, Zenon
  <2>3. QED
    BY <1>0, <1>2, <2>2 DEF HeldIn
<1>7. CASE /\ m > 0
           /\ Len(r) = m
           /\ \A k \in 1..m - 1 : r[k] = bs[k]
           /\ r[m].volumeNumber = bs[m].volumeNumber
           /\ r[m].offset = bs[m].offset
           /\ r[m].size = bs[m].size + b.size
  <2>1. DOMAIN r = 1..m
    BY <1>7
  <2>2. StartOf(r[m]) = StartOf(bs[m])
    BY <1>7 DEF StartOf, ByteAt
  <2>3. StartOf(bs[m]) + bs[m].size = n
    BY <1>1, <1>7 DEF ReadAs
  <2>4. PICK a \in Int, z \in Nat : a = StartOf(bs[m]) /\ z = bs[m].size
    BY <1>4, <1>7
  <2>5. a + z = n /\ r[m].size = z + c /\ StartOf(r[m]) = a
    BY <1>2, <1>7, <2>2, <2>3, <2>4
  <2>6. ASSUME NEW p \in 1..(n + c) PROVE \E k \in DOMAIN r : Holds(r[k], p)
    <3>1. CASE p > a
      <4>1. Holds(r[m], p)
        BY <2>5, <3>1 DEF Holds
      <4>2. QED
        BY <1>7, <2>1, <4>1
    <3>2. CASE p <= a
      <4>1. p \in 1..n
        BY <2>4, <2>5, <3>2
      <4>2. PICK k \in 1..m : Holds(bs[k], p)
        BY <1>5, <4>1
      <4>3. k # m
        BY <2>4, <3>2, <4>2 DEF Holds
      <4>4. k \in 1..m - 1
        BY <4>3
      <4>5. QED
        BY <1>7, <2>1, <4>2, <4>4
    <3>3. p > a \/ p <= a
      OBVIOUS
    <3>4. QED
      BY <3>1, <3>2, <3>3, Zenon
  <2>7. QED
    BY <1>0, <1>2, <2>6 DEF HeldIn
<1>8. QED
  BY <1>0, <1>1, <1>6, <1>7, AddBlockCases

\* What is in the index of a file stays held.
LEMMA HeldStays ==
    ASSUME KnownInv, IndInv', Grows, NEW f \in Files, HeldIn(blocks[f], Recorded(f)),
           blocks'[f] = blocks[f], Recorded(f)' = Recorded(f)
    PROVE  HeldIn(blocks[f], Recorded(f))'
<1>1. PICK bs \in Seq(Block) : bs = blocks[f] /\ ReadAs(bs, f, Recorded(f))
  BY DEF KnownInv, IndInv, TypeOK, BlockInv, Reproduces
<1>2. ASSUME NEW k \in DOMAIN bs PROVE StartOf(bs[k])' = StartOf(bs[k])
  <2>1. bs[k] \in Block /\ bs[k].size > 0 /\ InVolume(bs[k])
    BY <1>1 DEF ReadAs
  <2>2. IndInv
    BY DEF KnownInv
  <2>3. StartOf(bs[k])' = StartOf(bs[k])
    BY <2>1, <2>2, BlocksStay
  <2>4. QED
    BY <2>3
<1>3. QED
  BY <1>1, <1>2 DEF HeldIn, Holds

LEMMA NextGrows == IndInv /\ [Next]_vars => Grows
<1> SUFFICES ASSUME IndInv, [Next]_vars PROVE Grows
  OBVIOUS
<1>0. TypeOK
  BY DEF IndInv
<1>1. CASE UNCHANGED volume
  BY <1>0, <1>1 DEF Grows, TypeOK
<1>2. ASSUME NEW f \in Files, FindNew(f) PROVE Grows
  BY <1>0, <1>2 DEF FindNew, NewNumber, Grows, TypeOK
<1>3. ASSUME NEW f \in Files, NEW n \in 0..MaxCall, WriteToVolume(f, n) PROVE Grows
  <2>1. pc[f] = "write" /\ volume' = [volume EXCEPT ![stream[f]] = @ \o Chunk(f, written[f], n)]
    BY <1>3 DEF WriteToVolume
  <2>2. stream[f] \in DOMAIN volume /\ written[f] \in Nat /\ n \in Nat
    BY <1>0, <2>1 DEF IndInv, TypeOK, ExclusiveOwnership, Writing
  <2>3. Chunk(f, written[f], n) \in Seq(Bytes) /\ volume[stream[f]] \in Seq(Bytes)
    BY <1>0, <2>2, ChunkType DEF TypeOK
  <2>4. ASSUME NEW v \in DOMAIN volume
        PROVE  /\ v \in DOMAIN volume'
               /\ Len(volume[v]) <= Len(volume'[v])
               /\ \A p \in 1..Len(volume[v]) : volume'[v][p] = volume[v][p]
    <3>1. CASE v = stream[f]
      <4>1. volume'[v] = volume[v] \o Chunk(f, written[f], n)
        BY <2>1, <3>1
      <4>2. PICK s \in Seq(Bytes), t \in Seq(Bytes) :
                s = volume[v] /\ t = Chunk(f, written[f], n)
        BY <2>3, <3>1
      <4>3. Len(s) \in Nat /\ Len(t) \in Nat /\ volume'[v] = s \o t
        BY <4>1, <4>2
      <4>4. Len(s) <= Len(s \o t) /\ \A p \in 1..Len(s) : (s \o t)[p] = s[p]
        BY <4>3, ConcatParts
      <4>5. v \in DOMAIN volume'
        BY <2>1
      <4>6. QED
        BY <4>2, <4>3, <4>4, <4>5
    <3>2. CASE v # stream[f]
      BY <1>0, <2>1, <3>2 DEF TypeOK
    <3>3. QED
      BY <3>1, <3>2
  <2>5. QED
    BY <2>4 DEF Grows
<1>4. UNCHANGED volume \/ (\E f \in Files : FindNew(f) \/ \E n \in 0..MaxCall : WriteToVolume(f, n))
  BY DEF Next, Step, CreateFile, WriteBytes, FindStream, FindOwn, FindFree, Found,
         QueryCurrentOffset, BytesWereWrittenToVolume, CloseFile, WriteProtect, Finished, vars
<1>5. QED
  BY <1>1, <1>2, <1>3, <1>4

\* Only BytesWereWrittenToVolume changes what is recorded.
LEMMA RecordedStays ==
    ASSUME IndInv, [Next]_vars, NEW f \in Files, ~BytesWereWrittenToVolume(f)
    PROVE  blocks'[f] = blocks[f] /\ Recorded(f)' = Recorded(f)
<1>0. TypeOK
  BY DEF IndInv
<1>1. ASSUME NEW g \in Files, CreateFile(g)
      PROVE  blocks'[f] = blocks[f] /\ Recorded(f)' = Recorded(f)
  BY <1>0, <1>1 DEF CreateFile, Recorded, locals, TypeOK
<1>2. ASSUME NEW g \in Files, NEW n \in 1..MaxCall, WriteBytes(g, n)
      PROVE  blocks'[f] = blocks[f] /\ Recorded(f)' = Recorded(f)
  BY <1>0, <1>2 DEF WriteBytes, Recorded, TypeOK
<1>3. ASSUME NEW g \in Files, FindStream(g)
      PROVE  blocks'[f] = blocks[f] /\ Recorded(f)' = Recorded(f)
  <2>1. pc[g] = "find" /\ pc' = [pc EXCEPT ![g] = "offset"]
        /\ UNCHANGED <<blocks, written, nBytesWritten>>
    BY <1>3 DEF FindStream, FindOwn, FindFree, FindNew, Found
  <2>2. QED
    BY <1>0, <2>1 DEF Recorded, TypeOK
<1>4. ASSUME NEW g \in Files, QueryCurrentOffset(g)
      PROVE  blocks'[f] = blocks[f] /\ Recorded(f)' = Recorded(f)
  BY <1>0, <1>4 DEF QueryCurrentOffset, Recorded, TypeOK
<1>5. ASSUME NEW g \in Files, NEW n \in 0..MaxCall, WriteToVolume(g, n)
      PROVE  blocks'[f] = blocks[f] /\ Recorded(f)' = Recorded(f)
  <2>1. /\ pc[g] = "write" /\ pc' = [pc EXCEPT ![g] = "record"]
        /\ written' = [written EXCEPT ![g] = @ + n]
        /\ nBytesWritten' = [nBytesWritten EXCEPT ![g] = n]
        /\ UNCHANGED blocks
    BY <1>5 DEF WriteToVolume
  <2>2. written[g] \in Nat /\ n \in Int
    BY <1>0 DEF TypeOK
  <2>3. CASE g = f
    BY <1>0, <2>1, <2>2, <2>3 DEF Recorded, TypeOK
  <2>4. CASE g # f
    BY <1>0, <2>1, <2>4 DEF Recorded, TypeOK
  <2>5. QED
    BY <2>3, <2>4
<1>6. ASSUME NEW g \in Files, BytesWereWrittenToVolume(g)
      PROVE  blocks'[f] = blocks[f] /\ Recorded(f)' = Recorded(f)
  <2>1. f # g
    BY <1>6
  <2>2. pc'[f] = pc[f] /\ blocks'[f] = blocks[f] /\ UNCHANGED <<written, nBytesWritten>>
    BY <1>6, <2>1, BytesWereWrittenAdds
  <2>3. QED
    BY <2>2 DEF Recorded
<1>7. ASSUME NEW g \in Files, CloseFile(g)
      PROVE  blocks'[f] = blocks[f] /\ Recorded(f)' = Recorded(f)
  BY <1>0, <1>7 DEF CloseFile, Recorded, locals, TypeOK
<1>8. CASE WriteProtect \/ UNCHANGED vars
  BY <1>8 DEF WriteProtect, vars, locals, Recorded
<1>9. QED
  BY <1>1, <1>2, <1>3, <1>4, <1>5, <1>6, <1>7, <1>8 DEF Next, Step, Finished

LEMMA NextHeld == KnownInv /\ IndInv' /\ AllHeld /\ [Next]_vars => AllHeld'
<1> SUFFICES ASSUME KnownInv, IndInv', AllHeld, [Next]_vars, NEW f \in Files
             PROVE  HeldIn(blocks[f], Recorded(f))'
  BY DEF AllHeld
<1>0. IndInv /\ TypeOK /\ HeldIn(blocks[f], Recorded(f))
  BY DEF KnownInv, IndInv, AllHeld
<1>1. CASE ~BytesWereWrittenToVolume(f)
  <2>1. blocks'[f] = blocks[f] /\ Recorded(f)' = Recorded(f) /\ Grows
    BY <1>0, <1>1, RecordedStays, NextGrows
  <2>2. QED
    BY <1>0, <2>1, HeldStays
<1>2. CASE BytesWereWrittenToVolume(f)
  <2>1. PICK b : b = NewBlock(f)
    OBVIOUS
  <2>2. /\ pc[f] = "record" /\ blocks'[f] = AddBlock(blocks[f], b)
        /\ pc'[f] # "record" /\ UNCHANGED <<volume, written>>
    BY <1>0, <1>2, <2>1, BytesWereWrittenAdds DEF NewBlock
  <2>3. PICK n \in Nat :
            /\ n = Recorded(f) /\ n + b.size = written[f]
            /\ b \in Block /\ b.size > 0 /\ InVolume(b)
            /\ \A j \in 1..b.size : ByteAt(b, j) = <<f, n + j>>
            /\ ReadAs(blocks[f], f, n) /\ blocks[f] \in Seq(Block)
    BY <2>1, <2>2, BytesWereWrittenBlock
  <2>4. HeldIn(AddBlock(blocks[f], b), n + b.size)
    BY <1>0, <2>3, AddBlockHolds
  <2>5. Recorded(f)' = n + b.size
    BY <2>2, <2>3 DEF Recorded
  <2>6. PICK r : r = AddBlock(blocks[f], b)
    OBVIOUS
  <2>7. HeldIn(r, n + b.size)'
    BY <2>2, <2>4, <2>6 DEF HeldIn, Holds, StartOf, ByteAt
  <2>8. QED
    BY <2>2, <2>5, <2>6, <2>7 DEF HeldIn
<1>3. QED
  BY <1>1, <1>2

\* The write side is a store of files that only grow at their ends and stay what they
\* are when they are closed (FlatVolumesFileSystem::CreateFile and WriteProtect), for
\* volumes of less than 2^32 bytes.
THEOREM VolumesImplementStore == ASSUME SmallVolumes PROVE Spec => Store!Spec
<1>1. Init => Calls /\ AllHeld /\ Store!Init
  BY InitCalls, InitStore
<1>2. BlockInv <=> (SmallVolumes => BlockInv)
  OBVIOUS
<1>3. /\ IndInv /\ LeftSizeExact /\ BlockInv /\ Calls /\ AllHeld
      /\ IndInv' /\ [Next]_vars
      => Calls' /\ AllHeld' /\ [Recording!Next]_Recording!storeVars
  BY NextCalls, NextHeld, NextImplements DEF KnownInv
<1>4. IndInv /\ LeftSizeExact /\ BlockInv /\ Calls /\ AllHeld => StoredFiles = WrittenFiles
  BY FilesAreRead DEF StoreInv
<1>5. QED
  BY <1>1, <1>2, <1>3, <1>4, StepsImplement, IndInvInvariant, VolumesAreAccountedFor,
     BlockInvInvariant, PTL DEF Spec, Store!Spec
=============================================================================
