------------------------ MODULE VolumeReading_proofs ------------------------
(***************************************************************************)
(* Proofs about the read side for any number of streams, threads and       *)
(* volumes, any layout of the blocks and any lengths of the volume files.  *)
(* The inductive invariant IndInv adds to the properties what a stream     *)
(* knows of the call it is in: which blocks it has counted, and that what  *)
(* it asks for is in the block it is at.  Three more rest on it: Bounded   *)
(* counts the unused volumes together with the streams that may leave one  *)
(* more behind, AllReceived says what each stream has received so far, and *)
(* Asks that it asks for something.                                        *)
(***************************************************************************)
EXTENDS VolumeReading, InductionLemmas, SequenceTheorems

\* Where a stream is within a call, at a block of its own,
InBlock == {"block", "check", "scan", "lock", "read"}
\* and where it has also decided how much of that block to read.
InRequest == {"check", "scan", "lock", "read"}

\* What a stream knows at each place of a call: the blocks it has counted, the one it is
\* at, and that what it requests lies in that block.
Locals(s) ==
    /\ reader[s].counted <= Len(blocks[s])
    /\ reader[s].currentBlock <= Len(blocks[s]) + 1
    /\ reader[s].currentBlock >= 1
    /\ reader[s].pc = "queued" => reader[s].counted = 0
    /\ reader[s].pc \in {"queued", "counting"} => reader[s].currentBlock = 1
    /\ reader[s].pc \notin {"queued", "counting"} => reader[s].counted = Len(blocks[s])
    /\ reader[s].pc \in InBlock => reader[s].currentBlock <= Len(blocks[s])
    /\ reader[s].pc \in InRequest =>
        /\ reader[s].request <= reader[s].count
        /\ reader[s].blockOffset + reader[s].request <= CurrentBlock(s).size

\* CountersExact, of sets that are finite although Streams need not be.
Counted ==
    \A v \in Volumes : IsFiniteSet(NeededIn(v)) /\ counter[v] = Cardinality(NeededIn(v))

\* The invariant: a held counter for each need, and each open volume counted once.
IndInv ==
    /\ TypeOK
    /\ \A s \in Streams : Locals(s)
    /\ ReaderHasVolume
    /\ Counted
    /\ OpenVolumesExact

-----------------------------------------------------------------------------
\* The block a stream is at is one of its blocks.
LEMMA CurrentBlockType ==
    ASSUME TypeOK, NEW s \in Streams, Locals(s), reader[s].pc \in InBlock
    PROVE  /\ reader[s].currentBlock \in 1..Len(blocks[s])
           /\ CurrentBlock(s) \in Block
           /\ CurrentVolume(s) \in Volumes
           /\ CurrentBlock(s).offset \in Nat /\ CurrentBlock(s).size \in Nat
<1>1. blocks[s] \in Seq(Block) /\ reader[s].currentBlock \in Nat
  BY DEF TypeOK, Reader
<1>2. reader[s].currentBlock \in 1..Len(blocks[s])
  BY <1>1 DEF Locals
<1>3. CurrentBlock(s) \in Block
  BY <1>1, <1>2 DEF CurrentBlock
<1>4. QED
  BY <1>2, <1>3 DEF Block, CurrentVolume

\* What needs a volume.
LEMMA NeededPairs ==
    ASSUME NEW v
    PROVE  /\ \A t \in Streams : \A k \in NeededBlocks(t) :
                blocks[t][k].volumeNumber = v => <<t, k>> \in NeededIn(v)
           /\ \A x \in NeededIn(v) : \E t \in Streams : \E k \in NeededBlocks(t) :
                x = <<t, k>> /\ blocks[t][k].volumeNumber = v
BY DEF NeededIn

\* A stream that stays at its block, or has not counted it yet, needs the same volumes.
LEMMA SameNeeds ==
    ASSUME UNCHANGED blocks, NEW v,
           \A t \in Streams : /\ reader'[t].currentBlock = reader[t].currentBlock
                              /\ reader'[t].counted = reader[t].counted
    PROVE  NeededIn(v)' = NeededIn(v)
<1>1. \A t \in Streams : NeededBlocks(t)' = NeededBlocks(t)
  BY DEF NeededBlocks
<1>2. QED
  BY <1>1 DEF NeededIn

\* What a step of s leaves alone of the other streams.
LEMMA OthersKeep ==
    ASSUME UNCHANGED files, NEW t \in Streams, reader'[t] = reader[t]
    PROVE  /\ Locals(t)' <=> Locals(t)
           /\ Reading(t)' <=> Reading(t)
           /\ CurrentBlock(t)' = CurrentBlock(t)
           /\ CurrentVolume(t)' = CurrentVolume(t)
BY DEF Locals, Reading, CurrentVolume, CurrentBlock, files, InBlock, InRequest

\* Who reads keeps its volume when s, which does not read, closes at most one
\* that nobody holds.
LEMMA VolumesStayHeld ==
    ASSUME TypeOK, \A t \in Streams : Locals(t), ReaderHasVolume, NEW s \in Streams,
           UNCHANGED <<files, held, position>>,
           \A v \in Volumes : isOpen[v] /\ held[v] # NoStream => isOpen'[v],
           \A t \in Streams \ {s} : reader'[t] = reader[t],
           reader[s].pc # "read", reader'[s].pc # "read"
    PROVE  ReaderHasVolume'
<1>1. ~Reading(s) /\ ~Reading(s)'
  BY DEF Reading
<1>2. ASSUME NEW t \in Streams, Reading(t)'
      PROVE  LET v == CurrentVolume(t)'
             IN  /\ held'[v] = t
                 /\ isOpen'[v]
                 /\ position'[v] = CurrentBlock(t)'.offset + reader'[t].blockOffset
  <2>1. t # s /\ t \in Streams \ {s}
    BY <1>1, <1>2
  <2>2. Reading(t) /\ CurrentVolume(t)' = CurrentVolume(t) /\ CurrentBlock(t)' = CurrentBlock(t)
    BY <1>2, <2>1, OthersKeep
  <2>3. /\ held[CurrentVolume(t)] = t /\ isOpen[CurrentVolume(t)]
        /\ position[CurrentVolume(t)] = CurrentBlock(t).offset + reader[t].blockOffset
    BY <2>2 DEF ReaderHasVolume
  <2>4. CurrentVolume(t) \in Volumes
    BY <2>2, CurrentBlockType DEF Reading, InBlock
  <2>5. QED
    BY <2>1, <2>2, <2>3, <2>4, NoStreamAssumption
<1>3. ASSUME NEW v \in Volumes, held'[v] # NoStream
      PROVE  Reading(held[v])' /\ CurrentVolume(held[v])' = v
  <2>1. held[v] \in Streams /\ Reading(held[v]) /\ CurrentVolume(held[v]) = v
    BY <1>3 DEF ReaderHasVolume, TypeOK
  <2>2. PICK t \in Streams : t = held[v]
    BY <2>1
  <2>3. t \in Streams \ {s}
    BY <1>1, <2>1, <2>2
  <2>4. Reading(t)' /\ CurrentVolume(t)' = v
    BY <2>1, <2>2, <2>3, OthersKeep
  <2>5. QED
    BY <2>2, <2>4
<1>4. QED
  BY <1>2, <1>3 DEF ReaderHasVolume

\* A step of s that leaves the volumes and the counters alone.
LEMMA LocalStep ==
    ASSUME IndInv, NEW s \in Streams,
           UNCHANGED <<files, held, isOpen, counter, position, nOpenVolumes>>,
           closing' \in Streams \cup {NoStream},
           reader' \in [Streams -> Reader],
           \A t \in Streams \ {s} : reader'[t] = reader[t],
           reader[s].pc # "read", reader'[s].pc # "read",
           reader'[s].currentBlock = reader[s].currentBlock,
           reader'[s].counted = reader[s].counted,
           Locals(s)'
    PROVE  IndInv'
<1>1. TypeOK'
  BY DEF IndInv, TypeOK, files
<1>2. \A t \in Streams : Locals(t)'
  BY OthersKeep DEF IndInv
<1>3. ReaderHasVolume'
  BY VolumesStayHeld DEF IndInv
<1>4. Counted'
  BY SameNeeds DEF IndInv, Counted, files
<1>5. OpenVolumesExact'
  BY DEF IndInv, OpenVolumesExact
<1>6. QED
  BY <1>1, <1>2, <1>3, <1>4, <1>5 DEF IndInv

\* A step that changes only the program counter, the call and the scan of s.
LEMMA LocalSteps ==
    ASSUME IndInv, NEW s \in Streams,
           \/ OpenFileForReading(s)
           \/ \E n \in 1..MaxCall : ReadBytes(s, n)
           \/ RequestFromBlock(s)
           \/ CheckOpenVolumes(s)
           \/ AllUnusedClosed(s)
           \/ CloseStream(s)
    PROVE  IndInv'
<1>1. /\ reader[s] \in Reader /\ Locals(s) /\ TypeOK
      /\ blocks[s] \in Seq(Block)
  BY DEF IndInv, TypeOK
<1>2. CASE OpenFileForReading(s)
  <2>1. /\ reader[s].pc = "queued"
        /\ reader' = [reader EXCEPT ![s].pc = "counting"]
        /\ UNCHANGED <<files, volumes>>
    BY <1>2 DEF OpenFileForReading
  <2>2. reader' \in [Streams -> Reader]
    BY <1>1, <2>1 DEF TypeOK, Reader
  <2>3. reader'[s].pc = "counting" /\ reader'[s].currentBlock = reader[s].currentBlock
        /\ reader'[s].counted = reader[s].counted
        /\ \A t \in Streams \ {s} : reader'[t] = reader[t]
    BY <1>1, <2>1 DEF TypeOK, Reader
  <2>4. Locals(s)'
    BY <1>1, <2>1, <2>3 DEF Locals, files, InBlock, InRequest
  <2>5. QED
    BY <1>1, <2>1, <2>2, <2>3, <2>4, LocalStep DEF volumes, TypeOK
<1>3. CASE \E n \in 1..MaxCall : ReadBytes(s, n)
  <2>1. PICK n \in 1..MaxCall : ReadBytes(s, n)
    BY <1>3
  <2>2. /\ reader[s].pc = "idle"
        /\ ~IsAtEnd(s)
        /\ reader' = [reader EXCEPT ![s].pc = "block", ![s].count = n]
        /\ UNCHANGED <<files, volumes>>
    BY <2>1 DEF ReadBytes
  <2>3. n \in Nat
    BY SizesAssumption
  <2>4. reader' \in [Streams -> Reader]
    BY <1>1, <2>2, <2>3 DEF TypeOK, Reader
  <2>5. reader'[s].pc = "block" /\ reader'[s].currentBlock = reader[s].currentBlock
        /\ reader'[s].counted = reader[s].counted
        /\ \A t \in Streams \ {s} : reader'[t] = reader[t]
    BY <1>1, <2>2 DEF TypeOK, Reader
  <2>6. reader[s].currentBlock <= Len(blocks[s])
    BY <1>1, <2>2 DEF IsAtEnd, Reader
  <2>7. Locals(s)'
    BY <1>1, <2>2, <2>5, <2>6 DEF Locals, files, InBlock, InRequest
  <2>8. QED
    BY <1>1, <2>2, <2>4, <2>5, <2>7, LocalStep DEF volumes, TypeOK
<1>4. CASE RequestFromBlock(s)
  <2>1. /\ reader[s].pc = "block"
        /\ reader[s].blockOffset < CurrentBlock(s).size
        /\ UNCHANGED <<files, volumes>>
    BY <1>4 DEF RequestFromBlock
  <2>2. PICK n : n = AtMost(reader[s].count, CurrentBlock(s).size - reader[s].blockOffset)
    OBVIOUS
  <2>3. reader' = [reader EXCEPT ![s].request = n, ![s].left = n, ![s].pc = "check"]
    BY <1>4, <2>2 DEF RequestFromBlock
  <2>4. CurrentBlock(s).size \in Nat
    BY <1>1, <2>1, CurrentBlockType DEF InBlock
  <2>5. n \in Nat /\ n <= reader[s].count /\ reader[s].blockOffset + n <= CurrentBlock(s).size
    <3>1. reader[s].count \in Nat /\ reader[s].blockOffset \in Nat
      BY <1>1 DEF Reader
    <3>2. QED
      BY <2>1, <2>2, <2>4, <3>1 DEF AtMost
  <2>6. reader' \in [Streams -> Reader]
    BY <1>1, <2>3, <2>5 DEF TypeOK, Reader
  <2>7. /\ reader'[s] = [reader[s] EXCEPT !.request = n, !.left = n, !.pc = "check"]
        /\ \A t \in Streams \ {s} : reader'[t] = reader[t]
    BY <1>1, <2>3 DEF TypeOK
  <2>8. /\ reader'[s].pc = "check" /\ reader'[s].currentBlock = reader[s].currentBlock
        /\ reader'[s].counted = reader[s].counted
        /\ reader'[s].request = n
        /\ reader'[s].count = reader[s].count /\ reader'[s].blockOffset = reader[s].blockOffset
    BY <1>1, <2>7 DEF Reader
  <2>9. CurrentBlock(s)' = CurrentBlock(s) /\ blocks'[s] = blocks[s]
    BY <2>1, <2>8 DEF CurrentBlock, files
  <2>10. Locals(s)'
    BY <1>1, <2>1, <2>5, <2>8, <2>9 DEF Locals, InBlock, InRequest
  <2>11. QED
    BY <1>1, <2>1, <2>6, <2>7, <2>8, <2>10, LocalStep DEF volumes, TypeOK
<1>5. CASE CheckOpenVolumes(s)
  <2>1. /\ reader[s].pc = "check"
        /\ UNCHANGED <<files, held, isOpen, counter, position, nOpenVolumes>>
        /\ closing' \in Streams \cup {NoStream}
        /\ \/ reader' = [reader EXCEPT ![s].pc = "scan", ![s].scan = 0]
           \/ reader' = [reader EXCEPT ![s].pc = "lock"]
    BY <1>1, <1>5 DEF CheckOpenVolumes, TypeOK
  <2>2. CASE reader' = [reader EXCEPT ![s].pc = "scan", ![s].scan = 0]
    <3>1. reader' \in [Streams -> Reader]
      BY <1>1, <2>2 DEF TypeOK, Reader
    <3>2. /\ reader'[s].pc = "scan"
          /\ reader'[s].currentBlock = reader[s].currentBlock
          /\ reader'[s].counted = reader[s].counted
          /\ reader'[s].request = reader[s].request
          /\ reader'[s].count = reader[s].count
          /\ reader'[s].blockOffset = reader[s].blockOffset
          /\ \A t \in Streams \ {s} : reader'[t] = reader[t]
      BY <1>1, <2>2 DEF TypeOK, Reader
    <3>3. CurrentBlock(s)' = CurrentBlock(s) /\ blocks'[s] = blocks[s]
      BY <2>1, <3>2 DEF CurrentBlock, files
    <3>4. Locals(s)'
      BY <1>1, <2>1, <3>2, <3>3 DEF Locals, InBlock, InRequest
    <3>5. QED
      BY <2>1, <3>1, <3>2, <3>4, LocalStep
  <2>3. CASE reader' = [reader EXCEPT ![s].pc = "lock"]
    <3>1. reader' \in [Streams -> Reader]
      BY <1>1, <2>3 DEF TypeOK, Reader
    <3>2. /\ reader'[s].pc = "lock"
          /\ reader'[s].currentBlock = reader[s].currentBlock
          /\ reader'[s].counted = reader[s].counted
          /\ reader'[s].request = reader[s].request
          /\ reader'[s].count = reader[s].count
          /\ reader'[s].blockOffset = reader[s].blockOffset
          /\ \A t \in Streams \ {s} : reader'[t] = reader[t]
      BY <1>1, <2>3 DEF TypeOK, Reader
    <3>3. CurrentBlock(s)' = CurrentBlock(s) /\ blocks'[s] = blocks[s]
      BY <2>1, <3>2 DEF CurrentBlock, files
    <3>4. Locals(s)'
      BY <1>1, <2>1, <3>2, <3>3 DEF Locals, InBlock, InRequest
    <3>5. QED
      BY <2>1, <3>1, <3>2, <3>4, LocalStep
  <2>4. QED
    BY <2>1, <2>2, <2>3
<1>6. CASE AllUnusedClosed(s)
  <2>1. /\ reader[s].pc = "scan"
        /\ reader' = [reader EXCEPT ![s].pc = "lock"]
        /\ closing' = NoStream
        /\ UNCHANGED <<files, held, isOpen, counter, position, nOpenVolumes>>
    BY <1>6 DEF AllUnusedClosed, AfterClosing
  <2>2. reader' \in [Streams -> Reader]
    BY <1>1, <2>1 DEF TypeOK, Reader
  <2>3. /\ reader'[s].pc = "lock"
        /\ reader'[s].currentBlock = reader[s].currentBlock
        /\ reader'[s].counted = reader[s].counted
        /\ reader'[s].request = reader[s].request
        /\ reader'[s].count = reader[s].count /\ reader'[s].blockOffset = reader[s].blockOffset
        /\ \A t \in Streams \ {s} : reader'[t] = reader[t]
    BY <1>1, <2>1 DEF TypeOK, Reader
  <2>4. CurrentBlock(s)' = CurrentBlock(s) /\ blocks'[s] = blocks[s]
    BY <2>1, <2>3 DEF CurrentBlock, files
  <2>5. Locals(s)'
    BY <1>1, <2>1, <2>3, <2>4 DEF Locals, InBlock, InRequest
  <2>6. QED
    BY <2>1, <2>2, <2>3, <2>5, LocalStep
<1>7. CASE CloseStream(s)
  <2>1. /\ reader[s].pc = "idle"
        /\ reader' = [reader EXCEPT ![s].pc = "closed"]
        /\ UNCHANGED <<files, volumes>>
    BY <1>7 DEF CloseStream
  <2>2. reader' \in [Streams -> Reader]
    BY <1>1, <2>1 DEF TypeOK, Reader
  <2>3. reader'[s].pc = "closed" /\ reader'[s].currentBlock = reader[s].currentBlock
        /\ reader'[s].counted = reader[s].counted
        /\ \A t \in Streams \ {s} : reader'[t] = reader[t]
    BY <1>1, <2>1 DEF TypeOK, Reader
  <2>4. Locals(s)'
    BY <1>1, <2>1, <2>3 DEF Locals, files, InBlock, InRequest
  <2>5. QED
    BY <1>1, <2>1, <2>2, <2>3, <2>4, LocalStep DEF volumes, TypeOK
<1>8. QED
  BY <1>2, <1>3, <1>4, <1>5, <1>6, <1>7

-----------------------------------------------------------------------------
\* s has counted one more block, or has read one to its end: what needs a volume
\* grows or shrinks by that block.
LEMMA NeedsGrow ==
    ASSUME UNCHANGED blocks, NEW s \in Streams, NEW k, NEW v,
           NeededBlocks(s)' = NeededBlocks(s) \cup {k}, k \notin NeededBlocks(s),
           \A t \in Streams \ {s} : NeededBlocks(t)' = NeededBlocks(t)
    PROVE  /\ NeededIn(v)' = IF blocks[s][k].volumeNumber = v
                             THEN NeededIn(v) \cup {<<s, k>>} ELSE NeededIn(v)
           /\ <<s, k>> \notin NeededIn(v)
<1>1. <<s, k>> \notin NeededIn(v)
  BY NeededPairs
<1>2. CASE blocks[s][k].volumeNumber = v
  <2>1. ASSUME NEW x \in NeededIn(v)' PROVE x \in NeededIn(v) \cup {<<s, k>>}
    BY <1>2, <2>1 DEF NeededIn
  <2>2. ASSUME NEW x \in NeededIn(v) \cup {<<s, k>>} PROVE x \in NeededIn(v)'
    BY <1>2, <2>2 DEF NeededIn
  <2>3. QED
    BY <1>1, <1>2, <2>1, <2>2
<1>3. CASE blocks[s][k].volumeNumber # v
  <2>1. ASSUME NEW x \in NeededIn(v)' PROVE x \in NeededIn(v)
    BY <1>3, <2>1 DEF NeededIn
  <2>2. ASSUME NEW x \in NeededIn(v) PROVE x \in NeededIn(v)'
    BY <1>3, <2>2 DEF NeededIn
  <2>3. QED
    BY <1>1, <1>3, <2>1, <2>2
<1>4. QED
  BY <1>2, <1>3

\* A stream that leaves a block needs the volumes of the blocks that follow.
LEMMA NeedsShrink ==
    ASSUME UNCHANGED blocks, NEW s \in Streams, NEW k, NEW v,
           NeededBlocks(s)' = NeededBlocks(s) \ {k}, k \in NeededBlocks(s),
           \A t \in Streams \ {s} : NeededBlocks(t)' = NeededBlocks(t)
    PROVE  /\ NeededIn(v)' = IF blocks[s][k].volumeNumber = v
                             THEN NeededIn(v) \ {<<s, k>>} ELSE NeededIn(v)
           /\ blocks[s][k].volumeNumber = v => <<s, k>> \in NeededIn(v)
<1>1. blocks[s][k].volumeNumber = v => <<s, k>> \in NeededIn(v)
  BY NeededPairs
<1>2. CASE blocks[s][k].volumeNumber = v
  <2>1. ASSUME NEW x \in NeededIn(v)' PROVE x \in NeededIn(v) \ {<<s, k>>}
    BY <1>2, <2>1 DEF NeededIn
  <2>2. ASSUME NEW x \in NeededIn(v) \ {<<s, k>>} PROVE x \in NeededIn(v)'
    BY <1>2, <2>2 DEF NeededIn
  <2>3. QED
    BY <1>1, <1>2, <2>1, <2>2
<1>3. CASE blocks[s][k].volumeNumber # v
  <2>1. ASSUME NEW x \in NeededIn(v)' PROVE x \in NeededIn(v)
    BY <1>3, <2>1 DEF NeededIn
  <2>2. ASSUME NEW x \in NeededIn(v) PROVE x \in NeededIn(v)'
    BY <1>3, <2>2 DEF NeededIn
  <2>3. QED
    BY <1>1, <1>3, <2>1, <2>2
<1>4. QED
  BY <1>2, <1>3

\* Opening a file counts all of its blocks.
LEMMA IncrementVolumeCountersStep ==
    ASSUME IndInv, NEW s \in Streams, IncrementVolumeCounters(s)
    PROVE  IndInv'
<1>1. /\ reader[s] \in Reader /\ Locals(s) /\ TypeOK
      /\ blocks[s] \in Seq(Block) /\ reader[s].pc = "counting"
      /\ UNCHANGED <<files, held, isOpen, position, nOpenVolumes, closing>>
  BY DEF IndInv, TypeOK, IncrementVolumeCounters
<1>2. CASE reader[s].counted = Len(blocks[s])
  <2>1. reader' = [reader EXCEPT ![s].pc = "idle"] /\ UNCHANGED counter
    BY <1>2 DEF IncrementVolumeCounters
  <2>2. reader' \in [Streams -> Reader]
    BY <1>1, <2>1 DEF TypeOK, Reader
  <2>3. reader'[s].pc = "idle" /\ reader'[s].currentBlock = reader[s].currentBlock
        /\ reader'[s].counted = reader[s].counted
        /\ \A t \in Streams \ {s} : reader'[t] = reader[t]
    BY <1>1, <2>1 DEF TypeOK, Reader
  <2>4. Locals(s)'
    BY <1>1, <1>2, <2>3 DEF Locals, files, InBlock, InRequest
  <2>5. QED
    BY <1>1, <2>1, <2>2, <2>3, <2>4, LocalStep DEF TypeOK
<1>3. CASE reader[s].counted # Len(blocks[s])
  <2>1. PICK k : k = reader[s].counted + 1
    OBVIOUS
  <2>2. reader[s].counted \in Nat /\ reader[s].currentBlock = 1
    BY <1>1 DEF Reader, Locals
  <2>3. k \in 1..Len(blocks[s])
    BY <1>1, <1>3, <2>1, <2>2 DEF Locals
  <2>4. blocks[s][k] \in Block
    BY <1>1, <2>3
  <2>5. PICK v \in Volumes : v = blocks[s][k].volumeNumber
    BY <2>4 DEF Block
  <2>6. /\ counter' = [counter EXCEPT ![v] = @ + 1]
        /\ reader' = [reader EXCEPT ![s].counted = @ + 1]
    BY <1>3, <2>1, <2>5 DEF IncrementVolumeCounters, IncrementVolumeCount
  <2>7. reader' = [reader EXCEPT ![s].counted = k]
    BY <2>1, <2>6
  <2>8. k \in Nat
    BY <2>1, <2>2
  <2>9. reader' \in [Streams -> Reader]
    BY <1>1, <2>7, <2>8 DEF TypeOK, Reader
  <2>10. reader'[s].pc = "counting" /\ reader'[s].currentBlock = 1
        /\ reader'[s].counted = k
        /\ \A t \in Streams \ {s} : reader'[t] = reader[t]
    BY <1>1, <2>2, <2>7 DEF TypeOK, Reader
  <2>11. TypeOK'
    <3>1. counter' \in [Volumes -> Nat]
      BY <1>1, <2>6 DEF TypeOK
    <3>2. QED
      BY <1>1, <2>9, <3>1 DEF TypeOK, files
  <2>12. \A t \in Streams : Locals(t)'
    <3>1. Locals(s)'
      BY <1>1, <2>3, <2>10 DEF Locals, files, InBlock, InRequest
    <3>2. QED
      BY <1>1, <2>10, <3>1, OthersKeep DEF IndInv
  <2>13. ReaderHasVolume'
    <3>1. reader[s].pc # "read" /\ reader'[s].pc # "read"
      BY <1>1, <2>10
    <3>2. QED
      BY <1>1, <2>10, <3>1, VolumesStayHeld DEF IndInv
  <2>14. Counted'
    <3>1. NeededBlocks(s) = 1..(k - 1) /\ NeededBlocks(s)' = 1..k
      BY <2>1, <2>2, <2>10 DEF NeededBlocks
    <3>2. NeededBlocks(s)' = NeededBlocks(s) \cup {k} /\ k \notin NeededBlocks(s)
      BY <2>3, <2>8, <3>1
    <3>3. \A t \in Streams \ {s} : NeededBlocks(t)' = NeededBlocks(t)
      BY <2>10 DEF NeededBlocks
    <3>4. UNCHANGED blocks
      BY <1>1 DEF files
    <3>5. ASSUME NEW w \in Volumes
          PROVE  IsFiniteSet(NeededIn(w)') /\ counter'[w] = Cardinality(NeededIn(w)')
      <4>1. IsFiniteSet(NeededIn(w)) /\ counter[w] = Cardinality(NeededIn(w))
        BY DEF IndInv, Counted
      <4>2. CASE w = v
        <5>1. NeededIn(w)' = NeededIn(w) \cup {<<s, k>>} /\ <<s, k>> \notin NeededIn(w)
          BY <2>5, <3>2, <3>3, <3>4, <4>2, NeedsGrow
        <5>2. counter'[w] = counter[w] + 1
          BY <1>1, <2>6, <4>2 DEF TypeOK
        <5>3. QED
          BY <4>1, <5>1, <5>2, FS_AddElement
      <4>3. CASE w # v
        <5>1. NeededIn(w)' = NeededIn(w)
          BY <2>5, <3>2, <3>3, <3>4, <4>3, NeedsGrow
        <5>2. counter'[w] = counter[w]
          BY <1>1, <2>6, <4>3 DEF TypeOK
        <5>3. QED
          BY <4>1, <5>1, <5>2
      <4>4. QED
        BY <4>2, <4>3
    <3>6. QED
      BY <3>5 DEF Counted
  <2>15. OpenVolumesExact'
    BY <1>1 DEF IndInv, OpenVolumesExact
  <2>16. QED
    BY <2>11, <2>12, <2>13, <2>14, <2>15 DEF IndInv
<1>4. QED
  BY <1>2, <1>3

\* A block that was read to its end is not needed any more.
LEMMA NextBlockStep ==
    ASSUME IndInv, NEW s \in Streams, NextBlock(s)
    PROVE  IndInv'
<1>1. /\ reader[s] \in Reader /\ Locals(s) /\ TypeOK
      /\ blocks[s] \in Seq(Block) /\ reader[s].pc = "block"
      /\ UNCHANGED <<files, held, isOpen, position, nOpenVolumes, closing>>
  BY DEF IndInv, TypeOK, NextBlock
<1>2. PICK k : k = reader[s].currentBlock
  OBVIOUS
<1>3. /\ k \in 1..Len(blocks[s]) /\ k \in Nat
      /\ CurrentVolume(s) \in Volumes
      /\ reader[s].counted = Len(blocks[s])
  BY <1>1, <1>2, CurrentBlockType DEF Locals, InBlock
<1>4. PICK v \in Volumes : v = CurrentVolume(s)
  BY <1>3
<1>5. v = blocks[s][k].volumeNumber
  BY <1>2, <1>4 DEF CurrentVolume, CurrentBlock
<1>6. PICK pc : pc = IF LastBlock(s) THEN "idle" ELSE "block"
  OBVIOUS
<1>7. PICK offset : offset = IF LastBlock(s) THEN reader[s].blockOffset ELSE 0
  OBVIOUS
<1>8. /\ counter' = [counter EXCEPT ![v] = @ - 1]
      /\ reader' = [reader EXCEPT ![s].currentBlock = k + 1, ![s].blockOffset = offset,
                                  ![s].pc = pc]
  BY <1>1, <1>2, <1>4, <1>6, <1>7 DEF NextBlock, DecrementVolumeCount, TypeOK
<1>9. offset \in Nat /\ pc \in {"idle", "block"} /\ k + 1 \in Nat
      /\ (pc = "block" => k + 1 <= Len(blocks[s]))
  <2>1. reader[s].blockOffset \in Nat /\ Len(blocks[s]) \in Nat
    BY <1>1 DEF Reader
  <2>2. QED
    BY <1>2, <1>3, <1>6, <1>7, <2>1 DEF LastBlock
<1>10. reader' \in [Streams -> Reader]
  BY <1>1, <1>8, <1>9 DEF TypeOK, Reader
<1>11. /\ reader'[s].pc = pc /\ reader'[s].currentBlock = k + 1
       /\ reader'[s].counted = reader[s].counted
       /\ \A t \in Streams \ {s} : reader'[t] = reader[t]
  BY <1>1, <1>8 DEF TypeOK, Reader
<1>12. \A t \in Streams : Locals(t)'
  <2>1. Locals(s)'
    BY <1>1, <1>3, <1>9, <1>11 DEF Locals, files, InBlock, InRequest
  <2>2. QED
    BY <1>1, <1>11, <2>1, OthersKeep DEF IndInv
<1>13. ReaderHasVolume'
  <2>1. reader[s].pc # "read" /\ reader'[s].pc # "read"
    BY <1>1, <1>9, <1>11
  <2>2. QED
    BY <1>1, <1>11, <2>1, VolumesStayHeld DEF IndInv
<1>14. NeededBlocks(s) = k..Len(blocks[s]) /\ NeededBlocks(s)' = (k + 1)..Len(blocks[s])
  BY <1>2, <1>3, <1>11 DEF NeededBlocks
<1>15. NeededBlocks(s)' = NeededBlocks(s) \ {k} /\ k \in NeededBlocks(s)
  BY <1>3, <1>14
<1>16. \A t \in Streams \ {s} : NeededBlocks(t)' = NeededBlocks(t)
  BY <1>11 DEF NeededBlocks
<1>17. UNCHANGED blocks
  BY <1>1 DEF files
<1>18. ASSUME NEW w \in Volumes
       PROVE  /\ IsFiniteSet(NeededIn(w)') /\ counter'[w] = Cardinality(NeededIn(w)')
              /\ counter'[w] \in Nat
  <2>1. IsFiniteSet(NeededIn(w)) /\ counter[w] = Cardinality(NeededIn(w))
    BY DEF IndInv, Counted
  <2>2. CASE w = v
    <3>1. NeededIn(w)' = NeededIn(w) \ {<<s, k>>} /\ <<s, k>> \in NeededIn(w)
      BY <1>5, <1>15, <1>16, <1>17, <2>2, NeedsShrink
    <3>2. counter'[w] = counter[w] - 1
      BY <1>1, <1>8, <2>2 DEF TypeOK
    <3>3. /\ IsFiniteSet(NeededIn(w)')
          /\ Cardinality(NeededIn(w)') = Cardinality(NeededIn(w)) - 1
      BY <2>1, <3>1, FS_RemoveElement
    <3>4. Cardinality(NeededIn(w)') \in Nat
      BY <3>3, FS_CardinalityType
    <3>5. QED
      BY <2>1, <3>2, <3>3, <3>4
  <2>3. CASE w # v
    <3>1. NeededIn(w)' = NeededIn(w)
      BY <1>5, <1>15, <1>16, <1>17, <2>3, NeedsShrink
    <3>2. counter'[w] = counter[w] /\ counter[w] \in Nat
      BY <1>1, <1>8, <2>3 DEF TypeOK
    <3>3. QED
      BY <2>1, <3>1, <3>2
  <2>4. QED
    BY <2>2, <2>3
<1>19. Counted'
  BY <1>18 DEF Counted
<1>20. TypeOK'
  <2>1. counter' \in [Volumes -> Nat]
    BY <1>1, <1>8, <1>18 DEF TypeOK
  <2>2. QED
    BY <1>1, <1>10, <2>1 DEF TypeOK, files
<1>21. OpenVolumesExact'
  BY <1>1 DEF IndInv, OpenVolumesExact
<1>22. QED
  BY <1>12, <1>13, <1>19, <1>20, <1>21 DEF IndInv

-----------------------------------------------------------------------------
\* The open volumes are finitely many.
LEMMA OpenFinite ==
    ASSUME NEW P \in [Volumes -> BOOLEAN]
    PROVE  IsFiniteSet({v \in Volumes : P[v]})
<1>1. 0 \in Int /\ (NumVolumes - 1) \in Int
  BY SizesAssumption
<1>2. IsFiniteSet(Volumes)
  <2>1. IsFiniteSet(0..(NumVolumes - 1))
    BY <1>1, FS_Interval
  <2>2. QED
    BY <2>1 DEF Volumes
<1>3. QED
  BY <1>2, FS_Subset

\* A volume is closed that nobody holds.
LEMMA CloseUnusedVolumeStep ==
    ASSUME IndInv, NEW s \in Streams, CloseUnusedVolume(s)
    PROVE  IndInv'
<1>1. /\ reader[s] \in Reader /\ Locals(s) /\ TypeOK
      /\ reader[s].pc = "scan"
      /\ reader[s].scan < NumVolumes
      /\ reader' = [reader EXCEPT ![s].scan = @ + 1]
      /\ UNCHANGED <<files, held, counter, position, closing>>
  BY DEF IndInv, TypeOK, CloseUnusedVolume
<1>2. PICK v \in Volumes : v = reader[s].scan
  <2>1. reader[s].scan \in Nat /\ NumVolumes \in Nat
    BY <1>1, SizesAssumption DEF Reader
  <2>2. reader[s].scan \in 0..(NumVolumes - 1)
    BY <1>1, <2>1
  <2>3. QED
    BY <2>2 DEF Volumes
<1>3. /\ held[v] = NoStream
      /\ \/ /\ isOpen[v]
            /\ isOpen' = [isOpen EXCEPT ![v] = FALSE]
            /\ nOpenVolumes' = nOpenVolumes - 1
         \/ UNCHANGED <<isOpen, nOpenVolumes>>
  BY <1>2 DEF CloseUnusedVolume, UnusedVolume
<1>4. reader' \in [Streams -> Reader]
  <2>1. PICK n \in Nat : n = reader[s].scan + 1
    BY <1>1 DEF Reader
  <2>2. reader' = [reader EXCEPT ![s].scan = n]
    BY <1>1, <2>1
  <2>3. reader \in [Streams -> Reader]
    BY <1>1 DEF TypeOK
  <2>4. QED
    BY <2>1, <2>2, <2>3 DEF Reader
<1>5. /\ reader'[s].pc = "scan"
      /\ reader'[s].currentBlock = reader[s].currentBlock
      /\ reader'[s].counted = reader[s].counted
      /\ reader'[s].request = reader[s].request
      /\ reader'[s].count = reader[s].count /\ reader'[s].blockOffset = reader[s].blockOffset
      /\ \A t \in Streams \ {s} : reader'[t] = reader[t]
  BY <1>1 DEF TypeOK, Reader
<1>6. CurrentBlock(s)' = CurrentBlock(s) /\ blocks'[s] = blocks[s]
  BY <1>1, <1>5 DEF CurrentBlock, files
<1>7. \A t \in Streams : Locals(t)'
  <2>1. Locals(s)'
    BY <1>1, <1>5, <1>6 DEF Locals, InBlock, InRequest
  <2>2. QED
    BY <1>1, <1>5, <2>1, OthersKeep DEF IndInv
<1>8. ReaderHasVolume'
  <2>1. ASSUME NEW w \in Volumes, isOpen[w], held[w] # NoStream PROVE isOpen'[w]
    BY <1>1, <1>3, <2>1 DEF TypeOK
  <2>2. reader[s].pc # "read" /\ reader'[s].pc # "read"
    BY <1>1, <1>5
  <2>3. QED
    BY <1>1, <1>5, <2>1, <2>2, VolumesStayHeld DEF IndInv
<1>9. Counted'
  <2>1. \A t \in Streams : reader'[t].currentBlock = reader[t].currentBlock
                           /\ reader'[t].counted = reader[t].counted
    BY <1>5
  <2>2. QED
    BY <1>1, <2>1, SameNeeds DEF IndInv, Counted, files
<1>10. isOpen' \in [Volumes -> BOOLEAN] /\ nOpenVolumes' \in Nat /\ OpenVolumesExact'
  <2>1. CASE UNCHANGED <<isOpen, nOpenVolumes>>
    BY <1>1, <2>1 DEF IndInv, OpenVolumesExact, TypeOK
  <2>2. CASE /\ isOpen[v]
             /\ isOpen' = [isOpen EXCEPT ![v] = FALSE]
             /\ nOpenVolumes' = nOpenVolumes - 1
    <3>1. isOpen' \in [Volumes -> BOOLEAN]
      BY <1>1, <2>2 DEF TypeOK
    <3>2. {w \in Volumes : isOpen'[w]} = {w \in Volumes : isOpen[w]} \ {v}
      BY <1>1, <2>2 DEF TypeOK
    <3>3. IsFiniteSet({w \in Volumes : isOpen[w]}) /\ v \in {w \in Volumes : isOpen[w]}
      BY <1>1, <2>2, OpenFinite DEF TypeOK
    <3>4. /\ IsFiniteSet({w \in Volumes : isOpen'[w]})
          /\ Cardinality({w \in Volumes : isOpen'[w]})
                = Cardinality({w \in Volumes : isOpen[w]}) - 1
      BY <3>2, <3>3, FS_RemoveElement
    <3>5. Cardinality({w \in Volumes : isOpen'[w]}) \in Nat
      BY <3>4, FS_CardinalityType
    <3>6. QED
      BY <2>2, <3>1, <3>4, <3>5 DEF IndInv, OpenVolumesExact
  <2>3. QED
    BY <1>3, <2>1, <2>2
<1>11. TypeOK'
  BY <1>1, <1>4, <1>10 DEF TypeOK, files
<1>12. QED
  BY <1>7, <1>8, <1>9, <1>10, <1>11 DEF IndInv

\* s takes a volume that nobody holds and puts it where it wants to read.
LEMMA LockVolumeStreamStep ==
    ASSUME IndInv, NEW s \in Streams, LockVolumeStream(s)
    PROVE  IndInv'
<1>1. /\ reader[s] \in Reader /\ Locals(s) /\ TypeOK
      /\ reader[s].pc = "lock"
      /\ reader' = [reader EXCEPT ![s].pc = "read"]
      /\ UNCHANGED <<files, counter, closing>>
  BY DEF IndInv, TypeOK, LockVolumeStream
<1>2. /\ CurrentVolume(s) \in Volumes
      /\ CurrentBlock(s).offset \in Nat
      /\ reader[s].blockOffset \in Nat
  BY <1>1, CurrentBlockType DEF InBlock, Reader
<1>3. PICK v \in Volumes : v = CurrentVolume(s)
  BY <1>2
<1>4. PICK p \in Nat : p = CurrentBlock(s).offset + reader[s].blockOffset
  BY <1>2
<1>5. /\ held[v] = NoStream
      /\ held' = [held EXCEPT ![v] = s]
      /\ isOpen' = [isOpen EXCEPT ![v] = TRUE]
      /\ nOpenVolumes' = IF isOpen[v] THEN nOpenVolumes ELSE nOpenVolumes + 1
      /\ position' = [position EXCEPT ![v] = p]
  BY <1>3, <1>4 DEF LockVolumeStream, Lockable
<1>6. reader' \in [Streams -> Reader]
  BY <1>1 DEF TypeOK, Reader
<1>7. /\ reader'[s].pc = "read"
      /\ reader'[s].currentBlock = reader[s].currentBlock
      /\ reader'[s].counted = reader[s].counted
      /\ reader'[s].request = reader[s].request
      /\ reader'[s].count = reader[s].count /\ reader'[s].blockOffset = reader[s].blockOffset
      /\ \A t \in Streams \ {s} : reader'[t] = reader[t]
  BY <1>1 DEF TypeOK, Reader
<1>8. CurrentBlock(s)' = CurrentBlock(s) /\ blocks'[s] = blocks[s] /\ CurrentVolume(s)' = v
  BY <1>1, <1>3, <1>7 DEF CurrentBlock, CurrentVolume, files
<1>9. \A t \in Streams : Locals(t)'
  <2>1. Locals(s)'
    BY <1>1, <1>7, <1>8 DEF Locals, InBlock, InRequest
  <2>2. QED
    BY <1>1, <1>7, <2>1, OthersKeep DEF IndInv
<1>10. ReaderHasVolume'
  <2>1. ASSUME NEW t \in Streams, Reading(t)'
        PROVE  LET w == CurrentVolume(t)'
               IN  /\ held'[w] = t
                   /\ isOpen'[w]
                   /\ position'[w] = CurrentBlock(t)'.offset + reader'[t].blockOffset
    <3>1. CASE t = s
      BY <1>1, <1>4, <1>5, <1>7, <1>8, <3>1 DEF TypeOK
    <3>2. CASE t # s
      <4>1. /\ Reading(t) /\ CurrentVolume(t)' = CurrentVolume(t)
            /\ CurrentBlock(t)' = CurrentBlock(t) /\ reader'[t] = reader[t]
        BY <1>1, <1>7, <2>1, <3>2, OthersKeep
      <4>2. /\ held[CurrentVolume(t)] = t /\ isOpen[CurrentVolume(t)]
            /\ position[CurrentVolume(t)] = CurrentBlock(t).offset + reader[t].blockOffset
        BY <4>1 DEF ReaderHasVolume, IndInv
      <4>3. CurrentVolume(t) \in Volumes
        BY <4>1, CurrentBlockType DEF Reading, InBlock, IndInv
      <4>4. CurrentVolume(t) # v
        BY <1>5, <4>2, NoStreamAssumption
      <4>5. QED
        BY <1>1, <1>5, <4>1, <4>2, <4>3, <4>4 DEF TypeOK
    <3>3. QED
      BY <3>1, <3>2
  <2>2. ASSUME NEW w \in Volumes, held'[w] # NoStream
        PROVE  Reading(held[w])' /\ CurrentVolume(held[w])' = w
    <3>1. CASE w = v
      <4>1. held'[w] = s
        BY <1>1, <1>5, <3>1 DEF TypeOK
      <4>2. Reading(s)' /\ CurrentVolume(s)' = w
        BY <1>7, <1>8, <3>1 DEF Reading
      <4>3. QED
        BY <4>1, <4>2 DEF Reading, CurrentVolume, CurrentBlock
    <3>2. CASE w # v
      <4>1. held'[w] = held[w]
        BY <1>1, <1>5, <3>2 DEF TypeOK
      <4>2. PICK t \in Streams : t = held[w]
        BY <1>1, <2>2, <4>1 DEF TypeOK
      <4>3. Reading(t) /\ CurrentVolume(t) = w
        BY <2>2, <4>1, <4>2 DEF IndInv, ReaderHasVolume
      <4>4. t # s
        BY <1>1, <4>3 DEF Reading
      <4>5. Reading(t)' /\ CurrentVolume(t)' = w
        BY <1>1, <1>7, <4>3, <4>4, OthersKeep
      <4>6. held'[w] = t
        BY <4>1, <4>2
      <4>7. QED
        BY <4>5, <4>6 DEF Reading, CurrentVolume, CurrentBlock
    <3>3. QED
      BY <3>1, <3>2
  <2>3. QED
    BY <2>1, <2>2 DEF ReaderHasVolume
<1>11. Counted'
  <2>1. \A t \in Streams : reader'[t].currentBlock = reader[t].currentBlock
                           /\ reader'[t].counted = reader[t].counted
    BY <1>7
  <2>2. QED
    BY <1>1, <2>1, SameNeeds DEF IndInv, Counted, files
<1>12. isOpen' \in [Volumes -> BOOLEAN] /\ nOpenVolumes' \in Nat /\ OpenVolumesExact'
  <2>1. isOpen' \in [Volumes -> BOOLEAN]
    BY <1>1, <1>5 DEF TypeOK
  <2>2. {w \in Volumes : isOpen'[w]} = {w \in Volumes : isOpen[w]} \cup {v}
    BY <1>1, <1>5 DEF TypeOK
  <2>3. IsFiniteSet({w \in Volumes : isOpen[w]})
    BY <1>1, OpenFinite DEF TypeOK
  <2>4. Cardinality({w \in Volumes : isOpen'[w]})
            = IF isOpen[v] THEN Cardinality({w \in Volumes : isOpen[w]})
              ELSE Cardinality({w \in Volumes : isOpen[w]}) + 1
    BY <2>2, <2>3, FS_AddElement
  <2>5. nOpenVolumes = Cardinality({w \in Volumes : isOpen[w]}) /\ nOpenVolumes \in Nat
    BY <1>1 DEF IndInv, OpenVolumesExact, TypeOK
  <2>6. nOpenVolumes' = Cardinality({w \in Volumes : isOpen'[w]}) /\ nOpenVolumes' \in Nat
    BY <1>5, <2>4, <2>5
  <2>7. QED
    BY <2>1, <2>6 DEF OpenVolumesExact
<1>13. TypeOK'
  <2>1. held' \in [Volumes -> Streams \cup {NoStream}] /\ position' \in [Volumes -> Nat]
    BY <1>1, <1>5 DEF TypeOK
  <2>2. QED
    BY <1>1, <1>6, <1>12, <2>1 DEF TypeOK, files
<1>14. QED
  BY <1>9, <1>10, <1>11, <1>12, <1>13 DEF IndInv

\* s reads what the file has and lets go of the volume.
LEMMA ReadFromVolumeStep ==
    ASSUME IndInv, NEW s \in Streams, ReadFromVolume(s)
    PROVE  IndInv'
<1>1. /\ reader[s] \in Reader /\ Locals(s) /\ TypeOK
      /\ reader[s].pc = "read"
      /\ UNCHANGED <<files, isOpen, counter, nOpenVolumes, closing>>
  BY DEF IndInv, TypeOK, ReadFromVolume
<1>2. CurrentVolume(s) \in Volumes /\ reader[s].counted = Len(blocks[s])
      /\ reader[s].currentBlock <= Len(blocks[s])
  BY <1>1, CurrentBlockType DEF InBlock, Locals
<1>3. PICK v \in Volumes : v = CurrentVolume(s)
  BY <1>2
<1>4. PICK n : n = Available(v, reader[s].left)
  OBVIOUS
<1>5. n \in Nat /\ n <= reader[s].left
  <2>1. position[v] \in Nat /\ length[v] \in Nat /\ reader[s].left \in Nat
    BY <1>1 DEF TypeOK, Reader
  <2>2. QED
    BY <1>4, <2>1 DEF Available, AtMost
<1>6. held[v] = s
  BY <1>1, <1>3 DEF IndInv, ReaderHasVolume, Reading
<1>7. /\ held' = [held EXCEPT ![v] = NoStream]
      /\ position' = [position EXCEPT ![v] = @ + n]
  BY <1>3, <1>4 DEF ReadFromVolume
<1>8. PICK blockOffset, count \in Nat, left \in Nat, pc \in {"lock", "idle", "block"} :
        /\ reader' = [reader EXCEPT ![s].left = left, ![s].blockOffset = blockOffset,
                                    ![s].count = count, ![s].pc = pc]
        /\ pc = "lock" => blockOffset = reader[s].blockOffset /\ count = reader[s].count
        /\ blockOffset \in Nat
  <2>1. /\ reader[s].count \in Nat /\ reader[s].request \in Nat /\ reader[s].left \in Nat
        /\ reader[s].blockOffset \in Nat /\ reader[s].request <= reader[s].count
    BY <1>1 DEF Reader, Locals, InRequest
  <2>2. CASE n < reader[s].left
    <3>1. reader' = [reader EXCEPT ![s].left = @ - n, ![s].pc = "lock"]
      BY <1>3, <1>4, <2>2 DEF ReadFromVolume
    <3>2. reader[s].left - n \in Nat
      BY <1>5, <2>1, <2>2
    <3>3. reader' = [reader EXCEPT ![s].left = reader[s].left - n,
                                   ![s].blockOffset = reader[s].blockOffset,
                                   ![s].count = reader[s].count, ![s].pc = "lock"]
      BY <1>1, <3>1 DEF TypeOK, Reader
    <3>4. QED
      BY <2>1, <3>2, <3>3
  <2>3. CASE ~(n < reader[s].left)
    <3>1. PICK pc \in {"idle", "block"} :
            pc = IF reader[s].count = reader[s].request THEN "idle" ELSE "block"
      OBVIOUS
    <3>2. reader' = [reader EXCEPT ![s].left = 0,
                                   ![s].blockOffset = reader[s].blockOffset + reader[s].request,
                                   ![s].count = reader[s].count - reader[s].request,
                                   ![s].pc = pc]
      BY <1>1, <1>3, <1>4, <2>3, <3>1 DEF ReadFromVolume, OffsetAfter, TypeOK
    <3>3. /\ reader[s].count - reader[s].request \in Nat
          /\ reader[s].blockOffset + reader[s].request \in Nat
      BY <2>1
    <3>4. pc # "lock"
      BY <3>1
    <3>5. QED
      BY <3>1, <3>2, <3>3, <3>4
  <2>4. QED
    BY <2>2, <2>3
<1>9. reader' \in [Streams -> Reader]
  BY <1>1, <1>8 DEF TypeOK, Reader
<1>10. /\ reader'[s].pc = pc /\ reader'[s].currentBlock = reader[s].currentBlock
       /\ reader'[s].counted = reader[s].counted
       /\ reader'[s].request = reader[s].request
       /\ reader'[s].count = count /\ reader'[s].blockOffset = blockOffset
       /\ \A t \in Streams \ {s} : reader'[t] = reader[t]
  BY <1>1, <1>8 DEF TypeOK, Reader
<1>11. CurrentBlock(s)' = CurrentBlock(s) /\ blocks'[s] = blocks[s]
  BY <1>1, <1>10 DEF CurrentBlock, files
<1>12. \A t \in Streams : Locals(t)'
  <2>1. Locals(s)'
    <3>1. CASE pc = "lock"
      BY <1>1, <1>8, <1>10, <1>11, <3>1 DEF Locals, InBlock, InRequest
    <3>2. CASE pc # "lock"
      BY <1>1, <1>2, <1>8, <1>10, <1>11, <3>2 DEF Locals, InBlock, InRequest
    <3>3. QED
      BY <3>1, <3>2
  <2>2. QED
    BY <1>1, <1>10, <2>1, OthersKeep DEF IndInv
<1>13. ReaderHasVolume'
  <2>1. ASSUME NEW t \in Streams, Reading(t)'
        PROVE  LET w == CurrentVolume(t)'
               IN  /\ held'[w] = t
                   /\ isOpen'[w]
                   /\ position'[w] = CurrentBlock(t)'.offset + reader'[t].blockOffset
    <3>1. t # s
      BY <1>8, <1>10, <2>1 DEF Reading
    <3>2. /\ Reading(t) /\ CurrentVolume(t)' = CurrentVolume(t)
          /\ CurrentBlock(t)' = CurrentBlock(t) /\ reader'[t] = reader[t]
      BY <1>1, <1>10, <2>1, <3>1, OthersKeep
    <3>3. /\ held[CurrentVolume(t)] = t /\ isOpen[CurrentVolume(t)]
          /\ position[CurrentVolume(t)] = CurrentBlock(t).offset + reader[t].blockOffset
      BY <3>2 DEF ReaderHasVolume, IndInv
    <3>4. CurrentVolume(t) \in Volumes /\ CurrentVolume(t) # v
      BY <1>6, <3>1, <3>2, <3>3, CurrentBlockType DEF Reading, InBlock, IndInv
    <3>5. QED
      BY <1>1, <1>7, <3>2, <3>3, <3>4 DEF TypeOK
  <2>2. ASSUME NEW w \in Volumes, held'[w] # NoStream
        PROVE  Reading(held[w])' /\ CurrentVolume(held[w])' = w
    <3>1. w # v /\ held'[w] = held[w]
      BY <1>1, <1>7, <2>2 DEF TypeOK
    <3>2. PICK t \in Streams : t = held[w]
      BY <1>1, <2>2, <3>1 DEF TypeOK
    <3>3. Reading(t) /\ CurrentVolume(t) = w
      BY <2>2, <3>1, <3>2 DEF IndInv, ReaderHasVolume
    <3>4. t # s
      BY <1>3, <3>1, <3>3
    <3>5. Reading(t)' /\ CurrentVolume(t)' = w
      BY <1>1, <1>10, <3>3, <3>4, OthersKeep
    <3>6. held'[w] = t
      BY <3>1, <3>2
    <3>7. QED
      BY <3>5, <3>6 DEF Reading, CurrentVolume, CurrentBlock
  <2>3. QED
    BY <2>1, <2>2 DEF ReaderHasVolume
<1>14. Counted'
  <2>1. \A t \in Streams : reader'[t].currentBlock = reader[t].currentBlock
                           /\ reader'[t].counted = reader[t].counted
    BY <1>10
  <2>2. QED
    BY <1>1, <2>1, SameNeeds DEF IndInv, Counted, files
<1>15. OpenVolumesExact'
  BY <1>1 DEF IndInv, OpenVolumesExact
<1>16. TypeOK'
  <2>1. held' \in [Volumes -> Streams \cup {NoStream}] /\ position' \in [Volumes -> Nat]
    BY <1>1, <1>5, <1>7 DEF TypeOK
  <2>2. QED
    BY <1>1, <1>9, <2>1 DEF TypeOK, files
<1>17. QED
  BY <1>12, <1>13, <1>14, <1>15, <1>16 DEF IndInv

-----------------------------------------------------------------------------
\* At first nothing is open and no stream has counted anything.
LEMMA InitIndInv == Init => IndInv
<1> SUFFICES ASSUME Init PROVE IndInv
  OBVIOUS
<1>1. \A s \in Streams : reader[s] = [pc |-> "queued", counted |-> 0, currentBlock |-> 1,
                                      blockOffset |-> 0, count |-> 0, request |-> 0,
                                      left |-> 0, scan |-> 0]
  BY DEF Init
<1>2. TypeOK
  <2>1. blocks \in [Streams -> Seq(Block)] /\ length \in [Volumes -> Nat]
    BY LayoutsAssumption, LengthsAssumption DEF Init
  <2>2. reader \in [Streams -> Reader]
    BY DEF Init, Reader
  <2>3. QED
    BY <2>1, <2>2 DEF Init, TypeOK
<1>3. \A s \in Streams : Locals(s)
  <2> SUFFICES ASSUME NEW s \in Streams PROVE Locals(s)
    OBVIOUS
  <2>1. blocks[s] \in Seq(Block)
    BY <1>2 DEF TypeOK
  <2>2. QED
    BY <1>1, <2>1 DEF Locals, InBlock, InRequest
<1>4. ReaderHasVolume
  BY <1>1 DEF Init, ReaderHasVolume, Reading
<1>5. Counted
  <2>1. \A s \in Streams : NeededBlocks(s) = {}
    BY <1>1 DEF NeededBlocks
  <2>2. \A v \in Volumes : NeededIn(v) = {}
    BY <2>1 DEF NeededIn
  <2>3. QED
    BY <2>2, FS_EmptySet DEF Init, Counted
<1>6. OpenVolumesExact
  <2>1. {v \in Volumes : isOpen[v]} = {}
    BY DEF Init
  <2>2. QED
    BY <2>1, FS_EmptySet DEF Init, OpenVolumesExact
<1>7. QED
  BY <1>2, <1>3, <1>4, <1>5, <1>6 DEF IndInv

\* Every step of every stream keeps the invariant.
LEMMA NextIndInv == IndInv /\ [Next]_vars => IndInv'
<1> SUFFICES ASSUME IndInv, [Next]_vars PROVE IndInv'
  OBVIOUS
<1>1. ASSUME NEW s \in Streams, Step(s) PROVE IndInv'
  BY <1>1, LocalSteps, IncrementVolumeCountersStep, NextBlockStep, CloseUnusedVolumeStep,
     LockVolumeStreamStep, ReadFromVolumeStep DEF Step
<1>2. CASE UNCHANGED vars
  <2>1. UNCHANGED <<files, volumes, reader>>
    BY <1>2 DEF vars
  <2>2. TypeOK' /\ OpenVolumesExact'
    BY <2>1 DEF IndInv, TypeOK, OpenVolumesExact, files, volumes
  <2>3. \A t \in Streams : Locals(t)'
    BY <2>1, OthersKeep DEF IndInv
  <2>4. ReaderHasVolume'
    BY <2>1 DEF IndInv, ReaderHasVolume, Reading, CurrentVolume, CurrentBlock, files, volumes
  <2>5. Counted'
    BY <2>1, SameNeeds DEF IndInv, Counted, files, volumes
  <2>6. QED
    BY <2>2, <2>3, <2>4, <2>5 DEF IndInv
<1>3. QED
  BY <1>1, <1>2 DEF Next, Finished

\* The invariant holds in every reachable state.
LEMMA IndInvInvariant == Spec => []IndInv
<1>1. QED
  BY InitIndInv, NextIndInv, PTL DEF Spec

\* The variables of the read side keep their types, whatever its streams do: in
\* particular no counter and no number of open volumes is ever below zero.
THEOREM ReadingTypeCorrect == Spec => []TypeOK
<1>1. IndInv => TypeOK
  BY DEF IndInv
<1>2. QED
  BY <1>1, IndInvInvariant, PTL

\* While a thread is between LockVolumeStream and UnlockVolumeStream, its volume
\* is open, at the thread's position, and nobody else reads from it, for any
\* number of threads, volumes and blocks.
THEOREM ReadersHaveTheirVolumes == Spec => []ReaderHasVolume
<1>1. IndInv => ReaderHasVolume
  BY DEF IndInv
<1>2. QED
  BY <1>1, IndInvInvariant, PTL

\* volume.counter is the number of the blocks in that volume which streams have
\* counted and not read to their ends, for any layout of the files.
THEOREM CountersCountNeeds == Spec => []CountersExact
<1>1. IndInv => CountersExact
  BY DEF IndInv, Counted, CountersExact
<1>2. QED
  BY <1>1, IndInvInvariant, PTL

\* reading.nOpenVolumes is the number of volumes whose file is open.
THEOREM OpenVolumesAreCounted == Spec => []OpenVolumesExact
<1>1. IndInv => OpenVolumesExact
  BY DEF IndInv
<1>2. QED
  BY <1>1, IndInvInvariant, PTL

\* CloseUnusedVolumes, which tests a counter that others change, never closes a
\* volume that a stream has counted a block of and not read yet.
THEOREM NeededVolumesAreNotClosed == Spec => NeededVolumesStayOpen
<1> DEFINE Closing == \A v \in Volumes : isOpen[v] /\ ~isOpen'[v] => NeededIn(v) = {}
<1>1. IndInv /\ Next => Closing
  <2> SUFFICES ASSUME IndInv, Next, NEW v \in Volumes, isOpen[v], ~isOpen'[v]
               PROVE  NeededIn(v) = {}
    OBVIOUS
  <2>1. counter[v] = 0
    <3>1. PICK s \in Streams : Step(s)
      BY DEF Next, Finished, vars, volumes
    <3>2. isOpen \in [Volumes -> BOOLEAN]
      BY DEF IndInv, TypeOK
    <3>3. CASE CloseUnusedVolume(s)
      BY <3>2, <3>3 DEF CloseUnusedVolume, UnusedVolume
    <3>4. CASE LockVolumeStream(s)
      BY <3>2, <3>4 DEF LockVolumeStream
    <3>5. CASE ~CloseUnusedVolume(s) /\ ~LockVolumeStream(s)
      <4>1. UNCHANGED isOpen
        BY <3>1, <3>5 DEF Step, OpenFileForReading, IncrementVolumeCounters, ReadBytes,
           NextBlock, RequestFromBlock, CheckOpenVolumes, AllUnusedClosed, ReadFromVolume,
           CloseStream, volumes
      <4>2. QED
        BY <4>1
    <3>6. QED
      BY <3>3, <3>4, <3>5
  <2>2. IsFiniteSet(NeededIn(v)) /\ Cardinality(NeededIn(v)) = 0
    BY <2>1 DEF IndInv, Counted
  <2>3. QED
    BY <2>2, FS_EmptySet
<1>2. IndInv /\ [Next]_vars => [Closing]_vars
  BY <1>1
<1>3. QED
  BY <1>2, IndInvInvariant, PTL DEF Spec, NeededVolumesStayOpen

-----------------------------------------------------------------------------
\* How many unused volumes can be open.  A reader that passed the check can leave one
\* more behind, at the end of its block, and none before it passes the check again.
Unused == {v \in Volumes : isOpen[v] /\ counter[v] = 0}
\* The streams that have passed the check within the block they are at.
Passed == {s \in Streams :
    \/ reader[s].pc \in {"lock", "read"}
    \/ reader[s].pc \in {"idle", "block"} /\ reader[s].blockOffset > 0 /\ ~IsAtEnd(s)}
\* The unused volumes that the scan of a stream has passed.
Behind(s) == {v \in Unused : v < reader[s].scan}

Bounded ==
    /\ IsFiniteSet(Running) /\ Cardinality(Running) <= NumThreads
    /\ \A s \in Streams : reader[s].pc = "scan" <=> closing = s
    /\ \A s \in Streams : reader[s].pc \in {"queued", "counting"} => reader[s].blockOffset = 0
    /\ Cardinality(Unused) + Cardinality(Passed) <= MaxOpenVolumes + NumThreads
    /\ \A s \in Streams : reader[s].pc = "scan" =>
        Cardinality(Behind(s)) + Cardinality(Passed) < NumThreads

\* Fewer elements, and one element less or more, in numbers.
LEMMA Fewer ==
    ASSUME NEW S, NEW T, T \subseteq S, IsFiniteSet(S)
    PROVE  /\ IsFiniteSet(T) /\ Cardinality(T) \in Nat /\ Cardinality(S) \in Nat
           /\ Cardinality(T) <= Cardinality(S)
           /\ \A x \in S : x \notin T => Cardinality(T) < Cardinality(S)
<1>1. IsFiniteSet(T) /\ Cardinality(T) <= Cardinality(S)
  BY FS_Subset
<1>2. Cardinality(T) \in Nat /\ Cardinality(S) \in Nat
  BY <1>1, FS_CardinalityType
<1>3. Cardinality(S) = Cardinality(T) => S = T
  BY FS_Subset
<1>4. QED
  BY <1>1, <1>2, <1>3

\* A set with at most one new element has at most one element more.
LEMMA OneMore ==
    ASSUME NEW S, NEW T, NEW x, T \subseteq S \cup {x}, IsFiniteSet(S)
    PROVE  /\ IsFiniteSet(T) /\ Cardinality(T) \in Nat /\ Cardinality(S) \in Nat
           /\ Cardinality(T) <= Cardinality(S) + 1
<1>1. /\ IsFiniteSet(S \cup {x})
      /\ Cardinality(S \cup {x}) = IF x \in S THEN Cardinality(S) ELSE Cardinality(S) + 1
  BY FS_AddElement
<1>2. /\ IsFiniteSet(T) /\ Cardinality(T) \in Nat
      /\ Cardinality(T) <= Cardinality(S \cup {x})
  BY <1>1, Fewer
<1>3. Cardinality(S) \in Nat
  BY FS_CardinalityType
<1>4. QED
  BY <1>1, <1>2, <1>3

\* The sets that are counted are finite; who passed the check runs.
LEMMA BoundedTypes ==
    ASSUME TypeOK
    PROVE  /\ IsFiniteSet(Unused) /\ Cardinality(Unused) \in Nat
           /\ OpenVolumesExact => Cardinality(Unused) <= nOpenVolumes
           /\ \A s \in Streams : IsFiniteSet(Behind(s)) /\ Cardinality(Behind(s)) \in Nat
           /\ Passed \subseteq Running
           /\ IsFiniteSet(Running) => IsFiniteSet(Passed) /\ Cardinality(Passed) \in Nat
<1>1. IsFiniteSet({v \in Volumes : isOpen[v]})
  BY OpenFinite DEF TypeOK
<1>2. /\ IsFiniteSet(Unused) /\ Cardinality(Unused) \in Nat
      /\ Cardinality(Unused) <= Cardinality({v \in Volumes : isOpen[v]})
  BY <1>1, Fewer DEF Unused
<1>3. \A s \in Streams : IsFiniteSet(Behind(s)) /\ Cardinality(Behind(s)) \in Nat
  BY <1>2, Fewer DEF Behind
<1>4. Passed \subseteq Running
  BY DEF Passed, Running
<1>5. IsFiniteSet(Running) => IsFiniteSet(Passed) /\ Cardinality(Passed) \in Nat
  BY <1>4, Fewer
<1>6. QED
  BY <1>2, <1>3, <1>4, <1>5 DEF OpenVolumesExact

\* Fewer streams run.
LEMMA FewerRun ==
    ASSUME Bounded, Running' \subseteq Running
    PROVE  IsFiniteSet(Running') /\ Cardinality(Running') <= NumThreads
<1>1. IsFiniteSet(Running) /\ Cardinality(Running) <= NumThreads
  BY DEF Bounded
<1>2. /\ IsFiniteSet(Running') /\ Cardinality(Running') \in Nat
      /\ Cardinality(Running) \in Nat /\ Cardinality(Running') <= Cardinality(Running)
  BY <1>1, Fewer
<1>3. QED
  BY <1>1, <1>2, SizesAssumption

\* A step after which no more volumes are unused and no more streams passed the check.
LEMMA NoneGrow ==
    ASSUME TypeOK, TypeOK', Bounded,
           IsFiniteSet(Running') /\ Cardinality(Running') <= NumThreads,
           Passed' \subseteq Passed, Unused' \subseteq Unused,
           UNCHANGED closing,
           \A s \in Streams :
                /\ reader'[s].pc = "scan" <=> reader[s].pc = "scan"
                /\ reader'[s].scan = reader[s].scan
                /\ reader'[s].pc \in {"queued", "counting"} => reader'[s].blockOffset = 0
    PROVE  Bounded'
<1>1. /\ Cardinality(Unused') \in Nat /\ Cardinality(Unused) \in Nat
      /\ Cardinality(Unused') <= Cardinality(Unused)
  BY BoundedTypes, Fewer
<1>2. /\ Cardinality(Passed') \in Nat /\ Cardinality(Passed) \in Nat
      /\ Cardinality(Passed') <= Cardinality(Passed)
  <2>1. IsFiniteSet(Passed)
    BY BoundedTypes DEF Bounded
  <2>2. QED
    BY <2>1, Fewer
<1>3. ASSUME NEW s \in Streams, reader'[s].pc = "scan"
      PROVE  Cardinality(Behind(s)') + Cardinality(Passed') < NumThreads
  <2>1. Behind(s)' \subseteq Behind(s)
    BY DEF Behind
  <2>2. IsFiniteSet(Behind(s))
    BY BoundedTypes
  <2>3. /\ Cardinality(Behind(s)') \in Nat /\ Cardinality(Behind(s)) \in Nat
        /\ Cardinality(Behind(s)') <= Cardinality(Behind(s))
    BY <2>1, <2>2, Fewer
  <2>4. Cardinality(Behind(s)) + Cardinality(Passed) < NumThreads
    BY <1>3 DEF Bounded
  <2>5. QED
    BY <1>2, <2>3, <2>4, SizesAssumption
<1>4. Cardinality(Unused') + Cardinality(Passed') <= MaxOpenVolumes + NumThreads
  BY <1>1, <1>2, SizesAssumption DEF Bounded
<1>5. \A s \in Streams : reader'[s].pc = "scan" <=> closing' = s
  BY DEF Bounded
<1>6. QED
  BY <1>3, <1>4, <1>5 DEF Bounded

\* What the sets are when only s has moved, and it has not moved the volumes.
LEMMA OnlyOneMoves ==
    ASSUME NEW s \in Streams, UNCHANGED blocks,
           \A t \in Streams \ {s} : reader'[t] = reader[t]
    PROVE  /\ \A t \in Streams \ {s} : /\ t \in Running' <=> t \in Running
                                       /\ t \in Passed' <=> t \in Passed
           /\ reader'[s].pc \in {"queued", "closed"} \/ s \in Running =>
                Running' \subseteq Running
           /\ s \in Passed \/ s \notin Passed' => Passed' \subseteq Passed
<1>1. \A t \in Streams \ {s} : IsAtEnd(t)' <=> IsAtEnd(t)
  BY DEF IsAtEnd
<1>2. \A t \in Streams \ {s} : /\ t \in Running' <=> t \in Running
                               /\ t \in Passed' <=> t \in Passed
  BY <1>1 DEF Running, Passed
<1>3. Running' \subseteq Streams /\ Passed' \subseteq Streams
  BY DEF Running, Passed
<1>4. s \in Running' => reader'[s].pc \notin {"queued", "closed"}
  BY DEF Running
<1>5. QED
  BY <1>2, <1>3, <1>4

\* A volume that a stream reads from is not unused.
LEMMA CurrentIsNeeded ==
    ASSUME IndInv, NEW s \in Streams, reader[s].pc \in InBlock
    PROVE  counter[CurrentVolume(s)] # 0
<1>1. /\ TypeOK /\ Locals(s) /\ blocks[s] \in Seq(Block)
  BY DEF IndInv, TypeOK
<1>2. reader[s].currentBlock \in 1..Len(blocks[s]) /\ CurrentVolume(s) \in Volumes
  BY <1>1, CurrentBlockType
<1>3. reader[s].counted = Len(blocks[s])
  BY <1>1 DEF Locals, InBlock
<1>4. reader[s].currentBlock \in NeededBlocks(s)
  BY <1>2, <1>3 DEF NeededBlocks
<1>5. <<s, reader[s].currentBlock>> \in NeededIn(CurrentVolume(s))
  BY <1>4, NeededPairs DEF CurrentVolume, CurrentBlock
<1>6. /\ IsFiniteSet(NeededIn(CurrentVolume(s)))
      /\ counter[CurrentVolume(s)] = Cardinality(NeededIn(CurrentVolume(s)))
  BY <1>2 DEF IndInv, Counted
<1>7. QED
  BY <1>5, <1>6, FS_EmptySet

\* s has come to pc; the other streams, the blocks and the one who closes are the same.
Moves(s, pc) ==
    /\ UNCHANGED <<blocks, closing>>
    /\ \A t \in Streams \ {s} : reader'[t] = reader[t]
    /\ reader'[s].pc = pc
    /\ reader'[s].scan = reader[s].scan /\ reader'[s].currentBlock = reader[s].currentBlock

\* How these steps move s.
LEMMA QuietMoves ==
    ASSUME TypeOK, NEW s \in Streams
    PROVE  /\ OpenFileForReading(s) =>
                /\ reader[s].pc = "queued"
                /\ Moves(s, "counting") /\ reader'[s].blockOffset = reader[s].blockOffset
           /\ IncrementVolumeCounters(s) =>
                /\ reader[s].pc = "counting"
                /\ Moves(s, "counting") \/ Moves(s, "idle")
                /\ reader'[s].blockOffset = reader[s].blockOffset
           /\ \A n \in 1..MaxCall : ReadBytes(s, n) =>
                /\ reader[s].pc = "idle"
                /\ Moves(s, "block") /\ reader'[s].blockOffset = reader[s].blockOffset
           /\ RequestFromBlock(s) => reader[s].pc = "block" /\ Moves(s, "check")
           /\ LockVolumeStream(s) => reader[s].pc = "lock" /\ Moves(s, "read")
           /\ ReadFromVolume(s) =>
                /\ reader[s].pc = "read"
                /\ Moves(s, "lock") \/ Moves(s, "idle") \/ Moves(s, "block")
           /\ CloseStream(s) => reader[s].pc = "idle" /\ Moves(s, "closed")
<1>1. reader \in [Streams -> Reader]
  BY DEF TypeOK
<1>2. OpenFileForReading(s) =>
        /\ reader[s].pc = "queued"
        /\ Moves(s, "counting") /\ reader'[s].blockOffset = reader[s].blockOffset
  BY <1>1 DEF OpenFileForReading, Moves, Reader, files, volumes
<1>3. IncrementVolumeCounters(s) =>
        /\ reader[s].pc = "counting"
        /\ Moves(s, "counting") \/ Moves(s, "idle")
        /\ reader'[s].blockOffset = reader[s].blockOffset
  <2> SUFFICES ASSUME IncrementVolumeCounters(s)
               PROVE  /\ Moves(s, "counting") \/ Moves(s, "idle")
                      /\ reader'[s].blockOffset = reader[s].blockOffset
    BY DEF IncrementVolumeCounters
  <2>1. reader[s].pc = "counting" /\ UNCHANGED <<blocks, closing>>
    BY DEF IncrementVolumeCounters, files
  <2>2. \/ reader' = [reader EXCEPT ![s].pc = "idle"]
        \/ reader' = [reader EXCEPT ![s].counted = @ + 1]
    BY DEF IncrementVolumeCounters
  <2>3. CASE reader' = [reader EXCEPT ![s].pc = "idle"]
    BY <1>1, <2>1, <2>3 DEF Moves, Reader
  <2>4. CASE reader' = [reader EXCEPT ![s].counted = @ + 1]
    BY <1>1, <2>1, <2>4 DEF Moves, Reader
  <2>5. QED
    BY <2>2, <2>3, <2>4
<1>4. ASSUME NEW n \in 1..MaxCall, ReadBytes(s, n)
      PROVE  /\ reader[s].pc = "idle"
             /\ Moves(s, "block") /\ reader'[s].blockOffset = reader[s].blockOffset
  BY <1>1, <1>4 DEF ReadBytes, Moves, Reader, files, volumes
<1>5. RequestFromBlock(s) => reader[s].pc = "block" /\ Moves(s, "check")
  <2> SUFFICES ASSUME RequestFromBlock(s) PROVE Moves(s, "check")
    BY DEF RequestFromBlock
  <2>1. PICK n : reader' = [reader EXCEPT ![s].request = n, ![s].left = n, ![s].pc = "check"]
    BY DEF RequestFromBlock
  <2>2. reader[s].pc = "block" /\ UNCHANGED <<blocks, closing>>
    BY DEF RequestFromBlock, files, volumes
  <2>3. QED
    BY <1>1, <2>1, <2>2 DEF Moves, Reader
<1>6. LockVolumeStream(s) => reader[s].pc = "lock" /\ Moves(s, "read")
  BY <1>1 DEF LockVolumeStream, Moves, Reader, files
<1>7. ReadFromVolume(s) =>
        /\ reader[s].pc = "read"
        /\ Moves(s, "lock") \/ Moves(s, "idle") \/ Moves(s, "block")
  <2> SUFFICES ASSUME ReadFromVolume(s)
               PROVE  Moves(s, "lock") \/ Moves(s, "idle") \/ Moves(s, "block")
    BY DEF ReadFromVolume
  <2>1. reader[s].pc = "read" /\ UNCHANGED <<blocks, closing>>
    BY DEF ReadFromVolume, files
  <2>2. PICK left, o, c : \E pc \in {"idle", "block"} :
            \/ reader' = [reader EXCEPT ![s].left = left, ![s].pc = "lock"]
            \/ reader' = [reader EXCEPT ![s].left = 0, ![s].blockOffset = o,
                                        ![s].count = c, ![s].pc = pc]
    <3>1. PICK n : n = Available(CurrentVolume(s), reader[s].left)
      OBVIOUS
    <3>2. CASE n < reader[s].left
      <4>1. reader' = [reader EXCEPT ![s].left = reader[s].left - n, ![s].pc = "lock"]
        BY <1>1, <3>1, <3>2 DEF ReadFromVolume, Reader
      <4>2. QED
        BY <4>1
    <3>3. CASE ~(n < reader[s].left)
      <4>1. reader' = [reader EXCEPT ![s].left = 0,
                                     ![s].blockOffset = OffsetAfter(s),
                                     ![s].count = reader[s].count - reader[s].request,
                                     ![s].pc = IF reader[s].count = reader[s].request
                                               THEN "idle" ELSE "block"]
        BY <1>1, <3>1, <3>3 DEF ReadFromVolume, Reader
      <4>2. QED
        BY <4>1
    <3>4. QED
      BY <3>2, <3>3
  <2>3. QED
    BY <1>1, <2>1, <2>2 DEF Moves, Reader
<1>8. CloseStream(s) => reader[s].pc = "idle" /\ Moves(s, "closed")
  BY <1>1 DEF CloseStream, Moves, Reader, files, volumes
<1>9. QED
  BY <1>2, <1>3, <1>4, <1>5, <1>6, <1>7, <1>8

\* The steps of s after which nothing more is unused: s has not passed the check, or had.
LEMMA QuietSteps ==
    ASSUME IndInv, TypeOK', Bounded, NEW s \in Streams,
           \/ OpenFileForReading(s)
           \/ IncrementVolumeCounters(s)
           \/ \E n \in 1..MaxCall : ReadBytes(s, n)
           \/ RequestFromBlock(s)
           \/ LockVolumeStream(s)
           \/ ReadFromVolume(s)
           \/ CloseStream(s)
    PROVE  Bounded'
<1>1. TypeOK /\ reader[s] \in Reader /\ reader \in [Streams -> Reader] /\ blocks[s] \in Seq(Block)
      /\ reader[s].blockOffset \in Nat /\ Locals(s)
  BY DEF IndInv, TypeOK, Reader
<1>2. /\ UNCHANGED <<blocks, closing>>
      /\ \A t \in Streams \ {s} : reader'[t] = reader[t]
      /\ reader'[s].scan = reader[s].scan /\ reader'[s].currentBlock = reader[s].currentBlock
      /\ reader[s].pc # "scan" /\ reader'[s].pc # "scan"
  BY <1>1, QuietMoves DEF Moves
<1>3. /\ reader[s].pc # "queued" => reader'[s].pc # "queued"
      /\ reader'[s].pc \in {"queued", "counting"} =>
            reader[s].pc \in {"queued", "counting"} /\ reader'[s].blockOffset = reader[s].blockOffset
  BY <1>1, QuietMoves DEF Moves
<1>4. IsFiniteSet(Running') /\ Cardinality(Running') <= NumThreads
  <2>1. CASE OpenFileForReading(s)
    <3>1. Running' \subseteq Running \cup {s}
      BY <1>2, OnlyOneMoves DEF Running
    <3>2. IsFiniteSet(Running) /\ Cardinality(Running) < NumThreads
      BY <2>1 DEF Bounded, OpenFileForReading
    <3>3. QED
      BY <3>1, <3>2, OneMore, SizesAssumption
  <2>2. CASE ~OpenFileForReading(s)
    <3>1. s \in Running
      BY <2>2 DEF IncrementVolumeCounters, ReadBytes, RequestFromBlock,
         LockVolumeStream, ReadFromVolume, CloseStream, Running
    <3>2. QED
      BY <1>2, <3>1, OnlyOneMoves, FewerRun
  <2>3. QED
    BY <2>1, <2>2
<1>5. s \in Passed \/ s \notin Passed'
  <2>1. CASE OpenFileForReading(s) \/ IncrementVolumeCounters(s)
    <3>1. reader[s].pc \in {"queued", "counting"} /\ reader'[s].blockOffset = reader[s].blockOffset
          /\ reader'[s].pc \in {"counting", "idle"}
      BY <1>1, <2>1, QuietMoves DEF Moves
    <3>2. reader'[s].blockOffset = 0
      BY <3>1 DEF Bounded
    <3>3. QED
      BY <3>1, <3>2 DEF Passed
  <2>2. CASE \E n \in 1..MaxCall : ReadBytes(s, n)
    <3>1. reader[s].pc = "idle" /\ reader'[s].pc = "block"
          /\ reader'[s].blockOffset = reader[s].blockOffset
      BY <1>1, <2>2, QuietMoves DEF Moves
    <3>2. IsAtEnd(s)' <=> IsAtEnd(s)
      BY <1>2 DEF IsAtEnd
    <3>3. QED
      BY <3>1, <3>2 DEF Passed
  <2>3. CASE RequestFromBlock(s)
    <3>1. reader'[s].pc = "check"
      BY <1>1, <2>3, QuietMoves DEF Moves
    <3>2. QED
      BY <3>1 DEF Passed
  <2>4. CASE LockVolumeStream(s) \/ ReadFromVolume(s)
    BY <2>4 DEF LockVolumeStream, ReadFromVolume, Passed
  <2>5. CASE CloseStream(s)
    <3>1. reader'[s].pc = "closed"
      BY <1>1, <2>5, QuietMoves DEF Moves
    <3>2. QED
      BY <3>1 DEF Passed
  <2>6. QED
    BY <2>1, <2>2, <2>3, <2>4, <2>5
<1>6. Unused' \subseteq Unused
  <2>1. CASE IncrementVolumeCounters(s)
    <3>1. UNCHANGED isOpen
      BY <2>1 DEF IncrementVolumeCounters
    <3>2. PICK w : w = blocks[s][reader[s].counted + 1].volumeNumber
      OBVIOUS
    <3>3. counter' = counter \/ counter' = [counter EXCEPT ![w] = @ + 1]
      BY <2>1, <3>2 DEF IncrementVolumeCounters, IncrementVolumeCount
    <3>4. \A v \in Volumes : counter[v] \in Nat /\ (counter'[v] = counter[v] \/ counter'[v] = counter[v] + 1)
      BY <1>1, <3>3 DEF TypeOK
    <3>5. QED
      BY <3>1, <3>4 DEF Unused
  <2>2. CASE LockVolumeStream(s)
    <3>1. counter[CurrentVolume(s)] # 0 /\ UNCHANGED counter
      BY <2>2, CurrentIsNeeded DEF LockVolumeStream, InBlock
    <3>2. \A v \in Volumes : v = CurrentVolume(s) \/ isOpen'[v] = isOpen[v]
      BY <1>1, <2>2 DEF LockVolumeStream, TypeOK
    <3>3. QED
      BY <3>1, <3>2 DEF Unused
  <2>3. CASE ~IncrementVolumeCounters(s) /\ ~LockVolumeStream(s)
    <3>1. UNCHANGED <<isOpen, counter>>
      BY <2>3 DEF OpenFileForReading, ReadBytes, RequestFromBlock, ReadFromVolume, CloseStream,
         volumes
    <3>2. QED
      BY <3>1 DEF Unused
  <2>4. QED
    BY <2>1, <2>2, <2>3
<1>7. Passed' \subseteq Passed
  BY <1>2, <1>5, OnlyOneMoves
<1>8. \A t \in Streams :
        /\ reader'[t].pc = "scan" <=> reader[t].pc = "scan"
        /\ reader'[t].scan = reader[t].scan
        /\ reader'[t].pc \in {"queued", "counting"} => reader'[t].blockOffset = 0
  BY <1>2, <1>3 DEF Bounded
<1>9. QED
  BY <1>1, <1>2, <1>4, <1>6, <1>7, <1>8, NoneGrow

\* At the end of its block a stream may leave one more volume behind, and does not do
\* so again before it passes the check.
LEMMA NextBlockBounded ==
    ASSUME IndInv, TypeOK', Bounded, NEW s \in Streams, NextBlock(s)
    PROVE  Bounded'
<1>1. /\ TypeOK /\ reader \in [Streams -> Reader] /\ reader[s] \in Reader /\ Locals(s)
      /\ blocks[s] \in Seq(Block) /\ reader[s].pc = "block"
  BY DEF IndInv, TypeOK, NextBlock
<1>2. /\ CurrentBlock(s) \in Block /\ reader[s].currentBlock \in 1..Len(blocks[s])
      /\ CurrentVolume(s) \in Volumes
  BY <1>1, CurrentBlockType DEF InBlock
<1>3. PICK v \in Volumes : v = CurrentVolume(s)
  BY <1>2
<1>4. counter' = [counter EXCEPT ![v] = @ - 1] /\ UNCHANGED <<blocks, isOpen, closing>>
  BY <1>3 DEF NextBlock, DecrementVolumeCount, files
<1>5. reader[s].blockOffset >= CurrentBlock(s).size /\ reader[s].blockOffset \in Nat
      /\ CurrentBlock(s).size \in Nat \ {0}
  BY <1>1, <1>2 DEF NextBlock, Reader, Block
<1>6. PICK o \in Nat, pc \in {"idle", "block"} :
        /\ reader' = [reader EXCEPT ![s].currentBlock = @ + 1, ![s].blockOffset = o, ![s].pc = pc]
        /\ reader[s].currentBlock = Len(blocks[s]) \/ o = 0
  <2>1. reader' = [reader EXCEPT
                    ![s].currentBlock = @ + 1,
                    ![s].blockOffset = IF LastBlock(s) THEN reader[s].blockOffset ELSE 0,
                    ![s].pc = IF LastBlock(s) THEN "idle" ELSE "block"]
    BY <1>1 DEF NextBlock, Reader
  <2>2. LastBlock(s) <=> reader[s].currentBlock = Len(blocks[s])
    BY DEF LastBlock
  <2>3. CASE LastBlock(s)
    BY <1>5, <2>1, <2>2, <2>3
  <2>4. CASE ~LastBlock(s)
    BY <2>1, <2>2, <2>4
  <2>5. QED
    BY <2>3, <2>4
<1>7. /\ \A t \in Streams \ {s} : reader'[t] = reader[t]
      /\ reader'[s].scan = reader[s].scan /\ reader'[s].pc = pc /\ reader'[s].blockOffset = o
      /\ reader'[s].currentBlock = reader[s].currentBlock + 1
  BY <1>1, <1>6 DEF Reader
<1>8. s \in Passed
  <2>1. ~IsAtEnd(s)
    BY <1>1, <1>2 DEF IsAtEnd
  <2>2. QED
    BY <1>1, <1>5, <2>1 DEF Passed
<1>9. s \notin Passed'
  <2>1. reader[s].currentBlock = Len(blocks[s]) => IsAtEnd(s)'
    BY <1>1, <1>2, <1>4, <1>7 DEF IsAtEnd
  <2>2. QED
    BY <1>6, <1>7, <2>1 DEF Passed
<1>10. Passed' \subseteq Passed \ {s} /\ Running' \subseteq Running
  <2>1. s \in Running
    BY <1>1 DEF Running
  <2>2. QED
    BY <1>4, <1>7, <1>8, <1>9, <2>1, OnlyOneMoves
<1>11. IsFiniteSet(Running') /\ Cardinality(Running') <= NumThreads
  BY <1>10, FewerRun
<1>12. /\ Cardinality(Passed') \in Nat /\ Cardinality(Passed) \in Nat
       /\ Cardinality(Passed') < Cardinality(Passed)
  <2>1. IsFiniteSet(Passed)
    BY <1>1, BoundedTypes DEF Bounded
  <2>2. QED
    BY <1>8, <1>9, <1>10, <2>1, Fewer
<1>13. Unused' \subseteq Unused \cup {v}
  <2>1. \A w \in Volumes \ {v} : counter'[w] = counter[w]
    BY <1>1, <1>4 DEF TypeOK
  <2>2. QED
    BY <1>4, <2>1 DEF Unused
<1>14. /\ Cardinality(Unused') \in Nat /\ Cardinality(Unused) \in Nat
       /\ Cardinality(Unused') <= Cardinality(Unused) + 1
  BY <1>1, <1>13, BoundedTypes, OneMore
<1>15. ASSUME NEW t \in Streams, reader'[t].pc = "scan"
       PROVE  Cardinality(Behind(t)') + Cardinality(Passed') < NumThreads
  <2>1. reader'[t] = reader[t]
    BY <1>7, <1>15
  <2>2. Behind(t)' \subseteq Behind(t) \cup {v}
    BY <1>13, <2>1 DEF Behind
  <2>3. /\ Cardinality(Behind(t)') \in Nat /\ Cardinality(Behind(t)) \in Nat
        /\ Cardinality(Behind(t)') <= Cardinality(Behind(t)) + 1
    BY <1>1, <2>2, BoundedTypes, OneMore
  <2>4. Cardinality(Behind(t)) + Cardinality(Passed) < NumThreads
    BY <1>15, <2>1 DEF Bounded
  <2>5. QED
    BY <1>12, <2>3, <2>4, SizesAssumption
<1>16. Cardinality(Unused') + Cardinality(Passed') <= MaxOpenVolumes + NumThreads
  <2>1. Cardinality(Unused) + Cardinality(Passed) <= MaxOpenVolumes + NumThreads
    BY DEF Bounded
  <2>2. QED
    BY <1>12, <1>14, <2>1, SizesAssumption
<1>17. \A t \in Streams :
            /\ reader'[t].pc = "scan" <=> closing' = t
            /\ reader'[t].pc \in {"queued", "counting"} => reader'[t].blockOffset = 0
  BY <1>1, <1>4, <1>7 DEF Bounded
<1>18. QED
  BY <1>11, <1>15, <1>16, <1>17 DEF Bounded

\* A stream passes the check when there are few open volumes, or starts to close.
LEMMA CheckBounded ==
    ASSUME IndInv, TypeOK', Bounded, NEW s \in Streams, CheckOpenVolumes(s)
    PROVE  Bounded'
<1>1. /\ TypeOK /\ reader \in [Streams -> Reader] /\ reader[s] \in Reader
      /\ reader[s].pc = "check" /\ closing = NoStream /\ OpenVolumesExact
      /\ UNCHANGED <<blocks, isOpen, counter>> /\ nOpenVolumes \in Nat
  BY DEF IndInv, TypeOK, CheckOpenVolumes, files
<1>2. \A t \in Streams : reader[t].pc # "scan"
  BY <1>1, NoStreamAssumption DEF Bounded
<1>3. Unused' = Unused
  BY <1>1 DEF Unused
<1>4. s \in Running /\ s \notin Passed /\ Passed \subseteq Running
  BY <1>1, BoundedTypes DEF Running, Passed
<1>5. /\ IsFiniteSet(Running) /\ Cardinality(Running) <= NumThreads
      /\ IsFiniteSet(Passed) /\ Cardinality(Passed) \in Nat /\ Cardinality(Running) \in Nat
      /\ Cardinality(Passed) < Cardinality(Running)
  <2>1. IsFiniteSet(Running) /\ Cardinality(Running) <= NumThreads
    BY DEF Bounded
  <2>2. QED
    BY <1>4, <2>1, Fewer
<1>6. Cardinality(Unused) \in Nat
  <2>1. TypeOK
    BY <1>1
  <2>2. QED
    BY ONLY <2>1, BoundedTypes
<1>7. CASE nOpenVolumes > MaxOpenVolumes
  <2>1. reader' = [reader EXCEPT ![s].pc = "scan", ![s].scan = 0] /\ closing' = s
    BY <1>7 DEF CheckOpenVolumes
  <2>2. /\ \A t \in Streams \ {s} : reader'[t] = reader[t]
        /\ reader'[s].pc = "scan" /\ reader'[s].scan = 0
    BY <1>1, <2>1 DEF Reader
  <2>3. Running' \subseteq Running /\ Passed' \subseteq Passed
    <3>1. s \notin Passed'
      BY <2>2 DEF Passed
    <3>2. QED
      BY <1>1, <1>4, <2>2, <3>1, OnlyOneMoves
  <2>4. IsFiniteSet(Running') /\ Cardinality(Running') <= NumThreads
    BY <2>3, FewerRun
  <2>5. Cardinality(Passed') \in Nat /\ Cardinality(Passed') <= Cardinality(Passed)
    BY <1>5, <2>3, Fewer
  <2>6. Cardinality(Unused') + Cardinality(Passed') <= MaxOpenVolumes + NumThreads
    <3>1. Cardinality(Unused) + Cardinality(Passed) <= MaxOpenVolumes + NumThreads
      BY DEF Bounded
    <3>2. QED
      BY <1>3, <1>5, <1>6, <2>5, <3>1, SizesAssumption
  <2>7. Cardinality(Behind(s)') = 0
    <3>1. Behind(s)' = {}
      BY <1>3, <2>2 DEF Behind, Unused, Volumes
    <3>2. QED
      BY <3>1, FS_EmptySet
  <2>8. \A t \in Streams : reader'[t].pc = "scan" <=> t = s
    BY <1>2, <2>2
  <2>9. Cardinality(Behind(s)') + Cardinality(Passed') < NumThreads
    BY <1>5, <2>5, <2>7, SizesAssumption
  <2>10. \A t \in Streams :
            reader'[t].pc \in {"queued", "counting"} => reader'[t].blockOffset = 0
    BY <2>2 DEF Bounded
  <2>11. \A t \in Streams : reader'[t].pc = "scan" =>
            Cardinality(Behind(t)') + Cardinality(Passed') < NumThreads
    BY <2>8, <2>9
  <2>12. QED
    BY <2>1, <2>4, <2>6, <2>8, <2>10, <2>11 DEF Bounded
<1>8. CASE ~(nOpenVolumes > MaxOpenVolumes)
  <2>1. reader' = [reader EXCEPT ![s].pc = "lock"] /\ closing' = NoStream
    BY <1>1, <1>8 DEF CheckOpenVolumes
  <2>2. /\ \A t \in Streams \ {s} : reader'[t] = reader[t]
        /\ reader'[s].pc = "lock"
    BY <1>1, <2>1 DEF Reader
  <2>3. Running' \subseteq Running /\ Passed' \subseteq Passed \cup {s}
    <3>1. \A t \in Passed' : t \in Streams
      BY DEF Passed
    <3>2. QED
      BY <1>1, <1>4, <2>2, <3>1, OnlyOneMoves
  <2>4. IsFiniteSet(Running') /\ Cardinality(Running') <= NumThreads
    BY <2>3, FewerRun
  <2>5. Cardinality(Passed') \in Nat /\ Cardinality(Passed') <= Cardinality(Passed) + 1
    BY <1>5, <2>3, OneMore
  <2>6. Cardinality(Unused') <= MaxOpenVolumes
    BY <1>1, <1>3, <1>6, <1>8, BoundedTypes, SizesAssumption
  <2>7. Cardinality(Unused') + Cardinality(Passed') <= MaxOpenVolumes + NumThreads
    BY <1>3, <1>5, <1>6, <2>5, <2>6, SizesAssumption
  <2>8. \A t \in Streams :
            /\ reader'[t].pc # "scan"
            /\ reader'[t].pc \in {"queued", "counting"} => reader'[t].blockOffset = 0
    BY <1>2, <2>2 DEF Bounded
  <2>9. QED
    BY <2>1, <2>4, <2>7, <2>8, NoStreamAssumption DEF Bounded
<1>9. QED
  BY <1>7, <1>8

\* It closes the next volume, if it is unused: of those behind it no more are unused.
LEMMA CloseBounded ==
    ASSUME IndInv, TypeOK', Bounded, NEW s \in Streams, CloseUnusedVolume(s)
    PROVE  Bounded'
<1>1. /\ TypeOK /\ reader \in [Streams -> Reader] /\ reader[s] \in Reader
      /\ reader[s].pc = "scan" /\ reader[s].scan \in Nat
      /\ UNCHANGED <<blocks, counter, closing>>
      /\ reader' = [reader EXCEPT ![s].scan = @ + 1]
  BY DEF IndInv, TypeOK, Reader, CloseUnusedVolume, files
<1>2. PICK v \in Nat : v = reader[s].scan
  BY <1>1
<1>3. isOpen' = IF UnusedVolume(v) THEN [isOpen EXCEPT ![v] = FALSE] ELSE isOpen
  BY <1>2 DEF CloseUnusedVolume
<1>4. /\ \A t \in Streams \ {s} : reader'[t] = reader[t]
      /\ reader'[s].pc = "scan" /\ reader'[s].scan = v + 1
  BY <1>1, <1>2 DEF Reader
<1>5. Unused' \subseteq Unused /\ v \notin Unused'
  <2>1. \A w \in Volumes : /\ isOpen'[w] => isOpen[w]
                           /\ w = v => ~(isOpen'[w] /\ counter[w] = 0)
    BY <1>1, <1>3 DEF TypeOK, UnusedVolume
  <2>2. Unused' = {w \in Volumes : isOpen'[w] /\ counter[w] = 0}
    BY <1>1 DEF Unused
  <2>3. Unused' \subseteq Unused
    BY <2>1, <2>2 DEF Unused
  <2>4. v \notin Unused'
    BY <2>1, <2>2
  <2>5. QED
    BY <2>3, <2>4
<1>6. Running' \subseteq Running /\ Passed' \subseteq Passed
  <2>1. s \in Running /\ s \notin Passed'
    BY <1>1, <1>4 DEF Running, Passed
  <2>2. QED
    BY <1>1, <1>4, <2>1, OnlyOneMoves
<1>7. IsFiniteSet(Running') /\ Cardinality(Running') <= NumThreads
  BY <1>6, FewerRun
<1>8. /\ Cardinality(Unused') \in Nat /\ Cardinality(Unused) \in Nat
      /\ Cardinality(Unused') <= Cardinality(Unused)
  BY <1>1, <1>5, BoundedTypes, Fewer
<1>9. /\ Cardinality(Passed') \in Nat /\ Cardinality(Passed) \in Nat
      /\ Cardinality(Passed') <= Cardinality(Passed)
  <2>1. IsFiniteSet(Passed)
    BY <1>1, BoundedTypes DEF Bounded
  <2>2. QED
    BY <1>6, <2>1, Fewer
<1>10. \A t \in Streams :
            /\ reader'[t].pc = "scan" <=> closing' = t
            /\ reader'[t].pc \in {"queued", "counting"} => reader'[t].blockOffset = 0
  BY <1>1, <1>4 DEF Bounded
<1>11. ASSUME NEW t \in Streams, reader'[t].pc = "scan"
       PROVE  Cardinality(Behind(t)') + Cardinality(Passed') < NumThreads
  <2>1. t = s
    BY <1>1, <1>10, <1>11 DEF Bounded
  <2>2. Behind(t)' \subseteq Behind(t)
    <3>1. \A w \in Volumes : w < v + 1 => w < v \/ w = v
      BY DEF Volumes
    <3>2. QED
      BY <1>2, <1>4, <1>5, <2>1, <3>1 DEF Behind, Unused
  <2>3. /\ Cardinality(Behind(t)') \in Nat /\ Cardinality(Behind(t)) \in Nat
        /\ Cardinality(Behind(t)') <= Cardinality(Behind(t))
    BY <1>1, <2>2, BoundedTypes, Fewer
  <2>4. Cardinality(Behind(t)) + Cardinality(Passed) < NumThreads
    BY <1>1, <2>1 DEF Bounded
  <2>5. QED
    BY <1>9, <2>3, <2>4, SizesAssumption
<1>12. Cardinality(Unused') + Cardinality(Passed') <= MaxOpenVolumes + NumThreads
  <2>1. Cardinality(Unused) + Cardinality(Passed) <= MaxOpenVolumes + NumThreads
    BY DEF Bounded
  <2>2. QED
    BY <1>8, <1>9, <2>1, SizesAssumption
<1>13. QED
  BY <1>7, <1>10, <1>11, <1>12 DEF Bounded

\* At the end of its loop all volumes are behind it, and it passes the check.
LEMMA AllClosedBounded ==
    ASSUME IndInv, TypeOK', Bounded, NEW s \in Streams, AllUnusedClosed(s)
    PROVE  Bounded'
<1>1. /\ TypeOK /\ reader \in [Streams -> Reader] /\ reader[s] \in Reader
      /\ reader[s].pc = "scan" /\ reader[s].scan = NumVolumes
      /\ UNCHANGED <<blocks, counter, isOpen>> /\ closing' = NoStream
      /\ reader' = [reader EXCEPT ![s].pc = "lock"]
  BY DEF IndInv, TypeOK, AllUnusedClosed, AfterClosing, files
<1>2. /\ \A t \in Streams \ {s} : reader'[t] = reader[t]
      /\ reader'[s].pc = "lock"
  BY <1>1 DEF Reader
<1>3. Unused' = Unused /\ Behind(s) = Unused
  BY <1>1, SizesAssumption DEF Unused, Behind, Volumes
<1>4. Running' \subseteq Running /\ Passed' \subseteq Passed \cup {s}
  <2>1. s \in Running
    BY <1>1 DEF Running
  <2>2. \A t \in Passed' : t \in Streams
    BY DEF Passed
  <2>3. QED
    BY <1>1, <1>2, <2>1, <2>2, OnlyOneMoves
<1>5. IsFiniteSet(Running') /\ Cardinality(Running') <= NumThreads
  BY <1>4, FewerRun
<1>6. /\ Cardinality(Passed') \in Nat /\ Cardinality(Passed) \in Nat
      /\ Cardinality(Passed') <= Cardinality(Passed) + 1
  <2>1. IsFiniteSet(Passed)
    BY <1>1, BoundedTypes DEF Bounded
  <2>2. QED
    BY <1>4, <2>1, OneMore
<1>7. Cardinality(Unused) \in Nat /\ Cardinality(Unused) + Cardinality(Passed) < NumThreads
  BY <1>1, <1>3, BoundedTypes DEF Bounded
<1>8. Cardinality(Unused') + Cardinality(Passed') <= MaxOpenVolumes + NumThreads
  BY <1>3, <1>6, <1>7, SizesAssumption
<1>9. \A t \in Streams :
            /\ reader'[t].pc # "scan"
            /\ reader'[t].pc \in {"queued", "counting"} => reader'[t].blockOffset = 0
  BY <1>1, <1>2 DEF Bounded
<1>10. QED
  BY <1>1, <1>5, <1>8, <1>9, NoStreamAssumption DEF Bounded

\* The bound in every state.
LEMMA BoundedInvariant == Spec => []Bounded
<1>1. Init => Bounded
  <2> SUFFICES ASSUME Init PROVE Bounded
    OBVIOUS
  <2>1. \A s \in Streams : reader[s].pc = "queued" /\ reader[s].blockOffset = 0
    BY DEF Init
  <2>2. Running = {} /\ Passed = {}
    BY <2>1 DEF Running, Passed
  <2>3. Unused = {}
    BY DEF Init, Unused
  <2>4. closing = NoStream
    BY DEF Init
  <2>5. QED
    BY <2>1, <2>2, <2>3, <2>4, FS_EmptySet, SizesAssumption, NoStreamAssumption DEF Bounded
<1>2. IndInv /\ IndInv' /\ Bounded /\ [Next]_vars => Bounded'
  <2> SUFFICES ASSUME IndInv, IndInv', Bounded, [Next]_vars PROVE Bounded'
    OBVIOUS
  <2>1. TypeOK'
    BY DEF IndInv
  <2>2. ASSUME NEW s \in Streams, Step(s) PROVE Bounded'
    BY <2>1, <2>2, QuietSteps, NextBlockBounded, CheckBounded, CloseBounded, AllClosedBounded
       DEF Step
  <2>3. CASE UNCHANGED vars
    <3>1. UNCHANGED <<blocks, reader, isOpen, counter, closing>>
      BY <2>3 DEF vars, files, volumes
    <3>2. UNCHANGED <<Running, Passed, Unused>> /\ \A s \in Streams : UNCHANGED Behind(s)
      BY <3>1 DEF Running, Passed, Unused, Behind, IsAtEnd
    <3>3. QED
      BY <3>1, <3>2 DEF Bounded
  <2>4. QED
    BY <2>2, <2>3 DEF Next, Finished
<1>3. QED
  BY <1>1, <1>2, IndInvInvariant, PTL DEF Spec

\* Of the volumes that no stream needs, at most MaxOpenVolumes and one per thread are
\* open, although the check is made before a volume is opened and under another lock.
THEOREM FewUnusedVolumesAreOpen == Spec => []UnusedVolumesBounded
<1>1. IndInv /\ Bounded => UnusedVolumesBounded
  <2> SUFFICES ASSUME IndInv, Bounded PROVE UnusedVolumesBounded
    OBVIOUS
  <2>1. Cardinality(Unused) \in Nat /\ Cardinality(Passed) \in Nat
    BY BoundedTypes DEF IndInv, Bounded
  <2>2. Cardinality(Unused) + Cardinality(Passed) <= MaxOpenVolumes + NumThreads
    BY DEF Bounded
  <2>3. Cardinality(Unused) <= MaxOpenVolumes + NumThreads
    BY <2>1, <2>2, SizesAssumption
  <2>4. QED
    BY <2>3 DEF Unused, UnusedVolumesBounded
<1>2. QED
  BY <1>1, IndInvInvariant, BoundedInvariant, PTL

-----------------------------------------------------------------------------
\* What a stream has given: all of the blocks before the one it is at, and of that one
\* what is before its offset.
Byte == Volumes \X Nat
\* The first n bytes of a block, as the volume and the position they come from.
FirstBytes(b, n) == [i \in 1..n |-> <<b.volumeNumber, b.offset + i - 1>>]

\* The bytes of the first k blocks, one block after the other.
UpTo(bs) == CHOOSE f : f = [k \in 0..Len(bs) |-> IF k = 0 THEN <<>> ELSE f[k - 1] \o BytesOf(bs[k])]

\* Each volume file is at least as long as its blocks need.
FilesComplete ==
    \A s \in Streams : \A k \in 1..Len(blocks[s]) :
        blocks[s][k].offset + blocks[s][k].size <= length[blocks[s][k].volumeNumber]

\* What a stream should have received: the blocks before its own, and the start of that.
Received(s) ==
    LET c == reader[s].currentBlock
    IN  /\ reader[s].pc \in InRequest => reader[s].left = reader[s].request
        /\ IsAtEnd(s) => received[s] = UpTo(blocks[s])[Len(blocks[s])]
        /\ ~IsAtEnd(s) =>
            /\ reader[s].blockOffset <= CurrentBlock(s).size
            /\ received[s] = UpTo(blocks[s])[c - 1]
                                \o FirstBytes(CurrentBlock(s), reader[s].blockOffset)

\* There is a function that gives the bytes of the first k blocks.
LEMMA UpToExists ==
    ASSUME NEW bs \in Seq(Block)
    PROVE  UpTo(bs) = [k \in 0..Len(bs) |->
                        IF k = 0 THEN <<>> ELSE UpTo(bs)[k - 1] \o BytesOf(bs[k])]
<1> DEFINE Step_(k, before) == IF k = 0 THEN <<>> ELSE before \o BytesOf(bs[k])
           S == {n \in Nat : \E f : f = [k \in 0..n |-> Step_(k, f[k - 1])]}
<1>1. \A g, h : Step_(0, g) = Step_(0, h)
  OBVIOUS
<1>. HIDE DEF Step_
<1>2. 0 \in S
  <2> DEFINE f == [k \in 0..0 |-> Step_(0, <<>>)]
  <2>1. f = [k \in 0..0 |-> Step_(k, f[k - 1])]
    BY <1>1
  <2>2. QED
    BY <2>1
<1>3. ASSUME NEW n \in S PROVE n + 1 \in S
  <2>1. PICK g : g = [k \in 0..n |-> Step_(k, g[k - 1])]
    OBVIOUS
  <2> DEFINE f == [k \in 0..n + 1 |-> IF k = n + 1 THEN Step_(k, g[n]) ELSE g[k]]
  <2>2. \A k \in 0..n + 1 : f[k] = Step_(k, f[k - 1])
    <3>1. f[0] = g[0] /\ g[0] = Step_(0, g[0 - 1])
      BY <2>1
    <3>2. f[0] = Step_(0, f[0 - 1])
      BY <1>1, <3>1
    <3>3. \A k \in 1..n : f[k] = g[k] /\ f[k - 1] = g[k - 1] /\ g[k] = Step_(k, g[k - 1])
      BY <2>1
    <3>4. f[n + 1] = Step_(n + 1, g[n]) /\ f[n + 1 - 1] = g[n]
      OBVIOUS
    <3>5. \A k \in 0..n + 1 : k = 0 \/ k \in 1..n \/ k = n + 1
      OBVIOUS
    <3>. HIDE DEF f
    <3>6. QED
      BY <3>2, <3>3, <3>4, <3>5
  <2>3. f = [k \in 0..n + 1 |-> f[k]]
    OBVIOUS
  <2>. HIDE DEF f
  <2>4. f = [k \in 0..n + 1 |-> Step_(k, f[k - 1])]
    BY <2>2, <2>3
  <2>5. QED
    BY <2>4
<1>4. Len(bs) \in S
  <2>1. S \in SUBSET Nat /\ Len(bs) \in Nat
    OBVIOUS
  <2>. HIDE DEF S
  <2>2. QED
    BY <1>2, <1>3, <2>1, ClosedIsNat
<1>5. \E f : f = [k \in 0..Len(bs) |-> IF k = 0 THEN <<>> ELSE f[k - 1] \o BytesOf(bs[k])]
  BY <1>4 DEF Step_
<1>6. QED
  BY <1>5 DEF UpTo

\* The bytes of a block are bytes, as many as its size.
LEMMA BytesAre ==
    ASSUME NEW b \in Block, NEW n \in Nat
    PROVE  /\ FirstBytes(b, n) \in Seq(Byte) /\ Len(FirstBytes(b, n)) = n
           /\ BytesOf(b) = FirstBytes(b, b.size) /\ b.size \in Nat \ {0}
<1>1. b.volumeNumber \in Volumes /\ b.offset \in Nat /\ b.size \in Nat \ {0}
  BY DEF Block
<1>2. \A i \in 1..n : <<b.volumeNumber, b.offset + i - 1>> \in Byte
  BY <1>1 DEF Byte
<1>3. FirstBytes(b, n) \in [1..n -> Byte]
  BY <1>2 DEF FirstBytes
<1>4. FirstBytes(b, n) \in Seq(Byte) /\ Len(FirstBytes(b, n)) = n
  BY <1>3
<1>5. QED
  BY <1>1, <1>4 DEF BytesOf, FirstBytes

\* They grow block by block, and none that are before are changed.
LEMMA UpToIs ==
    ASSUME NEW bs \in Seq(Block)
    PROVE  /\ UpTo(bs)[0] = <<>>
           /\ \A k \in 0..Len(bs) : UpTo(bs)[k] \in Seq(Byte)
           /\ \A k \in 1..Len(bs) : UpTo(bs)[k] = UpTo(bs)[k - 1] \o BytesOf(bs[k])
<1>1. PICK f : f = UpTo(bs)
  OBVIOUS
<1>2. f[0] = <<>> /\ \A k \in 1..Len(bs) : f[k] = f[k - 1] \o BytesOf(bs[k])
  <2>1. f = [k \in 0..Len(bs) |-> IF k = 0 THEN <<>> ELSE f[k - 1] \o BytesOf(bs[k])]
    BY <1>1, UpToExists
  <2>2. Len(bs) \in Nat
    OBVIOUS
  <2>3. QED
    BY <2>1, <2>2
<1> DEFINE S == {n \in Nat : n <= Len(bs) => f[n] \in Seq(Byte)}
<1>3. 0 \in S
  <2>1. f[0] \in Seq(Byte)
    BY <1>2
  <2>2. QED
    BY <2>1
<1>4. ASSUME NEW n \in S PROVE n + 1 \in S
  <2> SUFFICES ASSUME n + 1 <= Len(bs) PROVE f[n + 1] \in Seq(Byte)
    OBVIOUS
  <2>1. PICK j \in 1..Len(bs) : j = n + 1 /\ j - 1 = n
    OBVIOUS
  <2>2. f[j - 1] \in Seq(Byte)
    BY <2>1
  <2>3. bs[j] \in Block
    OBVIOUS
  <2>4. BytesOf(bs[j]) \in Seq(Byte)
    <3>1. bs[j].size \in Nat
      BY <2>3, BytesAre, 0 \in Nat
    <3>2. QED
      BY <2>3, <3>1, BytesAre
  <2>5. f[j] = f[j - 1] \o BytesOf(bs[j])
    BY <1>2
  <2>6. QED
    BY <2>1, <2>2, <2>4, <2>5
<1>5. \A k \in 0..Len(bs) : f[k] \in Seq(Byte)
  <2>1. S \in SUBSET Nat
    OBVIOUS
  <2>2. S = Nat
    <3>. HIDE DEF S
    <3>1. QED
      BY <1>3, <1>4, <2>1, ClosedIsNat
  <2>3. QED
    BY <2>2
<1>6. QED
  BY <1>1, <1>2, <1>5

\* p is how t begins.
Begins(p, t) == Len(p) <= Len(t) /\ \A i \in 1..Len(p) : p[i] = t[i]

\* Nothing that follows changes how a sequence begins.
LEMMA BeginsOn ==
    ASSUME NEW T, NEW p \in Seq(T), NEW t \in Seq(T), NEW u \in Seq(T), Begins(p, t)
    PROVE  Begins(p, t \o u)
<1>1. Len(p) \in Nat /\ Len(t) \in Nat /\ Len(t \o u) = Len(t) + Len(u) /\ Len(u) \in Nat
  OBVIOUS
<1>2. \A i \in 1..Len(t) : (t \o u)[i] = t[i]
  OBVIOUS
<1>3. QED
  BY <1>1, <1>2 DEF Begins

\* What precedes a common part keeps it a beginning.
LEMMA JoinBegins ==
    ASSUME NEW T, NEW t \in Seq(T), NEW u \in Seq(T), NEW w \in Seq(T), Begins(u, w)
    PROVE  Begins(t \o u, t \o w)
<1>1. PICK m \in Nat, n \in Nat, k \in Nat : m = Len(t) /\ n = Len(u) /\ k = Len(w)
  OBVIOUS
<1>2. Len(t \o u) = m + n /\ Len(t \o w) = m + k
  BY <1>1
<1>3. n <= k /\ \A i \in 1..n : u[i] = w[i]
  BY <1>1 DEF Begins
<1>4. ASSUME NEW i \in 1..m + n PROVE (t \o u)[i] = (t \o w)[i]
  <2>1. CASE i <= m
    <3>1. (t \o u)[i] = t[i] /\ (t \o w)[i] = t[i]
      BY <1>1, <1>3, <2>1
    <3>2. QED
      BY <3>1
  <2>2. CASE ~(i <= m)
    <3>1. (t \o u)[i] = u[i - m]
      BY <1>1, <2>2
    <3>2. (t \o w)[i] = w[i - m]
      BY <1>1, <1>3, <2>2
    <3>3. i - m \in 1..n
      BY <2>2
    <3>4. QED
      BY <1>3, <3>1, <3>2, <3>3
  <2>3. QED
    BY <2>1, <2>2
<1>5. QED
  BY <1>2, <1>3, <1>4 DEF Begins

\* The bytes of the first blocks are the beginning of the bytes of all blocks.
LEMMA UpToBegins ==
    ASSUME NEW bs \in Seq(Block), NEW k \in 0..Len(bs)
    PROVE  Begins(UpTo(bs)[k], UpTo(bs)[Len(bs)])
<1>1. PICK f : f = UpTo(bs)
  OBVIOUS
<1>2. /\ \A j \in 0..Len(bs) : f[j] \in Seq(Byte)
      /\ \A j \in 1..Len(bs) : f[j] = f[j - 1] \o BytesOf(bs[j])
  BY <1>1, UpToIs
<1> DEFINE S == {n \in Nat : k + n <= Len(bs) => Begins(f[k], f[k + n])}
<1>3. 0 \in S
  <2>1. k + 0 = k
    OBVIOUS
  <2>2. Begins(f[k], f[k])
    BY <1>2 DEF Begins
  <2>3. QED
    BY <2>1, <2>2
<1>4. ASSUME NEW n \in S PROVE n + 1 \in S
  <2> SUFFICES ASSUME k + (n + 1) <= Len(bs) PROVE Begins(f[k], f[k + (n + 1)])
    OBVIOUS
  <2>1. PICK j \in 1..Len(bs) : j = k + (n + 1) /\ j - 1 = k + n
    OBVIOUS
  <2>2. j - 1 \in 0..Len(bs) /\ Begins(f[k], f[j - 1])
    BY <2>1
  <2>3. bs[j] \in Block
    OBVIOUS
  <2>4. BytesOf(bs[j]) \in Seq(Byte)
    <3>1. bs[j].size \in Nat
      BY <2>3, BytesAre, 0 \in Nat
    <3>2. QED
      BY <2>3, <3>1, BytesAre
  <2>5. /\ f[k] \in Seq(Byte) /\ f[j - 1] \in Seq(Byte)
        /\ f[j] = f[j - 1] \o BytesOf(bs[j])
    BY <1>2, <2>2
  <2>6. Begins(f[k], f[j])
    BY <2>2, <2>4, <2>5, BeginsOn
  <2>7. QED
    BY <2>1, <2>6
<1>5. S = Nat
  <2>1. S \in SUBSET Nat
    OBVIOUS
  <2>. HIDE DEF S
  <2>2. QED
    BY <1>3, <1>4, <2>1, ClosedIsNat
<1>6. PICK n \in Nat : n = Len(bs) - k /\ k + n = Len(bs)
  OBVIOUS
<1>7. Begins(f[k], f[k + n])
  <2>1. n \in S
    BY <1>5
  <2>2. k + n = Len(bs) /\ Len(bs) \in Nat
    BY <1>6
  <2>3. QED
    BY <2>1, <2>2
<1>8. QED
  BY <1>1, <1>6, <1>7

\* What the stream is to give is what is up to its last block.
LEMMA ContentIs ==
    ASSUME NEW s \in Streams
    PROVE  Content(s) = UpTo(blocks[s])[Len(blocks[s])]
BY DEF Content, UpTo

\* Whoever has received what it should has it in order, and at its end all of it.
LEMMA ReceivedIsInOrder ==
    ASSUME TypeOK, NEW s \in Streams, Locals(s), Received(s)
    PROVE  /\ Begins(received[s], Content(s))
           /\ IsAtEnd(s) => Len(received[s]) = Len(Content(s))
<1>1. PICK bs \in Seq(Block) : bs = blocks[s]
  BY DEF TypeOK
<1>2. PICK f : f = UpTo(bs) /\ Content(s) = f[Len(bs)]
  BY <1>1, ContentIs
<1>3. /\ \A j \in 0..Len(bs) : f[j] \in Seq(Byte)
      /\ \A j \in 1..Len(bs) : f[j] = f[j - 1] \o BytesOf(bs[j])
  BY <1>2, UpToIs
<1>4. PICK c \in Nat : c = reader[s].currentBlock
  BY DEF TypeOK, Reader
<1>5. 1 <= c /\ c <= Len(bs) + 1 /\ (IsAtEnd(s) <=> c > Len(bs))
  BY <1>1, <1>4 DEF Locals, IsAtEnd
<1>6. CASE IsAtEnd(s)
  <2>1. received[s] = f[Len(bs)]
    BY <1>1, <1>2, <1>6 DEF Received
  <2>2. f[Len(bs)] \in Seq(Byte)
    BY <1>3
  <2>3. QED
    BY <1>2, <2>1, <2>2 DEF Begins
<1>7. CASE ~IsAtEnd(s)
  <2>1. c \in 1..Len(bs) /\ c - 1 \in 0..Len(bs) /\ c \in 0..Len(bs)
    BY <1>5, <1>7
  <2>2. PICK b \in Block : b = bs[c] /\ b = CurrentBlock(s)
    BY <1>1, <1>4, <2>1 DEF CurrentBlock
  <2>3. PICK o \in Nat : o = reader[s].blockOffset
    BY DEF TypeOK, Reader
  <2>4. o <= b.size /\ received[s] = f[c - 1] \o FirstBytes(b, o)
    BY <1>1, <1>2, <1>4, <1>7, <2>2, <2>3 DEF Received
  <2>5. /\ FirstBytes(b, o) \in Seq(Byte) /\ Len(FirstBytes(b, o)) = o
        /\ b.size \in Nat /\ BytesOf(b) = FirstBytes(b, b.size)
    BY BytesAre
  <2>6. BytesOf(b) \in Seq(Byte) /\ Len(BytesOf(b)) = b.size
    BY <2>5, BytesAre
  <2>7. \A i \in 1..o : FirstBytes(b, o)[i] = BytesOf(b)[i]
    BY <2>4, <2>5 DEF FirstBytes
  <2>8. f[c - 1] \in Seq(Byte) /\ f[c] = f[c - 1] \o BytesOf(b)
    BY <1>3, <2>1, <2>2
  <2>9. Begins(received[s], f[c])
    <3>1. Begins(FirstBytes(b, o), BytesOf(b))
      BY <2>4, <2>5, <2>6, <2>7 DEF Begins
    <3>2. QED
      BY <2>4, <2>5, <2>6, <2>8, <3>1, JoinBegins
  <2>10. Begins(f[c], f[Len(bs)])
    BY <1>2, <2>1, UpToBegins
  <2>11. received[s] \in Seq(Byte) /\ f[c] \in Seq(Byte) /\ f[Len(bs)] \in Seq(Byte)
    <3>1. f[c - 1] \in Seq(Byte) /\ FirstBytes(b, o) \in Seq(Byte)
      BY <2>5, <2>8
    <3>2. received[s] = f[c - 1] \o FirstBytes(b, o)
      BY <2>4
    <3>3. received[s] \in Seq(Byte)
      BY <3>1, <3>2
    <3>4. Len(bs) \in 0..Len(bs)
      OBVIOUS
    <3>5. QED
      BY <1>3, <2>1, <3>3, <3>4
  <2>12. Begins(received[s], f[Len(bs)])
    <3>1. Len(received[s]) \in Nat /\ Len(f[c]) \in Nat /\ Len(f[Len(bs)]) \in Nat
      BY <2>11
    <3>2. QED
      BY <2>9, <2>10, <3>1 DEF Begins
  <2>13. QED
    BY <1>2, <1>7, <2>12
<1>8. QED
  BY <1>6, <1>7

\* It has received the same, and is at the same byte.
LEMMA SameReceived ==
    ASSUME NEW s \in Streams, UNCHANGED blocks, received'[s] = received[s],
           reader'[s].currentBlock = reader[s].currentBlock,
           reader'[s].blockOffset = reader[s].blockOffset,
           reader'[s].pc \in InRequest => reader'[s].left = reader'[s].request,
           Received(s)
    PROVE  Received(s)'
<1>1. (IsAtEnd(s)' <=> IsAtEnd(s)) /\ CurrentBlock(s)' = CurrentBlock(s)
  BY DEF IsAtEnd, CurrentBlock
<1>2. QED
  BY <1>1 DEF Received

\* The steps of s that read nothing and stay in the block.
LEMMA StaysInBlock ==
    ASSUME TypeOK, NEW s \in Streams, Received(s),
           \/ OpenFileForReading(s)
           \/ IncrementVolumeCounters(s)
           \/ \E n \in 1..MaxCall : ReadBytes(s, n)
           \/ RequestFromBlock(s)
           \/ CheckOpenVolumes(s)
           \/ CloseUnusedVolume(s)
           \/ AllUnusedClosed(s)
           \/ LockVolumeStream(s)
           \/ CloseStream(s)
    PROVE  /\ Received(s)'
           /\ UNCHANGED <<blocks, received>>
           /\ \A t \in Streams \ {s} : reader'[t] = reader[t]
<1>1. UNCHANGED <<blocks, received>>
  BY DEF OpenFileForReading, IncrementVolumeCounters, ReadBytes, RequestFromBlock,
     CheckOpenVolumes, CloseUnusedVolume, AllUnusedClosed, LockVolumeStream, CloseStream, files
<1>2. /\ reader \in [Streams -> Reader]
      /\ reader[s].pc \in InRequest => reader[s].left = reader[s].request
  BY DEF TypeOK, Received
<1> DEFINE Stays ==
        /\ \A t \in Streams \ {s} : reader'[t] = reader[t]
        /\ reader'[s].currentBlock = reader[s].currentBlock
        /\ reader'[s].blockOffset = reader[s].blockOffset
        /\ reader'[s].pc \in InRequest => reader'[s].left = reader'[s].request
<1>3. ASSUME NEW pc, reader' = [reader EXCEPT ![s].pc = pc],
             pc \in InRequest => reader[s].pc \in InRequest
      PROVE  Stays
  BY <1>2, <1>3 DEF Reader
<1>4. ASSUME NEW k, reader' = [reader EXCEPT ![s].scan = k], reader[s].pc \in InRequest
      PROVE  Stays
  BY <1>2, <1>4 DEF Reader
<1>5. CASE OpenFileForReading(s)
  BY <1>1, <1>3, <1>5, SameReceived DEF OpenFileForReading, InRequest
<1>6. CASE IncrementVolumeCounters(s)
  <2>1. /\ reader[s].pc = "counting"
        /\ \/ reader' = [reader EXCEPT ![s].pc = "idle"]
           \/ reader' = [reader EXCEPT ![s].counted = reader[s].counted + 1]
    BY <1>2, <1>6 DEF IncrementVolumeCounters, Reader
  <2>2. Stays
    BY <1>2, <2>1 DEF Reader, InRequest
  <2>3. QED
    BY <1>1, <2>2, SameReceived
<1>7. CASE \E n \in 1..MaxCall : ReadBytes(s, n)
  <2>1. PICK n : reader' = [reader EXCEPT ![s].pc = "block", ![s].count = n]
    BY <1>7 DEF ReadBytes
  <2>2. Stays
    BY <1>2, <2>1 DEF Reader, InRequest
  <2>3. QED
    BY <1>1, <2>2, SameReceived
<1>8. CASE RequestFromBlock(s)
  <2>1. PICK n : reader' = [reader EXCEPT ![s].request = n, ![s].left = n, ![s].pc = "check"]
    BY <1>8 DEF RequestFromBlock
  <2>2. Stays
    BY <1>2, <2>1 DEF Reader
  <2>3. QED
    BY <1>1, <2>2, SameReceived
<1>9. CASE CheckOpenVolumes(s)
  <2>1. /\ reader[s].pc \in InRequest
        /\ \/ reader' = [reader EXCEPT ![s].pc = "scan", ![s].scan = 0]
           \/ reader' = [reader EXCEPT ![s].pc = "lock"]
    BY <1>9 DEF CheckOpenVolumes, InRequest
  <2>2. Stays
    BY <1>2, <2>1 DEF Reader
  <2>3. QED
    BY <1>1, <2>2, SameReceived
<1>10. CASE CloseUnusedVolume(s)
  <2>1. reader' = [reader EXCEPT ![s].scan = reader[s].scan + 1] /\ reader[s].pc \in InRequest
    BY <1>2, <1>10 DEF CloseUnusedVolume, InRequest, Reader
  <2>2. QED
    BY <1>1, <1>4, <2>1, SameReceived
<1>11. CASE AllUnusedClosed(s)
  BY <1>1, <1>3, <1>11, SameReceived DEF AllUnusedClosed, InRequest
<1>12. CASE LockVolumeStream(s)
  BY <1>1, <1>3, <1>12, SameReceived DEF LockVolumeStream, InRequest
<1>13. CASE CloseStream(s)
  BY <1>1, <1>3, <1>13, SameReceived DEF CloseStream, InRequest
<1>14. QED
  BY <1>5, <1>6, <1>7, <1>8, <1>9, <1>10, <1>11, <1>12, <1>13

\* At the end of a block all of it was received.
LEMMA NextBlockReceived ==
    ASSUME IndInv, NEW s \in Streams, Received(s), NextBlock(s)
    PROVE  /\ Received(s)'
           /\ UNCHANGED <<blocks, received>>
           /\ \A t \in Streams \ {s} : reader'[t] = reader[t]
<1>1. /\ TypeOK /\ reader \in [Streams -> Reader] /\ reader[s] \in Reader /\ Locals(s)
      /\ reader[s].pc = "block" /\ UNCHANGED <<blocks, received>>
  BY DEF IndInv, TypeOK, NextBlock, files
<1>2. PICK bs \in Seq(Block) : bs = blocks[s]
  BY <1>1 DEF TypeOK
<1>3. PICK c \in Nat : c = reader[s].currentBlock
  BY <1>1 DEF Reader
<1>4. c \in 1..Len(bs) /\ c + 1 - 1 = c
  BY <1>1, <1>2, <1>3, CurrentBlockType DEF InBlock
<1>5. PICK b \in Block : b = bs[c] /\ b = CurrentBlock(s)
  BY <1>2, <1>3, <1>4 DEF CurrentBlock
<1>6. ~IsAtEnd(s)
  BY <1>2, <1>3, <1>4 DEF IsAtEnd
<1>7. reader[s].blockOffset = b.size /\ b.size \in Nat
  <2>1. reader[s].blockOffset \in Nat /\ b.size \in Nat
    BY <1>1 DEF Reader, Block
  <2>2. reader[s].blockOffset >= b.size
    BY <1>5 DEF NextBlock
  <2>3. reader[s].blockOffset <= b.size
    BY <1>5, <1>6 DEF Received
  <2>4. QED
    BY <2>1, <2>2, <2>3
<1>8. received[s] = UpTo(bs)[c]
  <2>1. received[s] = UpTo(bs)[c - 1] \o FirstBytes(b, b.size)
    BY <1>2, <1>3, <1>5, <1>6, <1>7 DEF Received
  <2>2. FirstBytes(b, b.size) = BytesOf(b)
    BY <1>7, BytesAre
  <2>3. UpTo(bs)[c] = UpTo(bs)[c - 1] \o BytesOf(bs[c])
    BY <1>4, UpToIs
  <2>4. QED
    BY <1>5, <2>1, <2>2, <2>3
<1>9. PICK o \in Nat, pc \in {"idle", "block"} :
        /\ reader' = [reader EXCEPT ![s].currentBlock = c + 1, ![s].blockOffset = o, ![s].pc = pc]
        /\ c = Len(bs) \/ o = 0
  <2>1. reader' = [reader EXCEPT
                    ![s].currentBlock = c + 1,
                    ![s].blockOffset = IF LastBlock(s) THEN reader[s].blockOffset ELSE 0,
                    ![s].pc = IF LastBlock(s) THEN "idle" ELSE "block"]
    BY <1>1, <1>3 DEF NextBlock, Reader
  <2>2. LastBlock(s) <=> c = Len(bs)
    BY <1>2, <1>3 DEF LastBlock
  <2>3. reader[s].blockOffset \in Nat
    BY <1>7
  <2>4. CASE LastBlock(s)
    BY <2>1, <2>2, <2>3, <2>4
  <2>5. CASE ~LastBlock(s)
    BY <2>1, <2>2, <2>5
  <2>6. QED
    BY <2>4, <2>5
<1>10. /\ \A t \in Streams \ {s} : reader'[t] = reader[t]
       /\ reader'[s].pc = pc /\ reader'[s].blockOffset = o /\ reader'[s].currentBlock = c + 1
  BY <1>1, <1>9 DEF Reader
<1>11. /\ IsAtEnd(s)' <=> c + 1 > Len(bs)
       /\ CurrentBlock(s)' = bs[c + 1]
  BY <1>1, <1>2, <1>10 DEF IsAtEnd, CurrentBlock
<1>12. CASE c = Len(bs)
  <2>1. IsAtEnd(s)' /\ received'[s] = UpTo(blocks'[s])[Len(blocks'[s])]
    BY <1>1, <1>2, <1>8, <1>11, <1>12
  <2>2. Received(s)'
    BY <1>1, <1>10, <2>1 DEF Received, InRequest
  <2>3. QED
    BY <1>1, <1>10, <2>2
<1>13. CASE c # Len(bs)
  <2>1. c + 1 \in 1..Len(bs) /\ o = 0 /\ ~IsAtEnd(s)'
    BY <1>4, <1>9, <1>11, <1>13
  <2>2. bs[c + 1] \in Block
    BY <2>1
  <2>3. FirstBytes(bs[c + 1], 0) = <<>> /\ bs[c + 1].size \in Nat
    BY <2>2 DEF FirstBytes, Block
  <2>4. UpTo(bs)[c] \in Seq(Byte)
    <3>1. c \in 0..Len(bs)
      BY <1>4
    <3>2. QED
      BY <3>1, UpToIs
  <2>5. UpTo(bs)[c] \o <<>> = UpTo(bs)[c]
    BY <2>4
  <2>6. received'[s] = UpTo(blocks'[s])[reader'[s].currentBlock - 1]
                        \o FirstBytes(CurrentBlock(s)', reader'[s].blockOffset)
    <3>1. /\ received'[s] = UpTo(bs)[c] /\ blocks'[s] = bs
          /\ reader'[s].currentBlock - 1 = c /\ reader'[s].blockOffset = 0
          /\ CurrentBlock(s)' = bs[c + 1]
      BY <1>1, <1>2, <1>4, <1>8, <1>10, <1>11, <2>1
    <3>2. QED
      BY <2>3, <2>5, <3>1
  <2>7. reader'[s].blockOffset <= CurrentBlock(s)'.size
    BY <1>10, <1>11, <2>1, <2>3
  <2>8. reader'[s].pc \notin InRequest
    BY <1>10 DEF InRequest
  <2>9. Received(s)'
    BY <2>1, <2>6, <2>7, <2>8 DEF Received
  <2>10. QED
    BY <1>1, <1>10, <2>9
<1>14. QED
  BY <1>1, <1>10, <1>12, <1>13

\* The bytes of a block up to o and those that follow.
LEMMA MoreBytes ==
    ASSUME NEW b \in Block, NEW o \in Nat, NEW more \in Seq(Byte),
           \A i \in 1..Len(more) : more[i] = <<b.volumeNumber, b.offset + o + i - 1>>
    PROVE  FirstBytes(b, o) \o more = FirstBytes(b, o + Len(more))
<1>1. PICK t \in Seq(Byte) : t = FirstBytes(b, o) /\ Len(t) = o
  BY BytesAre
<1>2. PICK n \in Nat : n = Len(more)
  OBVIOUS
<1>3. PICK u \in Seq(Byte) : u = FirstBytes(b, o + n) /\ Len(u) = o + n
  <2>1. o + n \in Nat
    OBVIOUS
  <2>2. QED
    BY <2>1, BytesAre
<1>4. b.offset \in Nat
  BY DEF Block
<1>5. /\ \A i \in 1..o : t[i] = <<b.volumeNumber, b.offset + i - 1>>
      /\ \A i \in 1..o + n : u[i] = <<b.volumeNumber, b.offset + i - 1>>
  BY <1>1, <1>3 DEF FirstBytes
<1>6. /\ t \o more \in Seq(Byte) /\ Len(t \o more) = o + n
      /\ \A i \in 1..o + n : (t \o more)[i] = IF i <= o THEN t[i] ELSE more[i - o]
  <2>1. t \in Seq(Byte) /\ more \in Seq(Byte)
    OBVIOUS
  <2>2. /\ t \o more \in Seq(Byte) /\ Len(t \o more) = Len(t) + Len(more)
        /\ \A i \in 1..Len(t) + Len(more) :
                (t \o more)[i] = IF i <= Len(t) THEN t[i] ELSE more[i - Len(t)]
    BY ONLY <2>1, ConcatProperties
  <2>3. QED
    BY <1>1, <1>2, <2>2
<1>7. ASSUME NEW i \in 1..o + n PROVE (t \o more)[i] = u[i]
  <2>1. u[i] = <<b.volumeNumber, b.offset + i - 1>>
    BY <1>5
  <2>2. CASE i <= o
    <3>1. i \in 1..o
      BY <2>2
    <3>2. t[i] = <<b.volumeNumber, b.offset + i - 1>>
      BY <1>5, <3>1
    <3>3. QED
      BY <1>6, <2>1, <2>2, <3>2
  <2>3. CASE ~(i <= o)
    <3>1. PICK k \in 1..n : k = i - o
      BY <2>3
    <3>2. b.offset + o + k - 1 = b.offset + i - 1
      BY <1>4, <3>1
    <3>3. more[k] = <<b.volumeNumber, b.offset + o + k - 1>>
      BY <1>2
    <3>4. QED
      BY <1>6, <2>1, <2>3, <3>1, <3>2, <3>3
  <2>4. QED
    BY <2>2, <2>3
<1>8. t \o more = u
  BY <1>3, <1>6, <1>7, SeqEqual
<1>9. QED
  BY <1>1, <1>2, <1>3, <1>8

\* What s has become when it has read all that it asked for and is at pc.
Reads(s, pc) ==
    reader' = [reader EXCEPT ![s].left = 0, ![s].blockOffset = OffsetAfter(s),
                             ![s].count = reader[s].count - reader[s].request,
                             ![s].pc = pc]

\* A file that is complete has all that is asked for.
LEMMA ReadsAll ==
    ASSUME IndInv, NEW s \in Streams, Received(s), FilesComplete, ReadFromVolume(s)
    PROVE  /\ Available(CurrentVolume(s), reader[s].left) = reader[s].left
           /\ Reads(s, IF reader[s].count = reader[s].request THEN "idle" ELSE "block")
<1>1. /\ TypeOK /\ reader \in [Streams -> Reader] /\ reader[s] \in Reader /\ Locals(s)
      /\ reader[s].pc = "read" /\ UNCHANGED blocks
  BY DEF IndInv, TypeOK, ReadFromVolume, files
<1>2. PICK bs \in Seq(Block) : bs = blocks[s]
  BY <1>1 DEF TypeOK
<1>3. PICK c \in Nat : c = reader[s].currentBlock
  BY <1>1 DEF Reader
<1>4. c \in 1..Len(bs)
  BY <1>1, <1>2, <1>3, CurrentBlockType DEF InBlock
<1>5. PICK b \in Block : b = bs[c] /\ b = CurrentBlock(s)
  BY <1>2, <1>3, <1>4 DEF CurrentBlock
<1>6. PICK v \in Volumes : v = CurrentVolume(s) /\ v = b.volumeNumber
  BY <1>5 DEF CurrentVolume, Block
<1>7. PICK o \in Nat, r \in Nat, count \in Nat :
        o = reader[s].blockOffset /\ r = reader[s].request /\ count = reader[s].count
  BY <1>1 DEF Reader
<1>8. ~IsAtEnd(s)
  BY <1>2, <1>3, <1>4 DEF IsAtEnd
<1>9. /\ reader[s].left = r /\ o + r <= b.size /\ b.size \in Nat /\ b.offset \in Nat
      /\ received[s] = UpTo(bs)[c - 1] \o FirstBytes(b, o)
  BY <1>1, <1>2, <1>3, <1>5, <1>7, <1>8 DEF Received, Locals, InRequest, Block
<1>10. position[v] = b.offset + o
  BY <1>1, <1>5, <1>6, <1>7 DEF IndInv, ReaderHasVolume, Reading
<1>11. length[v] \in Nat /\ b.offset + b.size <= length[v]
  BY <1>1, <1>2, <1>4, <1>5, <1>6 DEF TypeOK, FilesComplete
<1>12. Available(v, r) = r
  <2>1. PICK p \in Nat, l \in Nat : p = position[v] /\ l = length[v] /\ p + r <= l
    BY <1>9, <1>10, <1>11
  <2>2. PICK a : a = Available(v, r)
    OBVIOUS
  <2>3. a = IF p < l THEN IF r < l - p THEN r ELSE l - p ELSE 0
    BY <2>1, <2>2 DEF Available, AtMost
  <2>4. a = r
    <3>1. r \in Nat /\ p \in Nat /\ l \in Nat /\ p + r <= l
      BY <2>1
    <3>2. CASE p < l
      <4>1. r = l - p \/ r < l - p
        BY ONLY <3>1
      <4>2. QED
        BY ONLY <2>3, <3>2, <4>1
    <3>3. CASE ~(p < l)
      <4>1. r = 0
        BY ONLY <3>1, <3>3
      <4>2. QED
        BY ONLY <2>3, <3>3, <4>1
    <3>4. QED
      BY ONLY <3>2, <3>3
  <2>5. QED
    BY <2>2, <2>4
<1>13. Available(CurrentVolume(s), reader[s].left) = reader[s].left
  BY <1>6, <1>9, <1>12
<1>14. ~(Available(CurrentVolume(s), reader[s].left) < reader[s].left)
  BY <1>9, <1>13
<1>15. QED
  BY <1>1, <1>13, <1>14 DEF ReadFromVolume, Reads, Reader

\* What is read follows what was received: the volume is where the stream has put it,
\* and the file has all that was asked for.
LEMMA ReadReceived ==
    ASSUME IndInv, NEW s \in Streams, Received(s), FilesComplete, ReadFromVolume(s),
           received = [t \in Streams |-> received[t]]
    PROVE  /\ Received(s)'
           /\ UNCHANGED blocks
           /\ \A t \in Streams \ {s} : reader'[t] = reader[t] /\ received'[t] = received[t]
           /\ received' = [t \in Streams |-> received'[t]]
<1>1. /\ TypeOK /\ reader \in [Streams -> Reader] /\ reader[s] \in Reader /\ Locals(s)
      /\ reader[s].pc = "read" /\ UNCHANGED blocks
  BY DEF IndInv, TypeOK, ReadFromVolume, files
<1>2. PICK bs \in Seq(Block) : bs = blocks[s]
  BY <1>1 DEF TypeOK
<1>3. PICK c \in Nat : c = reader[s].currentBlock
  BY <1>1 DEF Reader
<1>4. c \in 1..Len(bs)
  BY <1>1, <1>2, <1>3, CurrentBlockType DEF InBlock
<1>5. PICK b \in Block : b = bs[c] /\ b = CurrentBlock(s)
  BY <1>2, <1>3, <1>4 DEF CurrentBlock
<1>6. PICK v \in Volumes : v = CurrentVolume(s) /\ v = b.volumeNumber
  BY <1>5 DEF CurrentVolume, Block
<1>7. PICK o \in Nat, r \in Nat, count \in Nat :
        o = reader[s].blockOffset /\ r = reader[s].request /\ count = reader[s].count
  BY <1>1 DEF Reader
<1>8. ~IsAtEnd(s)
  BY <1>2, <1>3, <1>4 DEF IsAtEnd
<1>9. /\ reader[s].left = r /\ o + r <= b.size /\ b.size \in Nat /\ b.offset \in Nat
      /\ received[s] = UpTo(bs)[c - 1] \o FirstBytes(b, o)
  BY <1>1, <1>2, <1>3, <1>5, <1>7, <1>8 DEF Received, Locals, InRequest, Block
<1>10. position[v] = b.offset + o
  BY <1>1, <1>5, <1>6, <1>7 DEF IndInv, ReaderHasVolume, Reading
<1>11. length[v] \in Nat /\ b.offset + b.size <= length[v]
  BY <1>1, <1>2, <1>4, <1>5, <1>6 DEF TypeOK, FilesComplete
<1>12. Available(v, r) = r
  BY <1>6, <1>9, ReadsAll
<1>13. PICK pc \in {"idle", "block"} :
        reader' = [reader EXCEPT ![s].left = 0, ![s].blockOffset = o + r,
                                 ![s].count = count - r, ![s].pc = pc]
  <2>1. PICK pc \in {"idle", "block"} : Reads(s, pc)
    BY ReadsAll
  <2>2. OffsetAfter(s) = o + r /\ reader[s].count - reader[s].request = count - r
    BY <1>7 DEF OffsetAfter
  <2>3. QED
    BY <2>1, <2>2 DEF Reads
<1>14. /\ \A t \in Streams \ {s} : reader'[t] = reader[t]
       /\ reader'[s].pc = pc /\ reader'[s].blockOffset = o + r /\ reader'[s].currentBlock = c
  BY <1>1, <1>3, <1>13 DEF Reader
<1> DEFINE more == [i \in 1..r |-> <<v, position[v] + i - 1>>]
<1>15. received' = [received EXCEPT ![s] = received[s] \o more]
  BY <1>6, <1>9, <1>12 DEF ReadFromVolume
<1>16. /\ more \in Seq(Byte) /\ Len(more) = r
       /\ FirstBytes(b, o) \o more = FirstBytes(b, o + r)
  <2>1. \A i \in 1..r : <<v, position[v] + i - 1>> \in Byte
    BY <1>9, <1>10 DEF Byte
  <2>2. more \in Seq(Byte) /\ Len(more) = r
    BY <2>1
  <2>3. \A i \in 1..r : more[i] = <<b.volumeNumber, b.offset + o + i - 1>>
    BY <1>6, <1>10
  <2>. HIDE DEF more
  <2>4. QED
    BY <2>2, <2>3, MoreBytes
<1>. HIDE DEF more
<1>17. (UpTo(bs)[c - 1] \o FirstBytes(b, o)) \o more = UpTo(bs)[c - 1] \o FirstBytes(b, o + r)
  <2>1. UpTo(bs)[c - 1] \in Seq(Byte)
    <3>1. c - 1 \in 0..Len(bs)
      BY <1>4
    <3>2. QED
      BY <3>1, UpToIs
  <2>2. FirstBytes(b, o) \in Seq(Byte)
    BY BytesAre
  <2>3. PICK t, u, m, w : /\ t = UpTo(bs)[c - 1] /\ u = FirstBytes(b, o)
                          /\ m = more /\ w = FirstBytes(b, o + r)
    OBVIOUS
  <2>4. t \in Seq(Byte) /\ u \in Seq(Byte) /\ m \in Seq(Byte)
    BY <1>16, <2>1, <2>2, <2>3
  <2>5. (t \o u) \o m = t \o (u \o m)
    BY ONLY <2>4, ConcatAssociative
  <2>6. QED
    BY <1>16, <2>3, <2>5
<1>18. /\ \A t \in Streams \ {s} : received'[t] = received[t]
       /\ received' = [t \in Streams |-> received'[t]]
       /\ received'[s] = received[s] \o more
  BY <1>15
<1>19. CurrentBlock(s)' = b /\ ~IsAtEnd(s)'
  BY <1>1, <1>2, <1>3, <1>4, <1>5, <1>14 DEF CurrentBlock, IsAtEnd
<1>20. received'[s] = UpTo(blocks'[s])[reader'[s].currentBlock - 1]
                        \o FirstBytes(CurrentBlock(s)', reader'[s].blockOffset)
  BY <1>1, <1>2, <1>9, <1>14, <1>17, <1>18, <1>19
<1>21. reader'[s].blockOffset <= CurrentBlock(s)'.size
  BY <1>9, <1>14, <1>19
<1>22. reader'[s].pc \notin InRequest
  BY <1>14 DEF InRequest
<1>23. Received(s)'
  BY <1>19, <1>20, <1>21, <1>22 DEF Received
<1>24. QED
  BY <1>1, <1>14, <1>18, <1>23

\* If the volume files are complete, every stream has received what it should.
AllReceived ==
    /\ received = [s \in Streams |-> received[s]]
    /\ FilesComplete => \A s \in Streams : Received(s)

\* If the volume files are complete, each stream has received exactly that.
LEMMA ReceivedInvariant == Spec => []AllReceived
<1>1. IndInv /\ Init => AllReceived
  <2> SUFFICES ASSUME IndInv, Init PROVE AllReceived
    OBVIOUS
  <2>1. received = [s \in Streams |-> received[s]] /\ \A s \in Streams : received[s] = <<>>
    BY DEF Init
  <2>2. ASSUME NEW s \in Streams PROVE Received(s)
    <3>1. /\ reader[s].pc = "queued" /\ reader[s].currentBlock = 1
          /\ reader[s].blockOffset = 0
      BY DEF Init
    <3>2. PICK bs \in Seq(Block) : bs = blocks[s]
      BY DEF IndInv, TypeOK
    <3>3. UpTo(bs)[0] = <<>> /\ Len(bs) \in Nat
      <4>1. UpTo(bs)[0] = <<>>
        BY UpToIs
      <4>2. QED
        BY <4>1
    <3>4. IsAtEnd(s) => Len(bs) = 0
      BY <3>1, <3>2, <3>3 DEF IsAtEnd
    <3>5. ASSUME ~IsAtEnd(s)
          PROVE  /\ CurrentBlock(s) = bs[1] /\ bs[1] \in Block
                 /\ FirstBytes(bs[1], 0) = <<>> /\ 0 <= bs[1].size
      <4>1. 1 \in 1..Len(bs)
        BY <3>1, <3>2, <3>3, <3>5 DEF IsAtEnd
      <4>2. bs[1] \in Block /\ CurrentBlock(s) = bs[1]
        BY <3>1, <3>2, <4>1 DEF CurrentBlock
      <4>3. bs[1].size \in Nat
        BY <4>2 DEF Block
      <4>4. QED
        BY <4>2, <4>3 DEF FirstBytes
    <3>6. <<>> \o <<>> = <<>> /\ reader[s].currentBlock - 1 = 0
      BY <3>1
    <3>7. ~IsAtEnd(s) =>
            /\ reader[s].blockOffset <= CurrentBlock(s).size
            /\ received[s] = UpTo(blocks[s])[reader[s].currentBlock - 1]
                                \o FirstBytes(CurrentBlock(s), reader[s].blockOffset)
      BY <2>1, <3>1, <3>2, <3>3, <3>5, <3>6
    <3>8. IsAtEnd(s) => received[s] = UpTo(blocks[s])[Len(blocks[s])]
      BY <2>1, <3>2, <3>3, <3>4
    <3>9. reader[s].pc \notin InRequest
      BY <3>1 DEF InRequest
    <3>10. QED
      BY <3>7, <3>8, <3>9 DEF Received
  <2>3. QED
    BY <2>1, <2>2 DEF AllReceived
<1>2. IndInv /\ AllReceived /\ [Next]_vars => AllReceived'
  <2> SUFFICES ASSUME IndInv, AllReceived, [Next]_vars PROVE AllReceived'
    OBVIOUS
  <2>1. TypeOK
    BY DEF IndInv
  <2>2. UNCHANGED files
    BY DEF Next, Step, vars, Finished, OpenFileForReading, IncrementVolumeCounters, ReadBytes,
       NextBlock, RequestFromBlock, CheckOpenVolumes, CloseUnusedVolume, AllUnusedClosed,
       LockVolumeStream, ReadFromVolume, CloseStream
  <2>3. FilesComplete' <=> FilesComplete
    BY <2>2 DEF FilesComplete, files
  <2>4. CASE UNCHANGED vars
    <3>1. UNCHANGED <<blocks, reader, received>>
      BY <2>4 DEF vars, files
    <3>2. \A s \in Streams : Received(s)' <=> Received(s)
      BY <3>1 DEF Received, IsAtEnd, CurrentBlock
    <3>3. QED
      BY <2>3, <3>1, <3>2 DEF AllReceived
  <2>5. ASSUME NEW s \in Streams, Step(s) PROVE AllReceived'
    <3>1. CASE ~FilesComplete
      <4>1. received' = [t \in Streams |-> received'[t]]
        <5>1. CASE ReadFromVolume(s)
          <6>1. PICK m : received' = [received EXCEPT ![s] = m]
            BY <5>1 DEF ReadFromVolume
          <6>2. QED
            BY <6>1 DEF AllReceived
        <5>2. CASE ~ReadFromVolume(s)
          <6>1. received' = received
            BY <2>5, <5>2 DEF Step, OpenFileForReading, IncrementVolumeCounters, ReadBytes,
               NextBlock, RequestFromBlock, CheckOpenVolumes, CloseUnusedVolume, AllUnusedClosed,
               LockVolumeStream, CloseStream
          <6>2. QED
            BY <6>1 DEF AllReceived
        <5>3. QED
          BY <5>1, <5>2
      <4>2. QED
        BY <2>3, <3>1, <4>1 DEF AllReceived
    <3>2. CASE FilesComplete
      <4>1. received = [t \in Streams |-> received[t]] /\ \A t \in Streams : Received(t)
        BY <3>2 DEF AllReceived
      <4>2. /\ Received(s)' /\ UNCHANGED blocks
            /\ \A t \in Streams \ {s} : reader'[t] = reader[t] /\ received'[t] = received[t]
            /\ received' = [t \in Streams |-> received'[t]]
        <5>1. CASE ReadFromVolume(s)
          BY <3>2, <4>1, <5>1, ReadReceived
        <5>2. CASE NextBlock(s)
          BY <4>1, <5>2, NextBlockReceived
        <5>3. CASE ~ReadFromVolume(s) /\ ~NextBlock(s)
          BY <2>1, <2>5, <4>1, <5>3, StaysInBlock DEF Step
        <5>4. QED
          BY <5>1, <5>2, <5>3
      <4>3. ASSUME NEW t \in Streams \ {s} PROVE Received(t)'
        <5>1. /\ Received(t) /\ UNCHANGED blocks
              /\ reader'[t] = reader[t] /\ received'[t] = received[t]
          BY <4>1, <4>2
        <5>2. QED
          BY <5>1, SameReceived DEF Received
      <4>4. QED
        BY <4>2, <4>3 DEF AllReceived
    <3>3. QED
      BY <3>1, <3>2
  <2>6. QED
    BY <2>4, <2>5 DEF Next, Finished
<1>3. QED
  BY <1>1, <1>2, IndInvInvariant, PTL DEF Spec

\* Whatever streams share the volume files, and however often these are closed and
\* opened meanwhile: if the files are complete, each stream gives the bytes of its
\* blocks in order, each once, and at its end all of them.  (Of a file that is too
\* short the same bytes are given again and again, see VolumeReadingTruncated.)
THEOREM BytesAreInOrder == Spec => [](FilesComplete => BytesInOrder)
<1>1. IndInv /\ AllReceived => (FilesComplete => BytesInOrder)
  <2> SUFFICES ASSUME IndInv, AllReceived, FilesComplete, NEW s \in Streams
               PROVE  /\ Begins(received[s], Content(s))
                      /\ IsAtEnd(s) => Len(received[s]) = Len(Content(s))
    BY DEF BytesInOrder, Begins
  <2>1. TypeOK /\ Locals(s) /\ Received(s)
    BY DEF IndInv, AllReceived
  <2>2. QED
    BY <2>1, ReceivedIsInOrder
<1>2. QED
  BY <1>1, IndInvInvariant, ReceivedInvariant, PTL

-----------------------------------------------------------------------------
\* How far a stream is from its next byte, while it is in the same block.
Distance(r) ==
    CASE r.pc = "queued"   -> NumVolumes + 8
      [] r.pc = "counting" -> NumVolumes + 7
      [] r.pc = "idle"     -> NumVolumes + 6
      [] r.pc = "block"    -> NumVolumes + 5
      [] r.pc = "check"    -> NumVolumes + 4
      [] r.pc = "scan"     -> NumVolumes - r.scan + 3
      [] r.pc = "lock"     -> 2
      [] r.pc = "read"     -> 1
      [] r.pc = "closed"   -> 0
GetsOn(s) ==
    LET r == reader[s]
        q == reader'[s]
    IN  \/ r.counted < q.counted /\ q.counted <= Len(blocks[s])
        \/ /\ q.counted = r.counted
           /\ r.currentBlock < q.currentBlock
           /\ q.currentBlock <= Len(blocks[s]) + 1
        \/ /\ <<q.counted, q.currentBlock>> = <<r.counted, r.currentBlock>>
           /\ r.blockOffset < q.blockOffset
           /\ q.blockOffset <= CurrentBlock(s).size
        \/ /\ <<q.counted, q.currentBlock, q.blockOffset>>
                = <<r.counted, r.currentBlock, r.blockOffset>>
           /\ Distance(q) < Distance(r) /\ 0 <= Distance(q)

\* No step is taken in vain if the volume files have what their blocks say: it
\* counts a block, ends one, reads bytes of one, or brings the one stream that
\* takes it nearer to its next byte.  CloseUnusedVolumes is passed once for each
\* request, also when it has found nothing to close.
EveryReadGetsOn ==
    [][\E s \in Streams :
        GetsOn(s) /\ \A t \in Streams \ {s} : reader'[t] = reader[t]]_vars

\* A call asks for bytes, and so does each request that it makes.
Asks(s) ==
    /\ reader[s].pc \in InBlock => reader[s].count > 0
    /\ reader[s].pc \in InRequest => reader[s].request > 0

\* A step of s is s's alone, and leaves it asking for bytes.
LEMMA StepAsks ==
    ASSUME IndInv, NEW s \in Streams, Asks(s), Step(s)
    PROVE  Asks(s)' /\ \A t \in Streams \ {s} : reader'[t] = reader[t]
<1>1. reader \in [Streams -> Reader] /\ reader[s] \in Reader /\ Locals(s)
  BY DEF IndInv, TypeOK
<1>2. CASE OpenFileForReading(s) \/ CloseStream(s)
  <2>1. PICK pc \in {"counting", "closed"} : reader' = [reader EXCEPT ![s].pc = pc]
    BY <1>2 DEF OpenFileForReading, CloseStream
  <2>2. QED
    BY <1>1, <2>1 DEF Reader, Asks, InBlock, InRequest
<1>3. CASE IncrementVolumeCounters(s)
  <2>1. /\ reader[s].pc = "counting"
        /\ \/ reader' = [reader EXCEPT ![s].pc = "idle"]
           \/ reader' = [reader EXCEPT ![s].counted = @ + 1]
    BY <1>3 DEF IncrementVolumeCounters
  <2>2. reader'[s].pc \in {"idle", "counting"}
        /\ \A t \in Streams \ {s} : reader'[t] = reader[t]
    BY <1>1, <2>1 DEF Reader
  <2>3. QED
    BY <2>2 DEF Asks, InBlock, InRequest
<1>4. CASE \E n \in 1..MaxCall : ReadBytes(s, n)
  BY <1>1, <1>4 DEF ReadBytes, Reader, Asks, InBlock, InRequest
<1>5. CASE NextBlock(s)
  <2>1. PICK c, o : \E pc \in {"idle", "block"} :
            reader' = [reader EXCEPT ![s].currentBlock = c, ![s].blockOffset = o, ![s].pc = pc]
    <3>1. reader' = [reader EXCEPT
                        ![s].currentBlock = reader[s].currentBlock + 1,
                        ![s].blockOffset = IF LastBlock(s) THEN reader[s].blockOffset ELSE 0,
                        ![s].pc = IF LastBlock(s) THEN "idle" ELSE "block"]
      BY <1>1, <1>5 DEF NextBlock, Reader
    <3>2. QED
      BY <3>1
  <2>2. reader[s].pc = "block"
    BY <1>5 DEF NextBlock
  <2>3. QED
    BY <1>1, <2>1, <2>2 DEF Reader, Asks, InBlock, InRequest
<1>6. CASE RequestFromBlock(s)
  <2>1. PICK n : /\ n = AtMost(reader[s].count, CurrentBlock(s).size - reader[s].blockOffset)
                 /\ reader' = [reader EXCEPT ![s].request = n, ![s].left = n, ![s].pc = "check"]
    BY <1>6 DEF RequestFromBlock
  <2>2. reader[s].pc = "block" /\ reader[s].blockOffset < CurrentBlock(s).size
    BY <1>6 DEF RequestFromBlock
  <2>3. CurrentBlock(s).size \in Nat
    BY <1>1, <2>2, CurrentBlockType DEF InBlock, IndInv, Block
  <2>4. n > 0
    BY <1>1, <2>1, <2>2, <2>3 DEF AtMost, Reader, Asks, InBlock
  <2>5. QED
    BY <1>1, <2>1, <2>2, <2>4 DEF Reader, Asks, InBlock, InRequest
<1>7. CASE CheckOpenVolumes(s) \/ CloseUnusedVolume(s) \/ AllUnusedClosed(s)
           \/ LockVolumeStream(s)
  <2>1. PICK pc \in InRequest :
            \/ \E n : reader' = [reader EXCEPT ![s].pc = pc, ![s].scan = n]
            \/ reader' = [reader EXCEPT ![s].pc = pc]
            \/ \E n : reader' = [reader EXCEPT ![s].scan = n]
    BY <1>1, <1>7 DEF CheckOpenVolumes, CloseUnusedVolume, AllUnusedClosed, AfterClosing,
                      LockVolumeStream, InRequest, Reader
  <2>2. reader[s].pc \in InRequest
    BY <1>7 DEF CheckOpenVolumes, CloseUnusedVolume, AllUnusedClosed, LockVolumeStream, InRequest
  <2>3. QED
    BY <1>1, <2>1, <2>2 DEF Reader, Asks, InBlock, InRequest
<1>8. CASE ReadFromVolume(s)
  <2>1. /\ reader[s].pc = "read"
        /\ \/ \E n : reader' = [reader EXCEPT ![s].left = n, ![s].pc = "lock"]
           \/ Reads(s, IF reader[s].count = reader[s].request THEN "idle" ELSE "block")
    BY <1>1, <1>8 DEF ReadFromVolume, Reads, Reader
  <2>2. CASE \E n : reader' = [reader EXCEPT ![s].left = n, ![s].pc = "lock"]
    BY <1>1, <2>1, <2>2 DEF Reader, Asks, InBlock, InRequest
  <2>3. CASE Reads(s, IF reader[s].count = reader[s].request THEN "idle" ELSE "block")
    <3>1. reader[s].request <= reader[s].count
      BY <1>1, <2>1 DEF Locals, InRequest
    <3>2. CASE reader[s].count = reader[s].request
      BY <1>1, <2>3, <3>2 DEF Reads, Reader, Asks, InBlock, InRequest
    <3>3. CASE reader[s].count # reader[s].request
      BY <1>1, <2>3, <3>1, <3>3 DEF Reads, Reader, Asks, InBlock, InRequest
    <3>4. QED
      BY <3>2, <3>3
  <2>4. QED
    BY <2>1, <2>2, <2>3
<1>9. QED
  BY <1>2, <1>3, <1>4, <1>5, <1>6, <1>7, <1>8 DEF Step

\* Whatever the streams do, no call and no request is for nothing.
LEMMA AsksInvariant == Spec => [](\A s \in Streams : Asks(s))
<1>1. Init => \A s \in Streams : Asks(s)
  BY DEF Init, Asks, InBlock, InRequest
<1>2. IndInv /\ (\A s \in Streams : Asks(s)) /\ [Next]_vars => (\A s \in Streams : Asks(s))'
  <2> SUFFICES ASSUME IndInv, \A s \in Streams : Asks(s), [Next]_vars
               PROVE  \A s \in Streams : Asks(s)'
    OBVIOUS
  <2>1. CASE UNCHANGED vars
    BY <2>1 DEF vars, Asks
  <2>2. ASSUME NEW s \in Streams, Step(s) PROVE \A t \in Streams : Asks(t)'
    <3>1. Asks(s)' /\ \A t \in Streams \ {s} : reader'[t] = reader[t]
      BY <2>2, StepAsks
    <3>2. \A t \in Streams \ {s} : Asks(t)'
      BY <3>1 DEF Asks
    <3>3. QED
      BY <3>1, <3>2
  <2>3. QED
    BY <2>1, <2>2 DEF Next, Finished
<1>3. QED
  BY <1>1, <1>2, IndInvInvariant, PTL DEF Spec

\* A step takes the stream that makes it on, if the files are complete.
LEMMA StepGetsOn ==
    ASSUME IndInv, NEW s \in Streams, Asks(s), Received(s), FilesComplete, Step(s)
    PROVE  GetsOn(s)
<1>1. reader \in [Streams -> Reader] /\ reader[s] \in Reader /\ Locals(s) /\ NumVolumes \in Nat
  BY SizesAssumption DEF IndInv, TypeOK
<1>2. PICK c \in Nat, k \in Nat, o \in Nat, n \in Nat, l \in Nat :
        /\ c = reader[s].counted /\ k = reader[s].currentBlock
        /\ o = reader[s].blockOffset /\ n = reader[s].scan /\ l = Len(blocks[s])
  BY <1>1 DEF Reader, IndInv, TypeOK
<1> DEFINE Nearer(r) ==
        /\ r.counted = c /\ r.currentBlock = k /\ r.blockOffset = o
        /\ Distance(r) < Distance(reader[s]) /\ 0 <= Distance(r)
<1>3. Nearer(reader'[s]) => GetsOn(s)
  BY <1>2 DEF GetsOn
<1>4. CASE OpenFileForReading(s)
  <2>1. reader[s].pc = "queued" /\ reader' = [reader EXCEPT ![s].pc = "counting"]
    BY <1>4 DEF OpenFileForReading
  <2>2. Nearer(reader'[s])
    BY <1>1, <1>2, <2>1 DEF Distance, Reader
  <2>3. QED
    BY <1>3, <2>2
<1>5. CASE IncrementVolumeCounters(s)
  <2>1. reader[s].pc = "counting"
    BY <1>5 DEF IncrementVolumeCounters
  <2>2. CASE c = l
    <3>1. reader' = [reader EXCEPT ![s].pc = "idle"]
      BY <1>2, <1>5, <2>2 DEF IncrementVolumeCounters
    <3>2. Nearer(reader'[s])
      BY <1>1, <1>2, <2>1, <3>1 DEF Distance, Reader
    <3>3. QED
      BY <1>3, <3>2
  <2>3. CASE c # l
    <3>1. reader' = [reader EXCEPT ![s].counted = c + 1]
      BY <1>1, <1>2, <1>5, <2>3 DEF IncrementVolumeCounters
    <3>2. c <= l
      BY <1>1, <1>2 DEF Locals
    <3>3. reader'[s].counted = c + 1 /\ c < c + 1 /\ c + 1 <= l
      BY <1>1, <2>3, <3>1, <3>2 DEF Reader
    <3>4. QED
      BY <1>2, <3>3 DEF GetsOn
  <2>4. QED
    BY <2>2, <2>3
<1>6. CASE \E m \in 1..MaxCall : ReadBytes(s, m)
  <2>1. PICK m : reader[s].pc = "idle" /\ reader' = [reader EXCEPT ![s].pc = "block", ![s].count = m]
    BY <1>6 DEF ReadBytes
  <2>2. Nearer(reader'[s])
    BY <1>1, <1>2, <2>1 DEF Distance, Reader
  <2>3. QED
    BY <1>3, <2>2
<1>7. CASE NextBlock(s)
  <2>1. PICK b, pc : reader' = [reader EXCEPT ![s].currentBlock = k + 1, ![s].blockOffset = b,
                                             ![s].pc = pc]
    BY <1>1, <1>2, <1>7 DEF NextBlock
  <2>2. k <= l
    BY <1>1, <1>2, <1>7 DEF NextBlock, Locals, InBlock
  <2>3. reader'[s].counted = c /\ reader'[s].currentBlock = k + 1 /\ k < k + 1 /\ k + 1 <= l + 1
    BY <1>1, <1>2, <2>1, <2>2 DEF Reader
  <2>4. QED
    BY <1>2, <2>3 DEF GetsOn
<1>8. CASE RequestFromBlock(s)
  <2>1. PICK m : /\ reader[s].pc = "block"
                 /\ reader' = [reader EXCEPT ![s].request = m, ![s].left = m, ![s].pc = "check"]
    BY <1>8 DEF RequestFromBlock
  <2>2. Nearer(reader'[s])
    BY <1>1, <1>2, <2>1 DEF Distance, Reader
  <2>3. QED
    BY <1>3, <2>2
<1>9. CASE CheckOpenVolumes(s)
  <2>1. /\ reader[s].pc = "check"
        /\ \/ reader' = [reader EXCEPT ![s].pc = "scan", ![s].scan = 0]
           \/ reader' = [reader EXCEPT ![s].pc = "lock"]
    BY <1>9 DEF CheckOpenVolumes
  <2>2. CASE reader' = [reader EXCEPT ![s].pc = "scan", ![s].scan = 0]
    <3>1. Nearer(reader'[s])
      BY <1>1, <1>2, <2>1, <2>2 DEF Distance, Reader
    <3>2. QED
      BY <1>3, <3>1
  <2>3. CASE reader' = [reader EXCEPT ![s].pc = "lock"]
    <3>1. Nearer(reader'[s])
      BY <1>1, <1>2, <2>1, <2>3 DEF Distance, Reader
    <3>2. QED
      BY <1>3, <3>1
  <2>4. QED
    BY <2>1, <2>2, <2>3
<1>10. CASE CloseUnusedVolume(s)
  <2>1. /\ reader[s].pc = "scan" /\ n < NumVolumes
        /\ reader' = [reader EXCEPT ![s].scan = n + 1]
    BY <1>1, <1>2, <1>10 DEF CloseUnusedVolume
  <2>2. Nearer(reader'[s])
    BY <1>1, <1>2, <2>1 DEF Distance, Reader
  <2>3. QED
    BY <1>3, <2>2
<1>11. CASE AllUnusedClosed(s)
  <2>1. /\ reader[s].pc = "scan" /\ n = NumVolumes
        /\ reader' = [reader EXCEPT ![s].pc = "lock"]
    BY <1>2, <1>11 DEF AllUnusedClosed, AfterClosing
  <2>2. Nearer(reader'[s])
    BY <1>1, <1>2, <2>1 DEF Distance, Reader
  <2>3. QED
    BY <1>3, <2>2
<1>12. CASE LockVolumeStream(s)
  <2>1. reader[s].pc = "lock" /\ reader' = [reader EXCEPT ![s].pc = "read"]
    BY <1>12 DEF LockVolumeStream
  <2>2. /\ reader'[s].pc = "read" /\ reader'[s].counted = c
        /\ reader'[s].currentBlock = k /\ reader'[s].blockOffset = o
    BY <1>1, <1>2, <2>1 DEF Reader
  <2>3. Distance(reader[s]) = 2 /\ Distance(reader'[s]) = 1
    BY <2>1, <2>2 DEF Distance
  <2>4. Nearer(reader'[s])
    BY <2>2, <2>3
  <2>5. QED
    BY <1>3, <2>4
<1>13. CASE ReadFromVolume(s)
  <2>1. PICK pc : Reads(s, pc)
    BY <1>13, ReadsAll
  <2>2. reader[s].pc = "read"
    BY <1>13 DEF ReadFromVolume
  <2>3. PICK r \in Nat : r = reader[s].request /\ r > 0
    BY <1>1, <2>2 DEF Reader, Asks, InRequest
  <2>4. o + r <= CurrentBlock(s).size
    BY <1>1, <1>2, <2>2, <2>3 DEF Locals, InRequest
  <2>5. /\ reader'[s].counted = c /\ reader'[s].currentBlock = k
        /\ reader'[s].blockOffset = o + r /\ o < o + r
    BY <1>1, <1>2, <2>1, <2>3 DEF Reads, OffsetAfter, Reader
  <2>6. QED
    BY <1>2, <2>4, <2>5 DEF GetsOn
<1>14. CASE CloseStream(s)
  <2>1. reader[s].pc = "idle" /\ reader' = [reader EXCEPT ![s].pc = "closed"]
    BY <1>14 DEF CloseStream
  <2>2. Nearer(reader'[s])
    BY <1>1, <1>2, <2>1 DEF Distance, Reader
  <2>3. QED
    BY <1>3, <2>2
<1>15. QED
  BY <1>4, <1>5, <1>6, <1>7, <1>8, <1>9, <1>10, <1>11, <1>12, <1>13, <1>14 DEF Step

\* Of complete volume files no stream ever asks in vain: for any layout and any
\* number of streams, threads and open volumes, every step counts a block, reads
\* or ends one, or takes its stream nearer to that.
THEOREM ReadersGetOn == FilesComplete /\ Spec => EveryReadGetsOn
<1> DEFINE OneGetsOn == \E s \in Streams :
                GetsOn(s) /\ \A t \in Streams \ {s} : reader'[t] = reader[t]
<1>1. FilesComplete /\ [Next]_vars => FilesComplete'
  <2> SUFFICES ASSUME [Next]_vars PROVE UNCHANGED files
    BY DEF FilesComplete, files
  <2>1. QED
    BY DEF Next, Step, vars, Finished, OpenFileForReading, IncrementVolumeCounters, ReadBytes,
       NextBlock, RequestFromBlock, CheckOpenVolumes, CloseUnusedVolume, AllUnusedClosed,
       LockVolumeStream, ReadFromVolume, CloseStream
<1>2. IndInv /\ AllReceived /\ (\A s \in Streams : Asks(s)) /\ FilesComplete /\ [Next]_vars
      => [OneGetsOn]_vars
  <2> SUFFICES ASSUME IndInv, AllReceived, \A s \in Streams : Asks(s), FilesComplete,
                      Next, ~UNCHANGED vars
               PROVE  OneGetsOn
    OBVIOUS
  <2>1. PICK s \in Streams : Step(s)
    BY DEF Next, Finished
  <2>2. GetsOn(s)
    BY <2>1, StepGetsOn DEF AllReceived
  <2>3. \A t \in Streams \ {s} : reader'[t] = reader[t]
    BY <2>1, StepAsks
  <2>4. QED
    BY <2>2, <2>3
<1>3. QED
  BY <1>1, <1>2, IndInvInvariant, ReceivedInvariant, AsksInvariant, PTL
     DEF Spec, EveryReadGetsOn

-----------------------------------------------------------------------------
\* The volumes whose mutexes s takes in its next step, and the streams it waits
\* for: who holds them, who closes volumes, and all that run if no thread is free.
Wants(s) == {v \in Volumes :
    \/ /\ reader[s].pc = "counting"
       /\ reader[s].counted < Len(blocks[s])
       /\ v = blocks[s][reader[s].counted + 1].volumeNumber
    \/ /\ reader[s].pc = "block"
       /\ reader[s].blockOffset >= CurrentBlock(s).size
       /\ v = CurrentVolume(s)
    \/ reader[s].pc = "scan" /\ v = reader[s].scan
    \/ reader[s].pc = "lock" /\ v = CurrentVolume(s)}
WaitsFor(s) == {t \in Streams :
    \/ \E v \in Wants(s) : held[v] = t
    \/ reader[s].pc = "check" /\ closing = t
    \/ reader[s].pc = "queued" /\ Cardinality(Running) >= NumThreads /\ t \in Running}

\* The readers never wait for each other in a circle, nor for one that has ended
\* or not begun: CloseUnusedVolumes takes a volume's mutex while it holds
\* nOpenVolumesLock, and nobody takes that one while it holds a volume's.
NobodyWaitsInACircle ==
    /\ \A s \in Streams : WaitsFor(s) \subseteq Running
    /\ \A S \in (SUBSET Streams) \ {{}} : \E s \in S : WaitsFor(s) \cap S = {}

\* What s wants is held by a stream that reads, and a stream that reads wants nothing.
LEMMA WaitsForReader ==
    ASSUME IndInv, NEW s \in Streams, NEW v \in Wants(s), held[v] # NoStream
    PROVE  held[v] \in Streams /\ reader[held[v]].pc = "read" /\ reader[s].pc # "read"
<1>1. v \in Volumes /\ reader[s].pc # "read"
  BY DEF Wants
<1>2. held[v] \in Streams
  BY <1>1 DEF IndInv, TypeOK
<1>3. QED
  BY <1>1, <1>2 DEF IndInv, ReaderHasVolume, Reading

\* For any number of streams, threads and volumes the read side is free of
\* deadlocks: who reads waits for nobody, who closes volumes for readers only,
\* any other that runs for one of these two, and who is queued for those that run.
THEOREM ReadersDoNotDeadlock == Spec => []NobodyWaitsInACircle
<1>1. IndInv /\ Bounded => NobodyWaitsInACircle
  <2> SUFFICES ASSUME IndInv, Bounded PROVE NobodyWaitsInACircle
    OBVIOUS
  <2>1. ASSUME NEW s \in Streams, NEW t \in WaitsFor(s)
        PROVE  /\ t \in Streams
               /\ \/ reader[t].pc = "read" /\ reader[s].pc # "read"
                  \/ reader[t].pc = "scan" /\ reader[s].pc = "check"
                  \/ t \in Running /\ reader[s].pc = "queued"
    <3>1. t \in Streams /\ t # NoStream
      BY NoStreamAssumption DEF WaitsFor
    <3>2. CASE \E v \in Wants(s) : held[v] = t
      BY <3>1, <3>2, WaitsForReader
    <3>3. CASE reader[s].pc = "check" /\ closing = t
      BY <3>1, <3>3 DEF Bounded
    <3>4. CASE reader[s].pc = "queued" /\ t \in Running
      BY <3>1, <3>4
    <3>5. QED
      BY <3>2, <3>3, <3>4 DEF WaitsFor
  <2>2. \A s \in Streams : WaitsFor(s) \subseteq Running
    BY <2>1 DEF Running
  <2>3. ASSUME NEW S \in (SUBSET Streams) \ {{}} PROVE \E s \in S : WaitsFor(s) \cap S = {}
    <3>1. CASE \E s \in S : reader[s].pc = "read"
      <4>1. PICK s \in S : reader[s].pc = "read"
        BY <3>1
      <4>2. WaitsFor(s) = {}
        BY <2>1, <4>1
      <4>3. QED
        BY <4>2
    <3>2. CASE (\A s \in S : reader[s].pc # "read") /\ \E s \in S : reader[s].pc = "scan"
      <4>1. PICK s \in S : reader[s].pc = "scan"
        BY <3>2
      <4>2. WaitsFor(s) \cap S = {}
        BY <2>1, <3>2, <4>1
      <4>3. QED
        BY <4>2
    <3>3. CASE /\ \A s \in S : reader[s].pc \notin {"read", "scan"}
               /\ \E s \in S : reader[s].pc # "queued"
      <4>1. PICK s \in S : reader[s].pc # "queued"
        BY <3>3
      <4>2. WaitsFor(s) \cap S = {}
        BY <2>1, <3>3, <4>1
      <4>3. QED
        BY <4>2
    <3>4. CASE \A s \in S : reader[s].pc = "queued"
      <4>0. S # {}
        OBVIOUS
      <4>1. PICK s \in S : TRUE
        BY <4>0
      <4>2. WaitsFor(s) \cap S = {}
        BY <2>2, <3>4 DEF Running
      <4>3. QED
        BY <4>2
    <3>5. QED
      BY <3>1, <3>2, <3>3, <3>4
  <2>4. QED
    BY <2>2, <2>3 DEF NobodyWaitsInACircle
<1>2. QED
  BY <1>1, IndInvInvariant, BoundedInvariant, PTL
=============================================================================
