------------------------ MODULE SnapshotHistory_proofs ------------------------
(***************************************************************************)
(* Proofs about the history of snapshots: for any paths, contents and      *)
(* algorithms, and any number of edits, renames and snapshots.             *)
(***************************************************************************)
EXTENDS SnapshotReaders, InductionLemmas, FunctionTheorems

\* A node as BackupNode makes it and as the others copy it: a directory has
\* attributes only; any other node the type and size of one content, whose hash is
\* its hash and which is its block, if it has bytes.  Who owns data was not moved.
GoodNode(n) ==
    /\ n \in Node
    /\ n.owns => n.size > 0 /\ n.owner = <<>>
    /\ n.type = "directory" => n.size = 0 /\ n.blocks = <<>> /\ n.hashes = <<>>
    /\ n.type # "directory" =>
        \E c \in Contents, a \in Algorithms :
            /\ n.type = TypeOf[c] /\ n.size = SizeOf[c]
            /\ n.hashes = [h \in {a} |-> c]
            /\ n.blocks = IF SizeOf[c] > 0 THEN <<c>> ELSE <<>>

Kinds == {"data", "metadata", "moved"}
Snapshot == [nodes : PartialFunctions(Paths, Node),
             hashIndex : [Algorithms -> PartialFunctions(Contents, Paths)],
             how : PartialFunctions(Paths, Kinds)]

\* The hash index finds a node for exactly the hashes that the nodes have.
Finds(s, a) ==
    LET hi == s.hashIndex[a]
        hashed == {p \in DOMAIN s.nodes : a \in DOMAIN s.nodes[p].hashes}
    IN  /\ DOMAIN hi = {s.nodes[p].hashes[a] : p \in hashed}
        /\ \A h \in DOMAIN hi : hi[h] \in hashed /\ s.nodes[hi[h]].hashes[a] = h

GoodSnapshot(s) ==
    /\ \A p \in DOMAIN s.nodes : GoodNode(s.nodes[p])
    /\ DOMAIN s.how = DOMAIN s.nodes
    /\ \A a \in Algorithms : Finds(s, a)

\* A node without data of its own refers to one with its hash in the snapshot before.
Linked(i) ==
    \A p \in DOMAIN snapshots[i].nodes :
        LET n == snapshots[i].nodes[p]
            q == Parent(n, p)
        IN  ~HasNodeData(n) /\ (snapshots[i].how[p] = "metadata" => n.owner = <<>>) =>
                /\ i > 1
                /\ q \in DOMAIN snapshots[i - 1].nodes
                /\ snapshots[i - 1].nodes[q].hashes = n.hashes

History ==
    /\ snapshots \in Seq(Snapshot)
    /\ Len(snapshots) <= MaxSnapshots
    /\ \A i \in DOMAIN snapshots : GoodSnapshot(snapshots[i]) /\ Linked(i)

\* The types of everything else.
Scan == [source : PartialFunctions(Paths, File), touched : SUBSET Paths,
         renamed : BOOLEAN, renamedBefore : BOOLEAN]
Types_ ==
    /\ source \in PartialFunctions(Paths, File)
    /\ edits \in 0..MaxEdits
    /\ algorithm \in [is : Algorithms, changed : 0..MaxReconfigurations]
    /\ phase \in {"idle", "indexing", "adding"}
    /\ toVisit \in SUBSET Paths
    /\ index \in PartialFunctions(Paths, Attributes)
    /\ toHash \in SUBSET DOMAIN index
    /\ diff \in PartialFunctions(DOMAIN index, Difference)
    /\ piped \in PartialFunctions(DOMAIN diff, Contents)
    /\ scanned \in Scan

Changed(p) == snapshots # <<>> /\ p \in ComputeDifference(index, LastIndex)

\* What each phase of add-snapshot has: what it indexed has the type and size of some
\* content, what it piped is as long as what it indexed, and what it takes over from
\* the last index is as long as the node there.
Phases ==
    /\ phase = "idle" => toVisit = {} /\ index = <<>>
    /\ phase # "idle" => Len(snapshots) < MaxSnapshots
    /\ phase # "adding" => toHash = {} /\ diff = <<>> /\ piped = <<>>
    /\ phase = "adding" => toVisit = {} /\ DOMAIN diff = DOMAIN index \ toHash
    /\ DOMAIN index \cap toVisit = {}
    /\ \A p \in DOMAIN index :
        \E c \in Contents : index[p].type = TypeOf[c] /\ index[p].size = SizeOf[c]
    /\ \A p \in toHash : Changed(p)
    /\ snapshots = <<>> => \A p \in DOMAIN diff : diff[p] = NewData

GoodDifference(p) ==
    /\ diff[p].kind = "data" /\ p \in DOMAIN piped =>
        TypeOf[piped[p]] = index[p].type /\ SizeOf[piped[p]] = index[p].size
    /\ diff[p].kind = "metadata" =>
        snapshots # <<>> /\ p \in DOMAIN LastIndex /\ SameSize(index[p], LastIndex[p])
    /\ diff[p].kind = "moved" =>
        /\ snapshots # <<>> /\ diff[p].from \in DOMAIN LastIndex
        /\ SameSize(index[p], LastIndex[diff[p].from])
        /\ index[p].type # "directory"
    /\ snapshots # <<>> /\ ~Changed(p) => diff[p] = SameNode

Differences == \A p \in DOMAIN diff : GoodDifference(p)

\* Everything that add-snapshot has read of p so far it would read again.
Tracks(p) ==
    /\ p \in DOMAIN source
    /\ index[p] = AttributesOf(source[p])
    /\ p \in DOMAIN piped => piped[p] = source[p].content
    /\ p \in DOMAIN diff /\ Changed(p) /\ index[p].type # "directory" =>
        diff[p] = Classify(snapshots[Len(snapshots)].hashIndex[algorithm.is],
                           LastIndex, p, source[p].content)

\* No path that was not touched has changed, nor what was read of it.
Untouched ==
    phase # "idle" => \A p \in Paths \ scanned.touched :
        /\ p \in DOMAIN source <=> p \in DOMAIN scanned.source
        /\ p \in DOMAIN source => source[p] = scanned.source[p]
        /\ p \notin toVisit /\ p \in DOMAIN source => p \in DOMAIN index
        /\ p \in DOMAIN index => Tracks(p)

\* A time belongs to one file.  One that was indexed, if it is still there and there
\* were no renames since, is at the same path and has what was read of it; one that
\* was recorded has what was recorded, wherever it is now.
TimesAreUnique ==
    /\ \A p, q \in DOMAIN source : source[p].mtime = source[q].mtime => p = q
    /\ \A p \in DOMAIN source : source[p].mtime < Now
    /\ \A p \in DOMAIN index : index[p].mtime < Now
    /\ snapshots # <<>> => \A p \in DOMAIN LastIndex : LastIndex[p].mtime < Now
IndexedIsThere ==
    ~scanned.renamed => \A p \in DOMAIN index : \A q \in DOMAIN source :
        source[q].mtime = index[p].mtime => q = p /\ Tracks(p)
RecordedIsThere ==
    snapshots # <<>> /\ ~scanned.renamedBefore =>
        \A p \in DOMAIN LastIndex : \A q \in DOMAIN source :
            source[q].mtime = LastIndex[p].mtime /\ LastIndex[p].type # "directory" =>
                HashIn(LastIndex[p]) = source[q].content

IInv ==
    /\ Types_ /\ History /\ Phases /\ Differences
    /\ Untouched /\ TimesAreUnique /\ IndexedIsThere /\ RecordedIsThere
-----------------------------------------------------------------------------
\* A partial function from S to T is a function on a part of S.
LEMMA PartialIs ==
    ASSUME NEW S, NEW T, NEW f
    PROVE  f \in PartialFunctions(S, T) <=> DOMAIN f \subseteq S /\ f \in [DOMAIN f -> T]
BY DEF PartialFunctions

\* The function without arguments is a partial function.
LEMMA EmptyIsPartial == ASSUME NEW S, NEW T PROVE <<>> \in PartialFunctions(S, T)
<1>1. DOMAIN <<>> = {}
  OBVIOUS
<1>2. <<>> \in [{} -> T]
  BY <1>1
<1>3. [{} -> T] \in {[D -> T] : D \in SUBSET S}
  OBVIOUS
<1>4. QED
  BY <1>2, <1>3 DEF PartialFunctions

\* A map with one entry more is a partial function that differs there only.
LEMMA ExtendIs ==
    ASSUME NEW S, NEW T, NEW f \in PartialFunctions(S, T), NEW p \in S, NEW x \in T
    PROVE  /\ Extend(f, p, x) \in PartialFunctions(S, T)
           /\ DOMAIN Extend(f, p, x) = DOMAIN f \cup {p}
           /\ Extend(f, p, x)[p] = x
           /\ \A q \in DOMAIN f \ {p} : Extend(f, p, x)[q] = f[q]
<1>1. DOMAIN f \subseteq S /\ f \in [DOMAIN f -> T]
  BY PartialIs
<1>2. Extend(f, p, x) \in [DOMAIN f \cup {p} -> T]
  BY <1>1 DEF Extend
<1>3. QED
  BY <1>1, <1>2, PartialIs DEF Extend

\* A map with one entry less is the same elsewhere.
LEMMA WithoutIs ==
    ASSUME NEW S, NEW T, NEW f \in PartialFunctions(S, T), NEW p
    PROVE  /\ Without(f, p) \in PartialFunctions(S, T)
           /\ DOMAIN Without(f, p) = DOMAIN f \ {p}
           /\ \A q \in DOMAIN f \ {p} : Without(f, p)[q] = f[q]
<1>1. DOMAIN f \subseteq S /\ f \in [DOMAIN f -> T]
  BY PartialIs
<1>2. Without(f, p) \in [DOMAIN f \ {p} -> T]
  BY <1>1 DEF Without
<1>3. QED
  BY <1>1, <1>2, PartialIs DEF Without

\* A node is a record with its fields.
NodeFields == {"type", "size", "mtime", "owns", "owner", "blocks", "hashes"}
\* A node is the record of its seven fields.
LEMMA NodeIs ==
    ASSUME NEW n
    PROVE  n \in Node <=>
            /\ n = [type |-> n.type, size |-> n.size, mtime |-> n.mtime, owns |-> n.owns,
                    owner |-> n.owner, blocks |-> n.blocks, hashes |-> n.hashes]
            /\ n.type \in Types /\ n.size \in Nat /\ n.mtime \in Times /\ n.owns \in BOOLEAN
            /\ n.owner \in Optional(Paths) /\ n.blocks \in Optional(Contents)
            /\ n.hashes \in Hashes
BY DEF Node

\* The index file keeps all of a node, but without blocks no owner and no data.
LEMMA ReadInIs ==
    ASSUME NEW p, NEW n \in Node, n.type = "directory" => n.size = 0,
           n.owns => n.blocks # <<>>
    PROVE  ReadIn(p, n) = [n EXCEPT !.owner = IF n.blocks = <<>> THEN <<>> ELSE @]
<1> DEFINE complete == Extend(Extend(n, "permissions", None), "compression", <<>>)
           fields == NodeFields \cup {"permissions", "compression"}
           back == DeserializeNode(SerializeNode(p, complete))
<1>1. /\ n = [type |-> n.type, size |-> n.size, mtime |-> n.mtime, owns |-> n.owns,
              owner |-> n.owner, blocks |-> n.blocks, hashes |-> n.hashes]
      /\ n.owns \in BOOLEAN
  BY NodeIs
<1>2. DOMAIN n = NodeFields
  BY <1>1 DEF NodeFields
<1>3. /\ complete.type = n.type /\ complete.size = n.size /\ complete.mtime = n.mtime
      /\ complete.owns = n.owns /\ complete.owner = n.owner /\ complete.blocks = n.blocks
      /\ complete.hashes = n.hashes
      /\ complete.compression = <<>> /\ complete.permissions = None
  BY <1>2 DEF Extend, NodeFields
<1>4. Deserialize(Serialize(<< [path |-> p, attributes |-> complete] >>))[1].attributes = back
  BY DEF Deserialize, Serialize, SerializeNode
<1>5. ReadIn(p, n) = Restrict(back, DOMAIN n)
  BY <1>4 DEF ReadIn
<1>. HIDE DEF complete
<1>6. /\ back.type = n.type /\ back.mtime = n.mtime
      /\ back.size = IF n.type = "directory" THEN 0 ELSE n.size
      /\ back.hashes = IF DOMAIN n.hashes = {} THEN <<>> ELSE n.hashes
      /\ n.blocks = <<>> => back.owns = FALSE /\ back.owner = <<>> /\ back.blocks = <<>>
      /\ n.blocks # <<>> =>
            back.owns = n.owns /\ back.owner = n.owner /\ back.blocks = n.blocks
  BY <1>3 DEF DeserializeNode, SerializeNode, SerializeBlocks, SerializeHashes,
              SerializePermissions, DeserializeBlocks, DeserializeHashes
<1>7. back.hashes = n.hashes
  <2>1. n.hashes \in [DOMAIN n.hashes -> Contents]
    BY NodeIs, PartialIs DEF Hashes
  <2>2. DOMAIN n.hashes = {} => n.hashes = <<>>
    BY <2>1
  <2>3. QED
    BY <1>6, <2>2
<1>8. /\ back.type = n.type /\ back.mtime = n.mtime /\ back.size = n.size
      /\ back.owns = n.owns /\ back.blocks = n.blocks
      /\ back.owner = IF n.blocks = <<>> THEN <<>> ELSE n.owner
  BY <1>1, <1>6
<1>. DEFINE m == [n EXCEPT !.owner = IF n.blocks = <<>> THEN <<>> ELSE @]
<1>9. \A x \in NodeFields : back[x] = m[x]
  BY <1>2, <1>7, <1>8 DEF NodeFields
<1>10. m = [x \in NodeFields |-> m[x]]
  BY <1>2
<1>. HIDE DEF back, m
<1>11. Restrict(back, NodeFields) = m
  BY <1>9, <1>10 DEF Restrict
<1>12. QED
  BY <1>2, <1>5, <1>11 DEF m

-----------------------------------------------------------------------------
\* A file or link has one hash, the content whose type, size and bytes it has.
LEMMA GoodHash ==
    ASSUME NEW n, GoodNode(n), n.type # "directory"
    PROVE  /\ HashIn(n) \in Contents
           /\ n.type = TypeOf[HashIn(n)] /\ n.size = SizeOf[HashIn(n)]
           /\ \E a \in Algorithms : n.hashes = [h \in {a} |-> HashIn(n)]
           /\ n.blocks = IF n.size > 0 THEN <<HashIn(n)>> ELSE <<>>
<1>1. PICK c \in Contents, a \in Algorithms :
        /\ n.type = TypeOf[c] /\ n.size = SizeOf[c]
        /\ n.hashes = [h \in {a} |-> c]
        /\ n.blocks = IF SizeOf[c] > 0 THEN <<c>> ELSE <<>>
  BY DEF GoodNode
<1>2. DOMAIN n.hashes = {a} /\ n.hashes[a] = c
  BY <1>1
<1>3. (CHOOSE x \in DOMAIN n.hashes : TRUE) = a
  BY <1>2
<1>4. HashIn(n) = c
  BY <1>2, <1>3 DEF HashIn, OneOf
<1>5. QED
  BY <1>1, <1>4

\* ... and so all its hashes are that content.
LEMMA GoodHashes ==
    ASSUME NEW n, GoodNode(n), NEW a \in DOMAIN n.hashes
    PROVE  n.type # "directory" /\ a \in Algorithms /\ n.hashes[a] = HashIn(n)
<1>1. n.type # "directory"
  BY DEF GoodNode
<1>2. PICK b \in Algorithms : n.hashes = [h \in {b} |-> HashIn(n)]
  BY <1>1, GoodHash
<1>3. QED
  BY <1>1, <1>2

\* A node that was read in is a good one, with the same attributes and hashes.
LEMMA ReadInGood ==
    ASSUME NEW p, NEW n, GoodNode(n)
    PROVE  /\ GoodNode(ReadIn(p, n))
           /\ ReadIn(p, n).type = n.type /\ ReadIn(p, n).size = n.size
           /\ ReadIn(p, n).mtime = n.mtime /\ ReadIn(p, n).owns = n.owns
           /\ ReadIn(p, n).hashes = n.hashes
           /\ n.size > 0 => ReadIn(p, n).owner = n.owner
<1>1. n \in Node
  BY DEF GoodNode
<1>2. n.size > 0 => n.type # "directory" /\ n.blocks # <<>>
  <2>1. n.size > 0 => n.type # "directory"
    BY DEF GoodNode
  <2>2. n.size > 0 => n.blocks = <<HashIn(n)>>
    BY <2>1, GoodHash
  <2>3. QED
    BY <2>1, <2>2
<1>3. ReadIn(p, n) = [n EXCEPT !.owner = IF n.blocks = <<>> THEN <<>> ELSE @]
  BY <1>1, <1>2, ReadInIs DEF GoodNode
<1>. DEFINE m == [n EXCEPT !.owner = IF n.blocks = <<>> THEN <<>> ELSE @]
<1>4. /\ m.type = n.type /\ m.size = n.size /\ m.mtime = n.mtime /\ m.owns = n.owns
      /\ m.hashes = n.hashes /\ m.blocks = n.blocks
      /\ m.owner = IF n.blocks = <<>> THEN <<>> ELSE n.owner
  BY <1>1, NodeIs
<1>5. m \in Node
  <2>1. <<>> \in Optional(Paths)
    BY DEF Optional
  <2>2. m.owner \in Optional(Paths)
    BY <1>1, <1>4, <2>1, NodeIs
  <2>3. QED
    BY <1>1, <2>2 DEF Node
<1>6. GoodNode(m)
  BY <1>4, <1>5 DEF GoodNode
<1>7. QED
  BY <1>2, <1>3, <1>4, <1>6

\* What BackupNodeMetadata and BackupMove make of a node as long as the new one.
CopyAs(old, a, owner) == [CopyFrom(old, a) EXCEPT !.owns = FALSE, !.owner = owner]
CopyIs(n, old, a, owner) ==
    /\ GoodNode(n)
    /\ n.type = a.type /\ n.size = a.size /\ n.mtime = a.mtime
    /\ n.owns = FALSE /\ n.owner = owner /\ n.hashes = old.hashes
    /\ HashIn(n) = HashIn(old)

\* The copy of a good node is a good one, with the attributes of the new node, the
\* hashes and the data of the old one, and the owner it is given.
LEMMA CopyGood ==
    ASSUME NEW old, GoodNode(old), NEW a \in Attributes, SameSize(a, old),
           NEW owner \in Optional(Paths)
    PROVE  CopyIs(CopyAs(old, a, owner), old, a, owner)
<1> DEFINE n == CopyAs(old, a, owner)
<1>1. old \in Node
  BY DEF GoodNode
<1>2. a.type \in Types /\ a.size \in Nat /\ a.mtime \in Times
  BY DEF Attributes
<1>3. /\ n.type = a.type /\ n.size = a.size /\ n.mtime = a.mtime /\ n.owns = FALSE
      /\ n.owner = owner /\ n.blocks = old.blocks /\ n.hashes = old.hashes
  BY <1>1, NodeIs DEF CopyFrom, CopyAs
<1>4. n.type = old.type /\ n.size = old.size
  BY <1>3 DEF SameSize
<1>5. n \in Node
  BY <1>1, <1>2, <1>3 DEF Node, CopyFrom, CopyAs
<1>. HIDE DEF n
<1>6. GoodNode(n)
  BY <1>3, <1>4, <1>5 DEF GoodNode
<1>7. HashIn(n) = HashIn(old)
  BY <1>3 DEF HashIn
<1>8. QED
  BY <1>3, <1>6, <1>7 DEF CopyIs, n

\* BackupNodeMetadata copies the node of the last snapshot and its owner.
LEMMA BackupNodeMetadataGood ==
    ASSUME NEW old, GoodNode(old), NEW a \in Attributes, SameSize(a, old)
    PROVE  CopyIs(BackupNodeMetadata(old, a), old, a, old.owner)
<1>1. old \in Node /\ old.owner \in Optional(Paths)
  BY NodeIs DEF GoodNode
<1>2. BackupNodeMetadata(old, a) = CopyAs(old, a, old.owner)
  BY <1>1 DEF BackupNodeMetadata, CopyAs, CopyFrom, Node
<1>3. QED
  BY <1>1, <1>2, CopyGood

\* BackupMove copies the node at the path the data moved from, which becomes the owner.
LEMMA BackupMoveGood ==
    ASSUME NEW old, GoodNode(old), NEW a \in Attributes, SameSize(a, old), NEW p \in Paths
    PROVE  CopyIs(BackupMove(old, a, p), old, a, <<p>>)
<1>1. <<p>> \in Optional(Paths)
  BY DEF Optional
<1>2. BackupMove(old, a, p) = CopyAs(old, a, <<p>>)
  BY DEF BackupMove, CopyAs
<1>3. QED
  BY <1>1, <1>2, CopyGood

\* BackupNode stores the data itself: the node is no copy, and owns its data if it has bytes.
LEMMA BackupNodeGood ==
    ASSUME NEW a \in Attributes, NEW c, algorithm.is \in Algorithms,
           a.type = "directory" => a.size = 0,
           a.type # "directory" =>
                c \in Contents /\ a.type = TypeOf[c] /\ a.size = SizeOf[c]
    PROVE  LET n == BackupNode(a, c)
           IN  /\ GoodNode(n)
               /\ n.type = a.type /\ n.size = a.size /\ n.mtime = a.mtime
               /\ n.owns = (a.size > 0)
               /\ a.type # "directory" =>
                    HashIn(n) = c /\ n.hashes = [h \in {algorithm.is} |-> c]
<1> DEFINE n == BackupNode(a, c)
<1>1. a.type \in Types /\ a.size \in Nat /\ a.mtime \in Times
  BY DEF Attributes
<1>2. /\ n.type = a.type /\ n.size = a.size /\ n.mtime = a.mtime
      /\ n.owns = (a.size > 0) /\ n.owner = <<>>
      /\ n.blocks = IF a.size > 0 THEN <<c>> ELSE <<>>
      /\ n.hashes = IF a.type = "directory" THEN <<>> ELSE [h \in {algorithm.is} |-> c]
  BY DEF BackupNode
<1>3. n \in Node
  <2>1. n.owner \in Optional(Paths)
    BY <1>2 DEF Optional
  <2>2. n.blocks \in Optional(Contents)
    BY <1>1, <1>2 DEF Optional
  <2>3. n.hashes \in Hashes
    BY <1>2, EmptyIsPartial, PartialIs DEF Hashes
  <2>4. n.owns \in BOOLEAN
    BY <1>2
  <2>5. QED
    BY <1>1, <1>2, <2>1, <2>2, <2>3, <2>4 DEF Node, BackupNode
<1>. HIDE DEF n
<1>4. GoodNode(n)
  <2>1. a.type # "directory" =>
            \E d \in Contents, b \in Algorithms :
                /\ n.type = TypeOf[d] /\ n.size = SizeOf[d]
                /\ n.hashes = [h \in {b} |-> d]
                /\ n.blocks = IF SizeOf[d] > 0 THEN <<d>> ELSE <<>>
    BY <1>2
  <2>2. n.type = "directory" => n.size = 0 /\ n.blocks = <<>> /\ n.hashes = <<>>
    BY <1>2
  <2>3. n.owns => n.size > 0 /\ n.owner = <<>>
    BY <1>2
  <2>4. n.type # "directory" <=> a.type # "directory"
    BY <1>2
  <2>5. QED
    BY <1>3, <2>1, <2>2, <2>3, <2>4, Zenon DEF GoodNode
<1>5. a.type # "directory" => HashIn(n) = c
  <2>1. a.type # "directory" => DOMAIN n.hashes = {algorithm.is} /\ n.hashes[algorithm.is] = c
    BY <1>2
  <2>2. QED
    BY <2>1 DEF HashIn, OneOf
<1>6. QED
  BY <1>2, <1>4, <1>5 DEF n

-----------------------------------------------------------------------------
\* Every order has all nodes.
LEMMA OrdersHaveAll ==
    ASSUME index \in PartialFunctions(Paths, Attributes), NEW order \in Orders
    PROVE  /\ Cardinality(DOMAIN index) \in Nat
           /\ order \in [1..Cardinality(DOMAIN index) -> DOMAIN index]
           /\ \A p \in DOMAIN index : \E i \in DOMAIN order : order[i] = p
<1> DEFINE D == DOMAIN index
           N == Cardinality(D)
<1>1. IsFiniteSet(D)
  BY PartialIs, PathsAssumption, FS_Subset
<1>2. N \in Nat
  BY <1>1, FS_CardinalityType
<1>3. order \in [1..N -> D] /\ IsInjective(order)
  BY DEF Orders
<1>4. order \in Injection(1..N, D)
  BY <1>3 DEF Injection, IsInjective
<1>5. IsFiniteSet(1..N) /\ Cardinality(1..N) = N
  BY <1>2, FS_Interval
<1>6. order \in Surjection(1..N, D)
  BY <1>1, <1>4, <1>5, FS_Injection
<1>7. QED
  BY <1>2, <1>3, <1>6 DEF Surjection

\* GenerateHashIndex takes the last of the nodes with a hash.
LEMMA HashIndexFinds ==
    ASSUME index \in PartialFunctions(Paths, Attributes), NEW order \in Orders,
           NEW nodes, DOMAIN nodes = DOMAIN index, \A p \in DOMAIN nodes : GoodNode(nodes[p]),
           NEW a \in Algorithms
    PROVE  LET hi == HashIndex(order, nodes)[a]
               hashed == {p \in DOMAIN nodes : a \in DOMAIN nodes[p].hashes}
           IN  /\ hi \in PartialFunctions(Contents, Paths)
               /\ DOMAIN hi = {nodes[p].hashes[a] : p \in hashed}
               /\ \A h \in DOMAIN hi : hi[h] \in hashed /\ nodes[hi[h]].hashes[a] = h
<1> DEFINE hashesOf == [p \in DOMAIN nodes |-> nodes[p].hashes]
           N == Cardinality(DOMAIN index)
           with == {i \in DOMAIN order : a \in DOMAIN hashesOf[order[i]]}
           hash(i) == hashesOf[order[i]][a]
           last(h) == CHOOSE i \in with : /\ hash(i) = h
                                          /\ \A j \in with : hash(j) = h => j <= i
           hi == HashIndex(order, nodes)[a]
           hashed == {p \in DOMAIN nodes : a \in DOMAIN nodes[p].hashes}
<1>1. /\ N \in Nat /\ order \in [1..N -> DOMAIN index]
      /\ \A p \in DOMAIN index : \E i \in DOMAIN order : order[i] = p
  BY OrdersHaveAll
<1>2. hi = [h \in {hash(i) : i \in with} |-> order[last(h)]]
  BY DEF HashIndex, GenerateHashIndex
<1>3. /\ with \subseteq 1..N
      /\ \A i \in with : order[i] \in hashed /\ hash(i) = nodes[order[i]].hashes[a]
      /\ \A p \in hashed : \E i \in with : order[i] = p
  BY <1>1
<1>. HIDE DEF hi, with, hash
<1>4. ASSUME NEW h \in {hash(i) : i \in with}
      PROVE  last(h) \in with /\ hash(last(h)) = h
  <2> DEFINE S == {i \in with : hash(i) = h}
  <2>1. S \in SUBSET Nat /\ S # {} /\ \A i \in S : i <= N
    BY <1>1, <1>3
  <2>2. PICK n \in S : \A m \in S : m <= n
    BY <1>1, <2>1, GreatestNumber
  <2>3. \E i \in with : hash(i) = h /\ \A j \in with : hash(j) = h => j <= i
    BY <2>2
  <2>4. QED
    BY <2>3
<1>. HIDE DEF last
<1>5. DOMAIN hi = {nodes[p].hashes[a] : p \in hashed}
  BY <1>2, <1>3
<1>6. \A h \in DOMAIN hi : hi[h] \in hashed /\ nodes[hi[h]].hashes[a] = h
  BY <1>2, <1>3, <1>4
<1>7. DOMAIN hi \subseteq Contents
  <2>1. ASSUME NEW p \in hashed PROVE nodes[p].hashes[a] \in Contents
    <3>1. GoodNode(nodes[p]) /\ a \in DOMAIN nodes[p].hashes
      OBVIOUS
    <3>2. nodes[p].type # "directory" /\ nodes[p].hashes[a] = HashIn(nodes[p])
      BY <3>1, GoodHashes
    <3>3. QED
      BY <3>1, <3>2, GoodHash
  <2>2. QED
    BY <1>5, <2>1
<1>8. hi \in [DOMAIN hi -> Paths]
  <2>1. DOMAIN nodes \subseteq Paths
    BY PartialIs
  <2>2. \A h \in DOMAIN hi : hi[h] \in Paths
    BY <1>6, <2>1
  <2>3. QED
    BY <1>2, <2>2
<1>9. QED
  BY <1>5, <1>6, <1>7, <1>8, PartialIs DEF hi

-----------------------------------------------------------------------------
\* The last snapshot is one.
LEMMA LastIs ==
    ASSUME History, snapshots # <<>>
    PROVE  LET last == snapshots[Len(snapshots)]
           IN  /\ Len(snapshots) \in DOMAIN snapshots
               /\ last \in Snapshot /\ GoodSnapshot(last)
               /\ LastIndex = last.nodes
               /\ DOMAIN LastIndex \subseteq Paths
               /\ \A p \in DOMAIN LastIndex : GoodNode(LastIndex[p])
<1>1. snapshots \in Seq(Snapshot) /\ Len(snapshots) \in DOMAIN snapshots
  BY DEF History
<1>2. snapshots[Len(snapshots)] \in Snapshot /\ GoodSnapshot(snapshots[Len(snapshots)])
  BY <1>1 DEF History
<1>3. snapshots[Len(snapshots)].nodes \in PartialFunctions(Paths, Node)
  BY <1>2 DEF Snapshot
<1>4. QED
  BY <1>1, <1>2, <1>3, PartialIs DEF LastIndex, GoodSnapshot

\* What add-snapshot has for a path that it indexed.
LEMMA IndexedIs ==
    ASSUME Types_, Phases, NEW p \in DOMAIN index
    PROVE  /\ p \in Paths /\ index[p] \in Attributes
           /\ index[p].type = "directory" => index[p].size = 0
           /\ p \in DOMAIN diff => diff[p] \in Difference
           /\ p \in DOMAIN piped => p \in DOMAIN diff /\ piped[p] \in Contents
<1>1. p \in Paths /\ index[p] \in Attributes
  BY PartialIs DEF Types_
<1>2. index[p].type = "directory" => index[p].size = 0
  BY SizesAssumption, DirectoriesAssumption DEF Phases
<1>3. p \in DOMAIN diff => diff[p] \in Difference
  BY PartialIs DEF Types_
<1>4. p \in DOMAIN piped => p \in DOMAIN diff /\ piped[p] \in Contents
  BY PartialIs DEF Types_
<1>5. QED
  BY <1>1, <1>2, <1>3, <1>4

\* The node that is added for p, and what comes back of it from the index file: the
\* attributes that were indexed; of a new node the content that was piped, of the
\* others what the last index has of the same or the old path.
NodeOf(p) == ReadIn(p, NewNode(p))
IsNodeOf(n, p) ==
    /\ GoodNode(n)
    /\ n.type = index[p].type /\ n.size = index[p].size /\ n.mtime = index[p].mtime
    /\ diff[p].kind = "data" =>
        /\ n.owns = (index[p].size > 0)
        /\ n.type # "directory" =>
            /\ p \in DOMAIN piped
            /\ HashIn(n) = piped[p] /\ n.hashes = [h \in {algorithm.is} |-> piped[p]]
    /\ diff[p].kind # "data" => snapshots # <<>> /\ ~n.owns
    /\ diff[p].kind = "metadata" =>
        /\ n.hashes = LastIndex[p].hashes
        /\ n.size > 0 => n.owner = LastIndex[p].owner
    /\ diff[p].kind = "moved" =>
        /\ n.hashes = LastIndex[diff[p].from].hashes
        /\ n.size > 0 => n.owner = <<diff[p].from>>

\* Each of the three ways to back a path up makes the node that the difference calls for.
LEMMA NewNodeIs ==
    ASSUME Types_, History, Phases, Differences, phase = "adding", toHash = {}, ToPipe = {},
           NEW p \in DOMAIN index
    PROVE  IsNodeOf(NewNode(p), p)
<1> DEFINE n == NewNode(p)
<1>1. /\ p \in Paths /\ index[p] \in Attributes /\ diff[p] \in Difference /\ p \in DOMAIN diff
      /\ index[p].type = "directory" => index[p].size = 0
      /\ p \in DOMAIN piped => piped[p] \in Contents
  BY IndexedIs DEF Phases
<1>2. GoodDifference(p)
  BY <1>1 DEF Differences
<1>3. diff[p].kind \in Kinds
  BY <1>1 DEF Difference, Kinds
<1>4. CASE diff[p].kind = "data"
  <2> DEFINE c == IF index[p].type = "directory" THEN None ELSE piped[p]
  <2>1. index[p].type # "directory" => p \in DOMAIN piped
    BY <1>1, <1>4 DEF ToPipe
  <2>2. index[p].type # "directory" =>
            c \in Contents /\ index[p].type = TypeOf[c] /\ index[p].size = SizeOf[c]
    BY <1>1, <1>2, <1>4, <2>1 DEF GoodDifference
  <2>3. algorithm.is \in Algorithms
    BY DEF Types_
  <2>4. n = BackupNode(index[p], c)
    BY <1>4 DEF NewNode
  <2>. HIDE DEF c, n
  <2>5. /\ GoodNode(n)
        /\ n.type = index[p].type /\ n.size = index[p].size /\ n.mtime = index[p].mtime
        /\ n.owns = (index[p].size > 0)
        /\ index[p].type # "directory" =>
            HashIn(n) = c /\ n.hashes = [h \in {algorithm.is} |-> c]
    BY <1>1, <2>2, <2>3, <2>4, BackupNodeGood
  <2>6. QED
    BY <1>4, <2>1, <2>5 DEF IsNodeOf, c, n
<1>5. CASE diff[p].kind = "metadata"
  <2>1. snapshots # <<>> /\ p \in DOMAIN LastIndex /\ SameSize(index[p], LastIndex[p])
    BY <1>2, <1>5 DEF GoodDifference
  <2>2. GoodNode(LastIndex[p])
    BY <2>1, LastIs
  <2>3. n = BackupNodeMetadata(LastIndex[p], index[p])
    BY <1>5 DEF NewNode
  <2>. HIDE DEF n
  <2>4. CopyIs(n, LastIndex[p], index[p], LastIndex[p].owner)
    BY <1>1, <2>1, <2>2, <2>3, BackupNodeMetadataGood
  <2>5. QED
    BY <1>5, <2>1, <2>4 DEF IsNodeOf, CopyIs, n
<1>6. CASE diff[p].kind = "moved"
  <2> DEFINE q == diff[p].from
  <2>1. snapshots # <<>> /\ q \in DOMAIN LastIndex /\ SameSize(index[p], LastIndex[q])
    BY <1>2, <1>6 DEF GoodDifference
  <2>2. q \in Paths /\ GoodNode(LastIndex[q])
    BY <2>1, LastIs
  <2>3. n = BackupMove(LastIndex[q], index[p], q)
    BY <1>6 DEF NewNode
  <2>. HIDE DEF n, q
  <2>4. CopyIs(n, LastIndex[q], index[p], <<q>>)
    BY <1>1, <2>1, <2>2, <2>3, BackupMoveGood
  <2>5. QED
    BY <1>6, <2>1, <2>4 DEF IsNodeOf, CopyIs, n, q
<1>7. QED
  BY <1>3, <1>4, <1>5, <1>6 DEF Kinds

\* So does copying the node as it is, where there is no difference.
LEMMA NodeOfIs ==
    ASSUME Types_, History, Phases, Differences, phase = "adding", toHash = {}, ToPipe = {},
           NEW p \in DOMAIN index
    PROVE  IsNodeOf(NodeOf(p), p)
<1> DEFINE n == NewNode(p)
           m == ReadIn(p, n)
<1>1. IsNodeOf(n, p)
  BY NewNodeIs
<1>2. GoodNode(n)
  BY <1>1 DEF IsNodeOf
<1>. HIDE DEF n
<1>3. /\ GoodNode(m) /\ m.type = n.type /\ m.size = n.size /\ m.mtime = n.mtime
      /\ m.owns = n.owns /\ m.hashes = n.hashes
      /\ n.size > 0 => m.owner = n.owner
  BY <1>2, ReadInGood
<1>. HIDE DEF m
<1>4. HashIn(m) = HashIn(n)
  BY <1>3 DEF HashIn
<1>5. IsNodeOf(m, p)
  BY <1>1, <1>3, <1>4 DEF IsNodeOf
<1>6. QED
  BY <1>5 DEF NodeOf, m, n

-----------------------------------------------------------------------------
\* The time of an edit is a number, and in the range of the times.
LEMMA NowIs ==
    ASSUME Types_
    PROVE  Cardinality(Paths) \in Nat /\ edits \in Nat /\ MaxEdits \in Nat /\ Now \in Times
BY PathsAssumption, FS_CardinalityType, BoundsAssumption DEF Types_, Now, Times

\* The times of the files that are there first are all different: there are as many.
LEMMA FirstTimesAreUnique ==
    ASSUME source \in PartialFunctions(Paths, File),
           {source[p].mtime : p \in DOMAIN source} = 0..Cardinality(DOMAIN source) - 1
    PROVE  /\ \A p, q \in DOMAIN source : source[p].mtime = source[q].mtime => p = q
           /\ \A p \in DOMAIN source : source[p].mtime < Cardinality(Paths)
<1> DEFINE D == DOMAIN source
           n == Cardinality(D)
           f == [p \in D |-> source[p].mtime]
<1>1. /\ D \in SUBSET Paths /\ IsFiniteSet(D) /\ n \in Nat
      /\ n <= Cardinality(Paths) /\ Cardinality(Paths) \in Nat
  BY PartialIs, PathsAssumption, FS_Subset, FS_CardinalityType
<1>2. IsFiniteSet(0..n - 1) /\ Cardinality(0..n - 1) = n
  <2>. HIDE DEF n
  <2>1. n - 1 \in Int /\ (0 > n - 1 <=> n = 0)
    BY <1>1
  <2>2. IsFiniteSet(0..n - 1) /\ Cardinality(0..n - 1) = IF 0 > n - 1 THEN 0 ELSE n - 1 - 0 + 1
    BY <2>1, FS_Interval
  <2>3. QED
    BY <1>1, <2>1, <2>2
<1>3. f \in Surjection(D, 0..n - 1)
  <2>1. f \in [D -> 0..n - 1]
    OBVIOUS
  <2>2. \A k \in 0..n - 1 : \E p \in D : f[p] = k
    OBVIOUS
  <2>3. QED
    BY <2>1, <2>2 DEF Surjection
<1>4. f \in Injection(D, 0..n - 1)
  BY <1>1, <1>2, <1>3, FS_SurjSameCardinalityImpliesInj
<1>5. \A p, q \in D : f[p] = f[q] => p = q
  BY <1>4 DEF Injection, IsInjective
<1>6. \A p \in D : source[p].mtime \in 0..n - 1
  OBVIOUS
<1>7. QED
  BY <1>1, <1>5, <1>6

\* The invariant holds at first: there is no snapshot and nothing is indexed.
LEMMA InitIInv == Init => IInv
<1> SUFFICES ASSUME Init PROVE IInv
  OBVIOUS
<1> USE DEF Init
<1>1. /\ \A p, q \in DOMAIN source : source[p].mtime = source[q].mtime => p = q
      /\ \A p \in DOMAIN source : source[p].mtime < Cardinality(Paths)
  BY FirstTimesAreUnique
<1>2. Types_
  <2>1. /\ index \in PartialFunctions(Paths, Attributes) /\ toHash \in SUBSET DOMAIN index
        /\ diff \in PartialFunctions(DOMAIN index, Difference)
        /\ piped \in PartialFunctions(DOMAIN diff, Contents)
        /\ scanned \in Scan
    BY EmptyIsPartial DEF Scan
  <2>2. QED
    BY <2>1, BoundsAssumption DEF Types_
<1>3. History
  BY BoundsAssumption DEF History
<1>4. Phases
  BY DEF Phases
<1>5. Differences
  BY DEF Differences
<1>6. Untouched
  BY DEF Untouched
<1>7. TimesAreUnique
  <2>1. Now = Cardinality(Paths)
    BY PathsAssumption, FS_CardinalityType DEF Now
  <2>2. QED
    BY <1>1, <2>1 DEF TimesAreUnique
<1>8. IndexedIsThere
  BY DEF IndexedIsThere
<1>9. RecordedIsThere
  BY DEF RecordedIsThere
<1>10. QED
  BY <1>2, <1>3, <1>4, <1>5, <1>6, <1>7, <1>8, <1>9 DEF IInv

-----------------------------------------------------------------------------
\* Steps that keep what a part of the invariant is about.
LEMMA SameHistory == ASSUME History, UNCHANGED snapshots PROVE History'
BY DEF History, Linked

\* What of the state each part of the invariant reads.
LEMMA SameChanged ==
    ASSUME UNCHANGED <<snapshots, index>>, NEW p
    PROVE  Changed(p)' <=> Changed(p)
BY DEF Changed, LastIndex

\* The phases do not depend on the source.
LEMMA SamePhases ==
    ASSUME Phases, UNCHANGED <<snapshots, phase, toVisit, index, toHash, diff, piped>>
    PROVE  Phases'
BY DEF Phases, Changed, LastIndex, NewData

\* The differences depend neither on the source nor on the phase.
LEMMA SameDifferences ==
    ASSUME Differences, UNCHANGED <<snapshots, index, diff, piped>>
    PROVE  Differences'
BY DEF Differences, GoodDifference, Changed, LastIndex, SameNode

\* What was read of a file is what one would read of one that is the same.
LEMMA SameTracks ==
    ASSUME UNCHANGED <<snapshots, index, diff, piped, algorithm>>, NEW p,
           Tracks(p), p \in DOMAIN source', source'[p] = source[p]
    PROVE  Tracks(p)'
BY DEF Tracks, Changed, LastIndex, Classify, NewData, SameNode

\* What the user can do to the source: each file is one that was there, at its path
\* unless it was renamed, or has a new time; only the paths that are named change.
IsEdited(kind, paths, s) ==
    /\ s \in PartialFunctions(Paths, File)
    /\ paths \subseteq Paths
    /\ \A p \in Paths \ paths :
        (p \in DOMAIN s <=> p \in DOMAIN source) /\ (p \in DOMAIN s => s[p] = source[p])
    /\ \A p, q \in DOMAIN s : s[p].mtime = s[q].mtime => p = q
    /\ \A q \in DOMAIN s : s[q].mtime = Now \/ \E r \in DOMAIN source : s[q] = source[r]
    /\ kind # "rename" => \A q \in DOMAIN s :
        s[q].mtime = Now \/ (q \in DOMAIN source /\ s[q] = source[q])

\* Write, remove and rename are such edits: a write gives the file the time of now.
LEMMA WriteIs ==
    ASSUME IInv, NEW p \in Paths, NEW c \in Contents
    PROVE  IsEdited("write", {p}, Extend(source, p, [content |-> c, mtime |-> Now]))
<1> DEFINE s == Extend(source, p, [content |-> c, mtime |-> Now])
<1>1. Types_ /\ TimesAreUnique
  BY DEF IInv
<1>2. [content |-> c, mtime |-> Now] \in File
  BY <1>1, NowIs DEF File
<1>3. /\ s \in PartialFunctions(Paths, File)
      /\ DOMAIN s = DOMAIN source \cup {p}
      /\ s[p] = [content |-> c, mtime |-> Now]
      /\ \A q \in DOMAIN source \ {p} : s[q] = source[q]
  <2>1. source \in PartialFunctions(Paths, File)
    BY <1>1 DEF Types_
  <2>2. QED
    BY <1>2, <2>1, ExtendIs
<1>. HIDE DEF s
<1>4. \A q, r \in DOMAIN s : s[q].mtime = s[r].mtime => q = r
  <2>1. \A q \in DOMAIN source : source[q].mtime # Now
    BY <1>1, NowIs, PartialIs DEF TimesAreUnique, Types_, File, Times
  <2>2. QED
    BY <1>1, <1>3, <2>1 DEF TimesAreUnique
<1>5. IsEdited("write", {p}, s)
  BY <1>3, <1>4 DEF IsEdited
<1>6. QED
  BY <1>5 DEF s

\* A removal leaves each file that remains as it was.
LEMMA RemoveIs ==
    ASSUME IInv, NEW p \in DOMAIN source
    PROVE  p \in Paths /\ IsEdited("remove", {p}, Without(source, p))
<1> DEFINE s == Without(source, p)
<1>1. Types_ /\ TimesAreUnique
  BY DEF IInv
<1>2. /\ s \in PartialFunctions(Paths, File)
      /\ DOMAIN s = DOMAIN source \ {p}
      /\ \A q \in DOMAIN source \ {p} : s[q] = source[q]
  <2>1. source \in PartialFunctions(Paths, File)
    BY <1>1 DEF Types_
  <2>2. QED
    BY <2>1, WithoutIs
<1>3. p \in Paths
  BY <1>1, PartialIs DEF Types_
<1>. HIDE DEF s
<1>4. \A q, r \in DOMAIN s : s[q].mtime = s[r].mtime => q = r
  BY <1>1, <1>2 DEF TimesAreUnique
<1>5. IsEdited("remove", {p}, s)
  BY <1>2, <1>3, <1>4 DEF IsEdited
<1>6. QED
  BY <1>3, <1>5 DEF s

\* A rename keeps the time of the file: it is the one that was there at the other path.
LEMMA RenameIs ==
    ASSUME IInv, NEW p \in DOMAIN source, NEW q \in Paths, p # q
    PROVE  p \in Paths /\ IsEdited("rename", {p, q}, Without(Extend(source, q, source[p]), p))
<1> DEFINE e == Extend(source, q, source[p])
           s == Without(e, p)
<1>1. Types_ /\ TimesAreUnique
  BY DEF IInv
<1>2. p \in Paths /\ source[p] \in File
  BY <1>1, PartialIs DEF Types_
<1>3. /\ e \in PartialFunctions(Paths, File)
      /\ DOMAIN e = DOMAIN source \cup {q}
      /\ e[q] = source[p]
      /\ \A r \in DOMAIN source \ {q} : e[r] = source[r]
  <2>1. source \in PartialFunctions(Paths, File)
    BY <1>1 DEF Types_
  <2>2. QED
    BY <1>2, <2>1, ExtendIs
<1>4. /\ s \in PartialFunctions(Paths, File)
      /\ DOMAIN s = DOMAIN e \ {p}
      /\ \A r \in DOMAIN e \ {p} : s[r] = e[r]
  <2>1. DOMAIN e \subseteq Paths /\ e \in [DOMAIN e -> File]
    BY <1>3, PartialIs
  <2>. HIDE DEF e
  <2>2. s \in [DOMAIN e \ {p} -> File]
    BY <2>1 DEF Without
  <2>3. QED
    BY <2>1, <2>2, PartialIs DEF Without
<1>. HIDE DEF e, s
<1>5. /\ DOMAIN s = (DOMAIN source \cup {q}) \ {p}
      /\ s[q] = source[p]
      /\ \A r \in DOMAIN source \ {p, q} : s[r] = source[r]
  BY <1>3, <1>4
<1>6. \A r, t \in DOMAIN s : s[r].mtime = s[t].mtime => r = t
  BY <1>1, <1>5 DEF TimesAreUnique
<1>7. IsEdited("rename", {p, q}, s)
  BY <1>2, <1>4, <1>5, <1>6 DEF IsEdited
<1>8. QED
  BY <1>2, <1>7 DEF s, e

\* No edit of the source breaks the invariant, whatever the program is doing.
LEMMA EditIInv ==
    ASSUME IInv, NEW kind, NEW paths, NEW s, IsEdited(kind, paths, s), Edit(kind, paths, s)
    PROVE  IInv'
<1>1. /\ source' = s /\ edits' = edits + 1 /\ edits < MaxEdits
      /\ UNCHANGED <<algorithm, snapshots, phase, toVisit, index, toHash, diff, piped>>
      /\ scanned' = IF phase = "idle" THEN scanned
                    ELSE [scanned EXCEPT !.touched = @ \cup paths,
                                         !.renamed = @ \/ kind = "rename"]
  BY DEF Edit
<1>2. /\ Types_ /\ History /\ Phases /\ Differences
      /\ Untouched /\ TimesAreUnique /\ IndexedIsThere /\ RecordedIsThere
  BY DEF IInv
<1>3. /\ scanned'.source = scanned.source
      /\ scanned'.renamedBefore = scanned.renamedBefore
      /\ phase # "idle" => scanned'.touched = scanned.touched \cup paths
      /\ phase # "idle" /\ ~scanned'.renamed => ~scanned.renamed /\ kind # "rename"
      /\ scanned' \in Scan
  <2>1. scanned \in Scan /\ paths \subseteq Paths
    BY <1>2 DEF Types_, IsEdited
  <2>2. CASE phase = "idle"
    BY <1>1, <2>1, <2>2
  <2>3. CASE phase # "idle"
    BY <1>1, <2>1, <2>3 DEF Scan
  <2>4. QED
    BY <2>2, <2>3
<1>4. Now' = Now + 1 /\ Now \in Nat /\ MaxEdits \in Nat
  <2>1. Now \in Nat /\ edits \in Nat /\ Cardinality(Paths) \in Nat /\ MaxEdits \in Nat
    BY <1>2, NowIs DEF Times
  <2>2. QED
    BY <1>1, <2>1 DEF Now
<1>5. \A q \in DOMAIN source : source[q].mtime \in Nat /\ source[q].mtime < Now
  <2>1. \A q \in DOMAIN source : source[q] \in File
    BY <1>2, PartialIs DEF Types_
  <2>2. QED
    BY <1>2, <2>1 DEF TimesAreUnique, File, Times
<1>6. \A q \in DOMAIN index : index[q].mtime \in Nat /\ index[q].mtime < Now
  <2>1. \A q \in DOMAIN index : index[q] \in Attributes
    BY <1>2, IndexedIs
  <2>2. QED
    BY <1>2, <2>1 DEF TimesAreUnique, Attributes, Times
<1>7. snapshots # <<>> =>
        \A q \in DOMAIN LastIndex : LastIndex[q].mtime \in Nat /\ LastIndex[q].mtime < Now
  <2>1. snapshots # <<>> => \A q \in DOMAIN LastIndex : LastIndex[q] \in Node
    BY <1>2, LastIs DEF GoodNode
  <2>2. QED
    BY <1>2, <2>1 DEF TimesAreUnique, Node, Times
<1>8. LastIndex' = LastIndex
  BY <1>1 DEF LastIndex
<1>9. Types_'
  <2>1. edits' \in 0..MaxEdits
    BY <1>1, <1>2, <1>4 DEF Types_
  <2>2. QED
    BY <1>1, <1>2, <1>3, <2>1 DEF Types_, IsEdited
<1>10. History' /\ Phases' /\ Differences'
  BY <1>1, <1>2, SameHistory, SamePhases, SameDifferences
<1>11. Untouched'
  <2> SUFFICES ASSUME phase # "idle", NEW p \in Paths \ scanned'.touched
               PROVE  /\ p \in DOMAIN s <=> p \in DOMAIN scanned.source
                      /\ p \in DOMAIN s => s[p] = scanned.source[p]
                      /\ p \notin toVisit /\ p \in DOMAIN s => p \in DOMAIN index
                      /\ p \in DOMAIN index => Tracks(p)'
    BY <1>1, <1>3 DEF Untouched
  <2>1. p \in Paths \ scanned.touched /\ p \notin paths
    BY <1>3
  <2>2. (p \in DOMAIN s <=> p \in DOMAIN source) /\ (p \in DOMAIN s => s[p] = source[p])
    BY <2>1 DEF IsEdited
  <2>3. p \in DOMAIN index => Tracks(p)
    BY <1>2, <2>1 DEF Untouched
  <2>4. p \in DOMAIN index => Tracks(p)'
    <3>1. p \in DOMAIN index => p \in DOMAIN source
      BY <2>3 DEF Tracks
    <3>2. QED
      BY <1>1, <2>2, <2>3, <3>1, SameTracks
  <2>5. QED
    BY <1>2, <2>1, <2>2, <2>4 DEF Untouched
<1>12. TimesAreUnique'
  <2>1. \A q \in DOMAIN s : s[q].mtime < Now + 1
    BY <1>4, <1>5 DEF IsEdited
  <2>2. \A p, q \in DOMAIN s : s[p].mtime = s[q].mtime => p = q
    BY DEF IsEdited
  <2>3. QED
    BY <1>1, <1>4, <1>6, <1>7, <1>8, <2>1, <2>2 DEF TimesAreUnique
<1>13. IndexedIsThere'
  <2> SUFFICES ASSUME ~scanned'.renamed, NEW p \in DOMAIN index, NEW q \in DOMAIN s,
                      s[q].mtime = index[p].mtime
               PROVE  q = p /\ Tracks(p)'
    BY <1>1 DEF IndexedIsThere
  <2>1. phase # "idle"
    BY <1>2 DEF Phases
  <2>2. ~scanned.renamed /\ kind # "rename"
    BY <1>3, <2>1
  <2>3. q \in DOMAIN source /\ s[q] = source[q]
    BY <1>4, <1>6, <2>2 DEF IsEdited
  <2>4. q = p /\ Tracks(p)
    BY <1>2, <2>2, <2>3 DEF IndexedIsThere
  <2>5. QED
    BY <1>1, <2>3, <2>4, SameTracks
<1>14. RecordedIsThere'
  <2> SUFFICES ASSUME snapshots # <<>>, ~scanned.renamedBefore,
                      NEW p \in DOMAIN LastIndex, NEW q \in DOMAIN s,
                      s[q].mtime = LastIndex[p].mtime, LastIndex[p].type # "directory"
               PROVE  HashIn(LastIndex[p]) = s[q].content
    BY <1>1, <1>3, <1>8 DEF RecordedIsThere
  <2>1. PICK r \in DOMAIN source : s[q] = source[r]
    BY <1>4, <1>7 DEF IsEdited
  <2>2. QED
    BY <1>2, <2>1 DEF RecordedIsThere
<1>15. QED
  BY <1>9, <1>10, <1>11, <1>12, <1>13, <1>14 DEF IInv

-----------------------------------------------------------------------------
\* The part about renamed files holds on while source and snapshots are the same.
LEMMA SameRecorded ==
    ASSUME RecordedIsThere, UNCHANGED <<source, snapshots>>,
           ~scanned'.renamedBefore => ~scanned.renamedBefore
    PROVE  RecordedIsThere'
BY DEF RecordedIsThere, LastIndex

\* The part about times holds on if nothing was indexed that is newer than now.
LEMMA SameTimes ==
    ASSUME TimesAreUnique, UNCHANGED <<source, edits, snapshots>>,
           \A p \in DOMAIN index' : index'[p].mtime < Now
    PROVE  TimesAreUnique'
BY DEF TimesAreUnique, LastIndex, Now

\* A step that changes nothing keeps the invariant.
LEMMA StutterIInv == ASSUME IInv, UNCHANGED vars PROVE IInv'
<1>1. /\ Types_ /\ History /\ Phases /\ Differences
      /\ Untouched /\ TimesAreUnique /\ IndexedIsThere /\ RecordedIsThere
  BY DEF IInv
<1>2. /\ UNCHANGED <<source, edits, algorithm, snapshots, phase>>
      /\ UNCHANGED <<toVisit, index, toHash, diff, piped, scanned>>
  BY DEF vars
<1>3. Types_'
  BY <1>1, <1>2 DEF Types_
<1>4. History' /\ Phases' /\ Differences'
  BY <1>1, <1>2, SameHistory, SamePhases, SameDifferences
<1>5. \A p : Tracks(p) => Tracks(p)'
  BY <1>2, SameTracks DEF Tracks
<1>6. Untouched'
  BY <1>1, <1>2, <1>5 DEF Untouched
<1>7. IndexedIsThere'
  BY <1>1, <1>2, <1>5 DEF IndexedIsThere
<1>8. TimesAreUnique'
  BY <1>1, <1>2, SameTimes DEF TimesAreUnique
<1>9. RecordedIsThere'
  BY <1>1, <1>2, SameRecorded
<1>10. QED
  BY <1>3, <1>4, <1>6, <1>7, <1>8, <1>9 DEF IInv

\* Neither does the choice of another hash algorithm break it.
LEMMA ReconfigureIInv == ASSUME IInv, Reconfigure PROVE IInv'
<1>1. /\ Types_ /\ History /\ Phases /\ Differences
      /\ Untouched /\ TimesAreUnique /\ IndexedIsThere /\ RecordedIsThere
  BY DEF IInv
<1>2. /\ phase = "idle" /\ algorithm.changed < MaxReconfigurations
      /\ UNCHANGED <<source, edits, snapshots, phase, toVisit, index, toHash, diff, piped, scanned>>
      /\ \E a \in Algorithms : algorithm' = [is |-> a, changed |-> algorithm.changed + 1]
  BY DEF Reconfigure
<1>3. index = <<>>
  BY <1>1, <1>2 DEF Phases
<1>4. Types_'
  <2>1. algorithm' \in [is : Algorithms, changed : 0..MaxReconfigurations]
    BY <1>1, <1>2, BoundsAssumption DEF Types_
  <2>2. QED
    BY <1>1, <1>2, <2>1 DEF Types_
<1>5. History' /\ Phases' /\ Differences'
  BY <1>1, <1>2, SameHistory, SamePhases, SameDifferences
<1>6. Untouched'
  BY <1>2 DEF Untouched
<1>7. IndexedIsThere'
  BY <1>2, <1>3 DEF IndexedIsThere
<1>8. TimesAreUnique'
  BY <1>1, <1>2, SameTimes DEF TimesAreUnique
<1>9. RecordedIsThere'
  BY <1>1, <1>2, SameRecorded
<1>10. QED
  BY <1>4, <1>5, <1>6, <1>7, <1>8, <1>9 DEF IInv

\* A snapshot begins with nothing indexed, and what the source was is remembered.
LEMMA BeginIInv == ASSUME IInv, BeginSnapshot PROVE IInv'
<1>1. /\ Types_ /\ History /\ Phases /\ Differences
      /\ Untouched /\ TimesAreUnique /\ IndexedIsThere /\ RecordedIsThere
  BY DEF IInv
<1>2. /\ phase = "idle" /\ phase' = "indexing" /\ toVisit' = Paths
      /\ Len(snapshots) < MaxSnapshots
      /\ scanned' = [scanned EXCEPT !.source = source]
      /\ UNCHANGED <<source, edits, algorithm, snapshots, index, toHash, diff, piped>>
  BY DEF BeginSnapshot
<1>3. index = <<>> /\ toHash = {} /\ diff = <<>> /\ piped = <<>>
  BY <1>1, <1>2 DEF Phases
<1>4. /\ scanned' \in Scan /\ scanned'.source = source
      /\ scanned'.renamedBefore = scanned.renamedBefore
  BY <1>1, <1>2 DEF Types_, Scan
<1>5. Types_'
  BY <1>1, <1>2, <1>4 DEF Types_
<1>6. History' /\ Differences'
  BY <1>1, <1>2, SameHistory, SameDifferences
<1>7. Phases'
  BY <1>1, <1>2, <1>3 DEF Phases
<1>8. Untouched'
  BY <1>2, <1>3, <1>4 DEF Untouched
<1>9. IndexedIsThere'
  BY <1>2, <1>3 DEF IndexedIsThere
<1>10. TimesAreUnique'
  BY <1>1, <1>2, SameTimes DEF TimesAreUnique
<1>11. RecordedIsThere'
  BY <1>1, <1>2, <1>4, SameRecorded
<1>12. QED
  BY <1>5, <1>6, <1>7, <1>8, <1>9, <1>10, <1>11 DEF IInv

\* The attributes of a file are those of its content, and its time.
LEMMA AttributesOfIs ==
    ASSUME NEW file \in File
    PROVE  LET c == file.content
               a == AttributesOf(file)
           IN  /\ c \in Contents /\ a \in Attributes
               /\ a.type = TypeOf[c] /\ a.size = SizeOf[c] /\ a.mtime = file.mtime
<1>1. file.content \in Contents /\ file.mtime \in Times
  BY DEF File
<1>2. TypeOf[file.content] \in Types /\ SizeOf[file.content] \in Nat
  BY <1>1, SizesAssumption
<1>3. QED
  BY <1>1, <1>2 DEF AttributesOf, Attributes

\* What is indexed of a file is what add-snapshot later compares with.
LEMMA IndexFileIInv == ASSUME IInv, NEW p \in Paths, IndexFile(p) PROVE IInv'
<1>1. /\ Types_ /\ History /\ Phases /\ Differences
      /\ Untouched /\ TimesAreUnique /\ IndexedIsThere /\ RecordedIsThere
  BY DEF IInv
<1>2. /\ phase = "indexing" /\ p \in toVisit /\ toVisit' = toVisit \ {p}
      /\ index' = IF p \in DOMAIN source THEN Extend(index, p, AttributesOf(source[p])) ELSE index
      /\ UNCHANGED <<source, edits, algorithm, snapshots, phase, toHash, diff, piped, scanned>>
  BY DEF IndexFile
<1>3. toHash = {} /\ diff = <<>> /\ piped = <<>>
  BY <1>1, <1>2 DEF Phases
<1>4. p \in DOMAIN source =>
        LET c == source[p].content
            a == AttributesOf(source[p])
        IN  /\ c \in Contents /\ a \in Attributes
            /\ a.type = TypeOf[c] /\ a.size = SizeOf[c] /\ a.mtime = source[p].mtime
  <2>1. p \in DOMAIN source => source[p] \in File
    BY <1>1, PartialIs DEF Types_
  <2>2. QED
    BY <2>1, AttributesOfIs
<1>5. /\ index' \in PartialFunctions(Paths, Attributes)
      /\ DOMAIN index' = IF p \in DOMAIN source THEN DOMAIN index \cup {p} ELSE DOMAIN index
      /\ p \in DOMAIN source => index'[p] = AttributesOf(source[p])
      /\ p \notin DOMAIN index
      /\ \A q \in DOMAIN index : index'[q] = index[q]
  <2>1. index \in PartialFunctions(Paths, Attributes)
    BY <1>1 DEF Types_
  <2>2. p \notin DOMAIN index
    BY <1>1, <1>2 DEF Phases
  <2>3. CASE p \in DOMAIN source
    <3>1. AttributesOf(source[p]) \in Attributes
      BY <1>4, <2>3
    <3>2. index' = Extend(index, p, AttributesOf(source[p]))
      BY <1>2, <2>3
    <3>3. QED
      BY <2>1, <2>2, <2>3, <3>1, <3>2, ExtendIs
  <2>4. CASE p \notin DOMAIN source
    BY <1>2, <2>1, <2>2, <2>4
  <2>5. QED
    BY <2>3, <2>4
<1>6. Types_'
  <2>1. /\ toHash' \in SUBSET DOMAIN index'
        /\ diff' \in PartialFunctions(DOMAIN index', Difference)
        /\ piped' \in PartialFunctions(DOMAIN diff', Contents)
    BY <1>2, <1>3, EmptyIsPartial
  <2>2. QED
    BY <1>1, <1>2, <1>5, <2>1 DEF Types_
<1>7. History'
  BY <1>1, <1>2, SameHistory
<1>8. Phases'
  <2>1. \A q \in DOMAIN index' :
            \E c \in Contents : index'[q].type = TypeOf[c] /\ index'[q].size = SizeOf[c]
    BY <1>1, <1>4, <1>5 DEF Phases
  <2>2. DOMAIN index' \cap toVisit' = {}
    BY <1>1, <1>2, <1>5 DEF Phases
  <2>3. QED
    BY <1>1, <1>2, <1>3, <2>1, <2>2 DEF Phases
<1>9. Differences'
  BY <1>2, <1>3 DEF Differences
<1>10. \A q \in DOMAIN index' : Tracks(q)' <=>
            /\ q \in DOMAIN source
            /\ index'[q] = AttributesOf(source[q])
  BY <1>2, <1>3 DEF Tracks
<1>11. \A q \in DOMAIN index : Tracks(q) => Tracks(q)'
  BY <1>5, <1>10 DEF Tracks
<1>12. Untouched'
  <2> SUFFICES ASSUME NEW q \in Paths \ scanned.touched
               PROVE  /\ q \in DOMAIN source <=> q \in DOMAIN scanned.source
                      /\ q \in DOMAIN source => source[q] = scanned.source[q]
                      /\ q \notin toVisit' /\ q \in DOMAIN source => q \in DOMAIN index'
                      /\ q \in DOMAIN index' => Tracks(q)'
    BY <1>2 DEF Untouched
  <2>1. /\ q \in DOMAIN source <=> q \in DOMAIN scanned.source
        /\ q \in DOMAIN source => source[q] = scanned.source[q]
        /\ q \notin toVisit /\ q \in DOMAIN source => q \in DOMAIN index
        /\ q \in DOMAIN index => Tracks(q)
    BY <1>1, <1>2 DEF Untouched
  <2>2. q \notin toVisit' /\ q \in DOMAIN source => q \in DOMAIN index'
    BY <1>2, <1>5, <2>1
  <2>3. q \in DOMAIN index' => Tracks(q)'
    BY <1>5, <1>10, <1>11, <2>1
  <2>4. QED
    BY <2>1, <2>2, <2>3
<1>13. TimesAreUnique'
  <2>1. \A q \in DOMAIN index' : index'[q].mtime < Now
    BY <1>1, <1>4, <1>5 DEF TimesAreUnique
  <2>2. QED
    BY <1>1, <1>2, <2>1, SameTimes
<1>14. IndexedIsThere'
  <2> SUFFICES ASSUME ~scanned.renamed, NEW r \in DOMAIN index', NEW q \in DOMAIN source,
                      source[q].mtime = index'[r].mtime
               PROVE  q = r /\ Tracks(r)'
    BY <1>2 DEF IndexedIsThere
  <2>1. CASE r \in DOMAIN index
    BY <1>1, <1>5, <1>11, <2>1 DEF IndexedIsThere
  <2>2. CASE r \notin DOMAIN index
    <3>1. r = p /\ p \in DOMAIN source /\ index'[p] = AttributesOf(source[p])
      BY <1>5, <2>2
    <3>2. q = p
      BY <1>1, <1>4, <3>1 DEF TimesAreUnique
    <3>3. QED
      BY <1>10, <3>1, <3>2
  <2>3. QED
    BY <2>1, <2>2
<1>15. RecordedIsThere'
  BY <1>1, <1>2, SameRecorded
<1>16. QED
  BY <1>6, <1>7, <1>8, <1>9, <1>12, <1>13, <1>14, <1>15 DEF IInv

-----------------------------------------------------------------------------
\* The nodes of all snapshots are good.
LEMMA NodeOfHistory ==
    ASSUME History, NEW i \in DOMAIN snapshots, NEW p \in DOMAIN snapshots[i].nodes
    PROVE  p \in Paths /\ GoodNode(snapshots[i].nodes[p])
<1>1. snapshots[i] \in Snapshot /\ GoodSnapshot(snapshots[i])
  BY DEF History
<1>2. snapshots[i].nodes \in PartialFunctions(Paths, Node)
  BY <1>1 DEF Snapshot
<1>3. QED
  BY <1>1, <1>2, PartialIs DEF GoodSnapshot

\* Path q of snapshot i has hash h: it is the same path, or the one from which the
\* node was moved; if no path of it has this hash the data is new.
HasContentAt(i, q, h) ==
    LET n == snapshots[i].nodes[q]
    IN  /\ q \in DOMAIN snapshots[i].nodes /\ n.type # "directory"
        /\ HashIn(n) = h /\ n.type = TypeOf[h] /\ n.size = SizeOf[h]
ClassifyAt(i, p, h) ==
    Classify(snapshots[i].hashIndex[algorithm.is], snapshots[i].nodes, p, h)

\* What the hash index of a snapshot says of a hash: no node has it, the node at the
\* same path has it, or one at another path.
LEMMA ClassifyAtIs ==
    ASSUME History, NEW i \in DOMAIN snapshots, algorithm.is \in Algorithms, NEW p, NEW h
    PROVE  \/ /\ ClassifyAt(i, p, h) = NewData
              /\ \A q \in DOMAIN snapshots[i].nodes :
                    algorithm.is \in DOMAIN snapshots[i].nodes[q].hashes =>
                        snapshots[i].nodes[q].hashes[algorithm.is] # h
           \/ ClassifyAt(i, p, h) = SameNode /\ HasContentAt(i, p, h)
           \/ \E q \in Paths : /\ ClassifyAt(i, p, h) = [kind |-> "moved", from |-> q]
                               /\ q # p /\ HasContentAt(i, q, h)
<1> DEFINE nodes == snapshots[i].nodes
           hi == snapshots[i].hashIndex[algorithm.is]
           hashed == {q \in DOMAIN nodes : algorithm.is \in DOMAIN nodes[q].hashes}
<1>1. /\ GoodSnapshot(snapshots[i])
      /\ \A q \in DOMAIN nodes : q \in Paths /\ GoodNode(nodes[q])
  BY NodeOfHistory DEF History
<1>2. /\ DOMAIN hi = {nodes[q].hashes[algorithm.is] : q \in hashed}
      /\ \A g \in DOMAIN hi : hi[g] \in hashed /\ nodes[hi[g]].hashes[algorithm.is] = g
  <2>1. Finds(snapshots[i], algorithm.is)
    BY <1>1 DEF GoodSnapshot
  <2>2. QED
    BY <2>1 DEF Finds
<1>3. ClassifyAt(i, p, h) = Classify(hi, nodes, p, h)
  BY DEF ClassifyAt
<1>. HIDE DEF hi
<1>4. CASE h \notin DOMAIN hi
  BY <1>2, <1>3, <1>4 DEF Classify
<1>5. CASE h \in DOMAIN hi
  <2> DEFINE q == hi[h]
  <2>1. q \in hashed /\ nodes[q].hashes[algorithm.is] = h
    BY <1>2, <1>5
  <2>2. ClassifyAt(i, p, h) = IF q = p THEN SameNode ELSE [kind |-> "moved", from |-> q]
    BY <1>3, <1>5 DEF Classify
  <2>. HIDE DEF q
  <2>3. GoodNode(nodes[q]) /\ q \in Paths /\ q \in DOMAIN nodes
    BY <1>1, <2>1
  <2>4. nodes[q].type # "directory" /\ HashIn(nodes[q]) = h
    BY <2>1, <2>3, GoodHashes
  <2>5. HasContentAt(i, q, h)
    BY <2>3, <2>4, GoodHash DEF HasContentAt
  <2>6. QED
    BY <2>2, <2>3, <2>5
<1>6. QED
  BY <1>4, <1>5

HasContent(q, h) == HasContentAt(Len(snapshots), q, h)
LastClassify(p, h) ==
    Classify(snapshots[Len(snapshots)].hashIndex[algorithm.is], LastIndex, p, h)

\* A node that has a content has its hash, its type and its size.
LEMMA HasContentIs ==
    ASSUME NEW q, NEW h, HasContent(q, h)
    PROVE  /\ q \in DOMAIN LastIndex /\ LastIndex[q].type # "directory"
           /\ HashIn(LastIndex[q]) = h
           /\ LastIndex[q].type = TypeOf[h] /\ LastIndex[q].size = SizeOf[h]
BY DEF HasContent, HasContentAt, LastIndex

\* So what the difference resolver concludes from the last snapshot is true of it.
LEMMA ClassifyIs ==
    ASSUME History, snapshots # <<>>, algorithm.is \in Algorithms, NEW p, NEW h
    PROVE  \/ /\ LastClassify(p, h) = NewData
              /\ \A q \in DOMAIN LastIndex : algorithm.is \in DOMAIN LastIndex[q].hashes =>
                    LastIndex[q].hashes[algorithm.is] # h
           \/ LastClassify(p, h) = SameNode /\ HasContent(p, h)
           \/ \E q \in Paths : /\ LastClassify(p, h) = [kind |-> "moved", from |-> q]
                               /\ HasContent(q, h)
<1>1. Len(snapshots) \in DOMAIN snapshots
  BY LastIs
<1>2. LastClassify(p, h) = ClassifyAt(Len(snapshots), p, h)
  BY DEF LastClassify, ClassifyAt, LastIndex
<1>3. QED
  BY <1>1, <1>2, ClassifyAtIs DEF HasContent, LastIndex

\* The unchanged nodes need no hash.
LEMMA CompareIInv == ASSUME IInv, CompareIndexes PROVE IInv'
<1>1. /\ Types_ /\ History /\ Phases /\ Differences
      /\ Untouched /\ TimesAreUnique /\ IndexedIsThere /\ RecordedIsThere
  BY DEF IInv
<1>2. /\ phase = "indexing" /\ toVisit = {} /\ phase' = "adding"
      /\ snapshots = <<>> => toHash' = {} /\ diff' = [p \in DOMAIN index |-> NewData]
      /\ snapshots # <<>> =>
            /\ toHash' = ComputeDifference(index, LastIndex)
            /\ diff' = [p \in DOMAIN index \ toHash' |-> SameNode]
      /\ UNCHANGED <<source, edits, algorithm, snapshots, toVisit, index, piped, scanned>>
  BY DEF CompareIndexes, NewData, SameNode
<1>3. toHash = {} /\ diff = <<>> /\ piped = <<>>
  BY <1>1, <1>2 DEF Phases
<1>4. /\ toHash' \in SUBSET DOMAIN index
      /\ DOMAIN diff' = DOMAIN index \ toHash'
      /\ \A p \in toHash' : Changed(p)
      /\ \A p \in DOMAIN diff' : ~Changed(p)
      /\ \A p \in DOMAIN diff' : diff'[p] = IF snapshots = <<>> THEN NewData ELSE SameNode
  BY <1>2 DEF Changed, ComputeDifference
<1>5. Types_'
  <2>1. diff' \in [DOMAIN diff' -> Difference]
    <3>1. NewData \in Difference /\ SameNode \in Difference
      BY DEF NewData, SameNode, Difference
    <3>2. QED
      BY <1>2, <3>1
  <2>2. diff' \in PartialFunctions(DOMAIN index, Difference)
    BY <1>4, <2>1, PartialIs
  <2>3. piped' \in PartialFunctions(DOMAIN diff', Contents)
    BY <1>2, <1>3, EmptyIsPartial
  <2>4. QED
    BY <1>1, <1>2, <1>4, <2>2, <2>3 DEF Types_
<1>6. History'
  BY <1>1, <1>2, SameHistory
<1>7. \A p : Changed(p)' <=> Changed(p)
  BY <1>2, SameChanged
<1>8. Phases'
  BY <1>1, <1>2, <1>4, <1>7 DEF Phases, NewData
<1>9. Differences'
  <2> SUFFICES ASSUME NEW p \in DOMAIN diff' PROVE GoodDifference(p)'
    BY DEF Differences
  <2>1. ~Changed(p) /\ p \in DOMAIN index
    BY <1>4
  <2>2. CASE snapshots = <<>>
    <3>1. diff'[p] = NewData /\ p \notin DOMAIN piped'
      BY <1>2, <1>3, <1>4, <2>2
    <3>2. QED
      BY <1>2, <2>2, <3>1 DEF GoodDifference, NewData
  <2>3. CASE snapshots # <<>>
    <3>1. diff'[p] = SameNode
      BY <1>4, <2>3
    <3>2. p \in DOMAIN LastIndex /\ SameSize(index[p], LastIndex[p])
      BY <2>1, <2>3 DEF Changed, ComputeDifference, SameAttributes
    <3>3. LastIndex' = LastIndex
      BY <1>2 DEF LastIndex
    <3>4. QED
      BY <1>2, <2>3, <3>1, <3>2, <3>3 DEF GoodDifference, SameNode
  <2>4. QED
    BY <2>2, <2>3
<1>10. \A p \in DOMAIN index : Tracks(p) => Tracks(p)'
  BY <1>2, <1>3, <1>4, <1>7 DEF Tracks
<1>11. Untouched'
  BY <1>1, <1>2, <1>10 DEF Untouched
<1>12. TimesAreUnique'
  BY <1>1, <1>2, SameTimes DEF TimesAreUnique
<1>13. IndexedIsThere'
  BY <1>1, <1>2, <1>10 DEF IndexedIsThere
<1>14. RecordedIsThere'
  BY <1>1, <1>2, SameRecorded
<1>15. QED
  BY <1>5, <1>6, <1>8, <1>9, <1>11, <1>12, <1>13, <1>14 DEF IInv

\* A node with another time or size is moved, unchanged but for its time, or new data;
\* whichever it is, the data it refers to is as long as what was indexed.
LEMMA HashNodeIInv == ASSUME IInv, NEW p \in Paths, HashNode(p) PROVE IInv'
<1> DEFINE d == IF index[p].type = "directory" THEN NewData
                ELSE LastClassify(p, source[p].content)
<1>1. /\ Types_ /\ History /\ Phases /\ Differences
      /\ Untouched /\ TimesAreUnique /\ IndexedIsThere /\ RecordedIsThere
  BY DEF IInv
<1>2. /\ phase = "adding" /\ p \in toHash /\ toHash' = toHash \ {p}
      /\ index[p].type = "directory" \/ Readable(p)
      /\ diff' = Extend(diff, p, d)
      /\ UNCHANGED <<source, edits, algorithm, snapshots, phase, toVisit, index, piped, scanned>>
  BY DEF HashNode, LastClassify, LastIndex
<1>3. /\ snapshots # <<>> /\ Changed(p) /\ p \in DOMAIN index /\ p \notin DOMAIN diff
      /\ p \notin DOMAIN piped
  <2>1. p \in DOMAIN index /\ p \notin DOMAIN diff /\ Changed(p)
    BY <1>1, <1>2 DEF Phases, Types_
  <2>2. DOMAIN piped \subseteq DOMAIN diff
    BY <1>1, PartialIs DEF Types_
  <2>3. QED
    BY <2>1, <2>2 DEF Changed
<1>4. algorithm.is \in Algorithms
  BY <1>1 DEF Types_
<1>5. index[p].type # "directory" =>
        /\ p \in DOMAIN source
        /\ index[p].type = TypeOf[source[p].content] /\ index[p].size = SizeOf[source[p].content]
  BY <1>2 DEF Readable, SameSize, AttributesOf
<1>6. \/ d = NewData
      \/ /\ index[p].type # "directory"
         /\ \/ d = SameNode /\ HasContent(p, source[p].content)
            \/ \E q \in Paths :
                d = [kind |-> "moved", from |-> q] /\ HasContent(q, source[p].content)
  BY <1>1, <1>3, <1>4, ClassifyIs
<1>. HIDE DEF d
<1>7. d \in Difference
  BY <1>6 DEF Difference, NewData, SameNode
<1>8. /\ diff' \in PartialFunctions(DOMAIN index, Difference)
      /\ DOMAIN diff' = DOMAIN diff \cup {p}
      /\ diff'[p] = d
      /\ \A q \in DOMAIN diff \ {p} : diff'[q] = diff[q]
  <2>1. diff \in PartialFunctions(DOMAIN index, Difference)
    BY <1>1 DEF Types_
  <2>2. diff' = Extend(diff, p, d)
    BY <1>2
  <2>3. p \in DOMAIN index /\ d \in Difference
    BY <1>3, <1>7
  <2>4. DOMAIN diff \subseteq DOMAIN index /\ diff \in [DOMAIN diff -> Difference]
    BY <2>1, PartialIs
  <2>5. diff' \in [DOMAIN diff \cup {p} -> Difference]
    BY <2>2, <2>3, <2>4 DEF Extend
  <2>6. QED
    BY <2>2, <2>3, <2>4, <2>5, PartialIs DEF Extend
<1>9. Types_'
  <2>1. piped' \in PartialFunctions(DOMAIN diff', Contents)
    BY <1>1, <1>2, <1>8, PartialIs DEF Types_
  <2>2. toHash' \in SUBSET DOMAIN index'
    BY <1>1, <1>2 DEF Types_
  <2>3. QED
    BY <1>1, <1>2, <1>8, <2>1, <2>2 DEF Types_
<1>10. History'
  BY <1>1, <1>2, SameHistory
<1>11. \A q : Changed(q)' <=> Changed(q)
  BY <1>2, SameChanged
<1>12. Phases'
  <2>1. DOMAIN diff' = DOMAIN index' \ toHash'
    BY <1>1, <1>2, <1>3, <1>8 DEF Phases
  <2>2. QED
    BY <1>1, <1>2, <1>3, <1>11, <2>1 DEF Phases
<1>13. LastIndex' = LastIndex
  BY <1>2 DEF LastIndex
<1>14. Differences'
  <2> SUFFICES ASSUME NEW q \in DOMAIN diff' PROVE GoodDifference(q)'
    BY DEF Differences
  <2>1. CASE q # p
    <3>1. GoodDifference(q) /\ diff'[q] = diff[q]
      BY <1>1, <1>8, <2>1 DEF Differences
    <3>2. QED
      BY <1>2, <1>11, <1>13, <3>1 DEF GoodDifference, SameNode
  <2>2. CASE q = p /\ d = NewData
    BY <1>2, <1>3, <1>8, <1>11, <2>2 DEF GoodDifference, NewData
  <2>3. CASE /\ q = p /\ d = SameNode
             /\ index[p].type # "directory" /\ HasContent(p, source[p].content)
    <3>1. SameSize(index[p], LastIndex[p]) /\ p \in DOMAIN LastIndex
      BY <1>5, <2>3, HasContentIs DEF SameSize
    <3>2. QED
      BY <1>2, <1>3, <1>8, <1>11, <1>13, <2>3, <3>1 DEF GoodDifference, SameNode
  <2>4. CASE /\ q = p /\ index[p].type # "directory"
             /\ \E r \in Paths :
                    d = [kind |-> "moved", from |-> r] /\ HasContent(r, source[p].content)
    <3>1. PICK r \in Paths : d = [kind |-> "moved", from |-> r] /\ HasContent(r, source[p].content)
      BY <2>4
    <3>2. SameSize(index[p], LastIndex[r]) /\ r \in DOMAIN LastIndex
      BY <1>5, <2>4, <3>1, HasContentIs DEF SameSize
    <3>3. QED
      BY <1>2, <1>3, <1>8, <1>11, <1>13, <2>4, <3>1, <3>2 DEF GoodDifference
  <2>5. QED
    BY <1>6, <2>1, <2>2, <2>3, <2>4
<1>15. ASSUME NEW q \in DOMAIN index, Tracks(q) PROVE Tracks(q)'
  <2>1. LastClassify(q, source[q].content)' = LastClassify(q, source[q].content)
    BY <1>2 DEF LastClassify, LastIndex, Classify, NewData, SameNode
  <2>2. CASE q # p
    <3>1. (q \in DOMAIN diff' <=> q \in DOMAIN diff) /\ (q \in DOMAIN diff => diff'[q] = diff[q])
      BY <1>8, <2>2
    <3>2. QED
      BY <1>2, <1>11, <1>15, <2>1, <3>1 DEF Tracks, LastClassify
  <2>3. CASE q = p
    BY <1>2, <1>8, <1>15, <2>1, <2>3 DEF Tracks, LastClassify, d
  <2>4. QED
    BY <2>2, <2>3
<1>16. Untouched'
  BY <1>1, <1>2, <1>15 DEF Untouched
<1>17. TimesAreUnique'
  BY <1>1, <1>2, SameTimes DEF TimesAreUnique
<1>18. IndexedIsThere'
  BY <1>1, <1>2, <1>15 DEF IndexedIsThere
<1>19. RecordedIsThere'
  BY <1>1, <1>2, SameRecorded
<1>20. QED
  BY <1>9, <1>10, <1>12, <1>14, <1>16, <1>17, <1>18, <1>19 DEF IInv

\* What is piped has the size that was indexed.
LEMMA PipeNodeIInv == ASSUME IInv, NEW p \in Paths, PipeNode(p) PROVE IInv'
<1>1. /\ Types_ /\ History /\ Phases /\ Differences
      /\ Untouched /\ TimesAreUnique /\ IndexedIsThere /\ RecordedIsThere
  BY DEF IInv
<1>2. /\ phase = "adding" /\ p \in ToPipe /\ Readable(p)
      /\ piped' = Extend(piped, p, source[p].content)
      /\ UNCHANGED <<source, edits, algorithm, snapshots, phase, toVisit, index, toHash, diff, scanned>>
  BY DEF PipeNode
<1>3. p \in DOMAIN diff /\ p \in DOMAIN source
  BY <1>2 DEF ToPipe, Readable
<1>4. source[p].content \in Contents
  <2>1. source[p] \in File
    BY <1>1, <1>3, PartialIs DEF Types_
  <2>2. QED
    BY <2>1 DEF File
<1>5. TypeOf[source[p].content] = index[p].type /\ SizeOf[source[p].content] = index[p].size
  BY <1>2 DEF Readable, SameSize, AttributesOf
<1>6. /\ piped' \in PartialFunctions(DOMAIN diff, Contents)
      /\ DOMAIN piped' = DOMAIN piped \cup {p}
      /\ piped'[p] = source[p].content
      /\ \A q \in DOMAIN piped \ {p} : piped'[q] = piped[q]
  <2>1. piped \in PartialFunctions(DOMAIN diff, Contents)
    BY <1>1 DEF Types_
  <2>2. piped' = Extend(piped, p, source[p].content)
    BY <1>2
  <2>3. p \in DOMAIN diff /\ source[p].content \in Contents
    BY <1>3, <1>4
  <2>4. DOMAIN piped \subseteq DOMAIN diff /\ piped \in [DOMAIN piped -> Contents]
    BY <2>1, PartialIs
  <2>5. piped' \in [DOMAIN piped \cup {p} -> Contents]
    BY <2>2, <2>3, <2>4 DEF Extend
  <2>6. QED
    BY <2>2, <2>3, <2>4, <2>5, PartialIs DEF Extend
<1>7. Types_'
  BY <1>1, <1>2, <1>6 DEF Types_
<1>8. History'
  BY <1>1, <1>2, SameHistory
<1>9. \A q : Changed(q)' <=> Changed(q)
  BY <1>2, SameChanged
<1>10. LastIndex' = LastIndex
  BY <1>2 DEF LastIndex
<1>11. Phases'
  BY <1>1, <1>2, <1>9 DEF Phases, NewData
<1>12. Differences'
  <2> SUFFICES ASSUME NEW q \in DOMAIN diff PROVE GoodDifference(q)'
    BY <1>2 DEF Differences
  <2>1. GoodDifference(q)
    BY <1>1 DEF Differences
  <2>2. diff[q].kind = "data" /\ q \in DOMAIN piped' =>
            TypeOf[piped'[q]] = index[q].type /\ SizeOf[piped'[q]] = index[q].size
    BY <1>5, <1>6, <2>1 DEF GoodDifference
  <2>3. QED
    BY <1>2, <1>9, <1>10, <2>1, <2>2 DEF GoodDifference, SameNode
<1>13. ASSUME NEW q \in DOMAIN index, Tracks(q) PROVE Tracks(q)'
  <2>1. q \in DOMAIN piped' => piped'[q] = source[q].content
    BY <1>6, <1>13 DEF Tracks
  <2>2. LastClassify(q, source[q].content)' = LastClassify(q, source[q].content)
    BY <1>2 DEF LastClassify, LastIndex, Classify, NewData, SameNode
  <2>3. QED
    BY <1>2, <1>9, <1>13, <2>1, <2>2 DEF Tracks, LastClassify
<1>14. Untouched'
  BY <1>1, <1>2, <1>13 DEF Untouched
<1>15. TimesAreUnique'
  BY <1>1, <1>2, SameTimes DEF TimesAreUnique
<1>16. IndexedIsThere'
  BY <1>1, <1>2, <1>13 DEF IndexedIsThere
<1>17. RecordedIsThere'
  BY <1>1, <1>2, SameRecorded
<1>18. QED
  BY <1>7, <1>8, <1>11, <1>12, <1>14, <1>15, <1>16, <1>17 DEF IInv

-----------------------------------------------------------------------------
\* The command ends and leaves no new snapshot.
LEMMA AbortIInv == ASSUME IInv, Abort PROVE IInv'
<1>1. /\ Types_ /\ History /\ Phases /\ Differences
      /\ Untouched /\ TimesAreUnique /\ IndexedIsThere /\ RecordedIsThere
  BY DEF IInv
<1>2. /\ phase' = "idle" /\ toVisit' = {} /\ index' = <<>> /\ toHash' = {}
      /\ diff' = <<>> /\ piped' = <<>>
      /\ scanned' = [source |-> <<>>, touched |-> {}, renamed |-> FALSE,
                     renamedBefore |-> scanned.renamedBefore \/ FALSE]
      /\ UNCHANGED <<source, edits, algorithm, snapshots>>
  BY DEF Abort, EndOfCommand
<1>3. Types_'
  <2>1. scanned' \in Scan
    BY <1>2, EmptyIsPartial DEF Scan
  <2>2. /\ index' \in PartialFunctions(Paths, Attributes)
        /\ diff' \in PartialFunctions(DOMAIN index', Difference)
        /\ piped' \in PartialFunctions(DOMAIN diff', Contents)
    BY <1>2, EmptyIsPartial
  <2>3. QED
    BY <1>1, <1>2, <2>1, <2>2 DEF Types_
<1>4. History'
  BY <1>1, <1>2, SameHistory
<1>5. Phases' /\ Differences'
  BY <1>2 DEF Phases, Differences
<1>6. Untouched' /\ IndexedIsThere'
  BY <1>2 DEF Untouched, IndexedIsThere
<1>7. TimesAreUnique'
  BY <1>1, <1>2, SameTimes
<1>8. RecordedIsThere'
  BY <1>1, <1>2, SameRecorded
<1>9. QED
  BY <1>3, <1>4, <1>5, <1>6, <1>7, <1>8 DEF IInv

\* The snapshot s that is added has a node for each path that was indexed.
IsAdded(s) ==
    /\ s \in Snapshot /\ GoodSnapshot(s)
    /\ DOMAIN s.nodes = DOMAIN index /\ DOMAIN diff = DOMAIN index
    /\ \A p \in DOMAIN index : IsNodeOf(s.nodes[p], p) /\ s.how[p] = diff[p].kind

\* What the end of an addition appends: a snapshot with the node each difference calls
\* for at every indexed path, and a hash index of them.
LEMMA FinishIs ==
    ASSUME IInv, FinishSnapshot
    PROVE  \E s : snapshots' = Append(snapshots, s) /\ IsAdded(s)
<1> DEFINE nodes == [p \in DOMAIN index |-> NodeOf(p)]
           how == [p \in DOMAIN diff |-> diff[p].kind]
           s(hi) == [nodes |-> nodes, hashIndex |-> hi, how |-> how]
<1>1. Types_ /\ History /\ Phases /\ Differences
  BY DEF IInv
<1>2. /\ phase = "adding" /\ toHash = {} /\ ToPipe = {}
      /\ \E o \in Orders : snapshots' = Append(snapshots, s(HashIndex(o, nodes)))
  BY DEF FinishSnapshot, NodeOf
<1>3. PICK o \in Orders : snapshots' = Append(snapshots, s(HashIndex(o, nodes)))
  BY <1>2
<1>4. DOMAIN nodes = DOMAIN index /\ DOMAIN diff = DOMAIN index /\ DOMAIN how = DOMAIN index
  BY <1>1, <1>2 DEF Phases
<1>5. \A p \in DOMAIN index : IsNodeOf(nodes[p], p) /\ GoodNode(nodes[p])
  <2>1. \A p \in DOMAIN index : IsNodeOf(NodeOf(p), p)
    BY <1>1, <1>2, NodeOfIs
  <2>2. QED
    BY <2>1 DEF IsNodeOf
<1>6. \A p \in DOMAIN index : how[p] = diff[p].kind /\ how[p] \in Kinds
  BY <1>1, <1>4, IndexedIs DEF Difference, Kinds
<1>7. how = [p \in DOMAIN index |-> how[p]]
  BY <1>4
<1>8. nodes = [p \in DOMAIN index |-> nodes[p]]
  OBVIOUS
<1>. HIDE DEF nodes, how
<1>9. DOMAIN index \subseteq Paths
  BY <1>1, PartialIs DEF Types_
<1>10. nodes \in PartialFunctions(Paths, Node)
  <2>1. nodes \in [DOMAIN index -> Node]
    BY <1>5, <1>8 DEF GoodNode
  <2>2. QED
    BY <1>4, <1>9, <2>1, PartialIs
<1>11. how \in PartialFunctions(Paths, Kinds)
  <2>1. how \in [DOMAIN index -> Kinds]
    BY <1>6, <1>7
  <2>2. QED
    BY <1>4, <1>9, <2>1, PartialIs
<1> DEFINE hi == HashIndex(o, nodes)
<1>12. \A a \in Algorithms : hi[a] \in PartialFunctions(Contents, Paths)
  BY <1>1, <1>4, <1>5, HashIndexFinds DEF Types_
<1>13. \A a \in Algorithms : Finds(s(hi), a)
  BY <1>1, <1>4, <1>5, HashIndexFinds DEF Types_, Finds
<1>14. hi = [a \in Algorithms |-> hi[a]]
  BY DEF HashIndex
<1>. HIDE DEF hi
<1>15. hi \in [Algorithms -> PartialFunctions(Contents, Paths)]
  BY <1>12, <1>14
<1>16. s(hi) \in Snapshot
  BY <1>10, <1>11, <1>15 DEF Snapshot
<1>17. GoodSnapshot(s(hi))
  BY <1>4, <1>5, <1>13 DEF GoodSnapshot
<1>18. IsAdded(s(hi))
  BY <1>4, <1>5, <1>6, <1>16, <1>17 DEF IsAdded
<1>19. QED
  BY <1>3, <1>18 DEF hi

\* A node that was moved, or whose metadata changed, is linked to the snapshot before.
LEMMA AddedLinked ==
    ASSUME Types_, History, Phases, Differences, NEW s, IsAdded(s),
           snapshots' = Append(snapshots, s), Len(snapshots) < MaxSnapshots
    PROVE  History'
<1>1. /\ snapshots \in Seq(Snapshot) /\ Len(snapshots) \in Nat /\ s \in Snapshot
      /\ \A i \in DOMAIN snapshots : GoodSnapshot(snapshots[i]) /\ Linked(i)
  BY DEF History, IsAdded
<1>0. PICK n \in Nat : n = Len(snapshots)
  BY <1>1
<1>2. /\ snapshots' \in Seq(Snapshot) /\ Len(snapshots') = n + 1
      /\ snapshots'[n + 1] = s
      /\ \A i \in 1..n : snapshots'[i] = snapshots[i]
      /\ DOMAIN snapshots = 1..n /\ DOMAIN snapshots' = 1..n + 1
  BY <1>0, <1>1
<1>3. ASSUME NEW i \in 1..n PROVE Linked(i)'
  <2>1. Linked(i) /\ snapshots'[i] = snapshots[i]
    BY <1>0, <1>1, <1>2
  <2>2. i > 1 => snapshots'[i - 1] = snapshots[i - 1]
    BY <1>0, <1>1, <1>2
  <2>3. QED
    BY <2>1, <2>2 DEF Linked
<1>4. Linked(n + 1)'
  <2> SUFFICES ASSUME NEW p \in DOMAIN index,
                      ~HasNodeData(s.nodes[p]),
                      s.how[p] = "metadata" => s.nodes[p].owner = <<>>
               PROVE  /\ n > 0
                      /\ Parent(s.nodes[p], p) \in DOMAIN snapshots[n].nodes
                      /\ snapshots[n].nodes[Parent(s.nodes[p], p)].hashes = s.nodes[p].hashes
    BY <1>0, <1>1, <1>2 DEF Linked, IsAdded
  <2>1. /\ IsNodeOf(s.nodes[p], p) /\ s.how[p] = diff[p].kind
        /\ diff[p] \in Difference /\ GoodDifference(p)
    BY IndexedIs DEF IsAdded, Differences
  <2>2. ~s.nodes[p].owns /\ s.nodes[p].size # 0 /\ s.nodes[p].size = index[p].size
    BY <2>1 DEF HasNodeData, IsNodeOf
  <2>3. index[p].size > 0
    BY <2>2, IndexedIs DEF Attributes
  <2>4. diff[p].kind # "data"
    BY <2>1, <2>2, <2>3 DEF IsNodeOf
  <2>5. n > 0 /\ LastIndex = snapshots[n].nodes
    BY <1>0, <1>1, <2>1, <2>4 DEF IsNodeOf, LastIndex
  <2>6. CASE diff[p].kind = "metadata"
    <3>1. s.nodes[p].owner = <<>> /\ Parent(s.nodes[p], p) = p
      BY <2>1, <2>6 DEF Parent
    <3>2. p \in DOMAIN LastIndex
      BY <2>1, <2>6 DEF GoodDifference
    <3>3. QED
      BY <2>1, <2>5, <2>6, <3>1, <3>2 DEF IsNodeOf
  <2>7. CASE diff[p].kind = "moved"
    <3>1. s.nodes[p].owner = <<diff[p].from>>
      BY <2>1, <2>2, <2>3, <2>7 DEF IsNodeOf
    <3>2. Parent(s.nodes[p], p) = diff[p].from
      BY <3>1 DEF Parent
    <3>3. diff[p].from \in DOMAIN LastIndex
      BY <2>1, <2>7 DEF GoodDifference
    <3>4. QED
      BY <2>1, <2>5, <2>7, <3>2, <3>3 DEF IsNodeOf
  <2>8. QED
    BY <2>1, <2>4, <2>6, <2>7 DEF Difference
<1>5. \A i \in DOMAIN snapshots' : GoodSnapshot(snapshots'[i])
  BY <1>0, <1>1, <1>2 DEF IsAdded
<1>6. \A i \in DOMAIN snapshots' : Linked(i)'
  BY <1>2, <1>3, <1>4
<1>7. Len(snapshots') <= MaxSnapshots
  BY <1>0, <1>1, <1>2, BoundsAssumption
<1>8. QED
  BY <1>2, <1>5, <1>6, <1>7 DEF History

\* A node of which add-snapshot has read what is in the source gets its content's hash.
LEMMA AddedHasContent ==
    ASSUME IInv, NEW s, IsAdded(s), NEW p \in DOMAIN index, Tracks(p),
           index[p].type # "directory", ~scanned.renamedBefore
    PROVE  HashIn(s.nodes[p]) = source[p].content
<1> DEFINE n == s.nodes[p]
           c == source[p].content
<1>1. Types_ /\ History /\ Phases /\ Differences /\ RecordedIsThere
  BY DEF IInv
<1>2. /\ IsNodeOf(n, p) /\ p \in DOMAIN diff /\ diff[p] \in Difference /\ GoodDifference(p)
      /\ algorithm.is \in Algorithms
  BY <1>1, IndexedIs DEF IsAdded, Differences, Types_
<1>3. /\ p \in DOMAIN source /\ index[p] = AttributesOf(source[p])
      /\ p \in DOMAIN piped => piped[p] = c
      /\ Changed(p) => diff[p] = LastClassify(p, c)
  BY <1>2 DEF Tracks, LastClassify, LastIndex
<1>. HIDE DEF n, c
<1>4. CASE diff[p].kind = "data"
  <2>1. p \in DOMAIN piped /\ HashIn(n) = piped[p]
    BY <1>2, <1>4 DEF IsNodeOf
  <2>2. QED
    BY <1>3, <2>1 DEF n, c
<1>5. CASE diff[p].kind # "data" /\ Changed(p)
  <2>1. snapshots # <<>> /\ diff[p] # NewData
    BY <1>2, <1>5 DEF IsNodeOf, NewData
  <2>2. \/ diff[p] = SameNode /\ HasContent(p, c)
        \/ \E q \in Paths : diff[p] = [kind |-> "moved", from |-> q] /\ HasContent(q, c)
    BY <1>1, <1>2, <1>3, <1>5, <2>1, ClassifyIs
  <2>3. CASE diff[p] = SameNode /\ HasContent(p, c)
    <3>1. n.hashes = LastIndex[p].hashes
      BY <1>2, <2>3 DEF IsNodeOf, SameNode
    <3>2. HashIn(n) = HashIn(LastIndex[p])
      BY <3>1 DEF HashIn
    <3>3. QED
      BY <2>3, <3>2, HasContentIs DEF n, c
  <2>4. ASSUME NEW q \in Paths, diff[p] = [kind |-> "moved", from |-> q], HasContent(q, c)
        PROVE  HashIn(n) = c
    <3>1. n.hashes = LastIndex[q].hashes
      BY <1>2, <2>4 DEF IsNodeOf
    <3>2. HashIn(n) = HashIn(LastIndex[q])
      BY <3>1 DEF HashIn
    <3>3. QED
      BY <2>4, <3>2, HasContentIs
  <2>5. QED
    BY <2>2, <2>3, <2>4 DEF n, c
<1>6. CASE diff[p].kind # "data" /\ ~Changed(p)
  <2>1. snapshots # <<>> /\ diff[p] = SameNode
    BY <1>2, <1>6 DEF IsNodeOf, GoodDifference
  <2>2. n.hashes = LastIndex[p].hashes
    BY <1>2, <2>1 DEF IsNodeOf, SameNode
  <2>3. p \in DOMAIN LastIndex /\ SameAttributes(index[p], LastIndex[p])
    BY <1>6, <2>1 DEF Changed, ComputeDifference
  <2>4. source[p].mtime = LastIndex[p].mtime /\ LastIndex[p].type # "directory"
    BY <1>3, <2>3 DEF SameAttributes, SameSize, AttributesOf
  <2>5. HashIn(LastIndex[p]) = c
    BY <1>1, <1>3, <2>1, <2>3, <2>4 DEF RecordedIsThere, c
  <2>6. QED
    BY <2>2, <2>5 DEF HashIn, n, c
<1>7. QED
  BY <1>4, <1>5, <1>6

\* The snapshot that is appended is a good one, linked to the one before.
LEMMA FinishIInv == ASSUME IInv, FinishSnapshot PROVE IInv'
<1>1. /\ Types_ /\ History /\ Phases /\ Differences
      /\ Untouched /\ TimesAreUnique /\ IndexedIsThere /\ RecordedIsThere
  BY DEF IInv
<1>2. /\ phase' = "idle" /\ toVisit' = {} /\ index' = <<>> /\ toHash' = {}
      /\ diff' = <<>> /\ piped' = <<>>
      /\ scanned' = [source |-> <<>>, touched |-> {}, renamed |-> FALSE,
                     renamedBefore |-> scanned.renamedBefore \/ scanned.renamed]
      /\ UNCHANGED <<source, edits, algorithm>>
      /\ phase = "adding"
  BY DEF FinishSnapshot, EndOfCommand
<1>3. PICK s : snapshots' = Append(snapshots, s) /\ IsAdded(s)
  BY FinishIs
<1>4. Types_'
  <2>1. scanned' \in Scan
    BY <1>1, <1>2, EmptyIsPartial DEF Scan, Types_
  <2>2. /\ index' \in PartialFunctions(Paths, Attributes)
        /\ diff' \in PartialFunctions(DOMAIN index', Difference)
        /\ piped' \in PartialFunctions(DOMAIN diff', Contents)
    BY <1>2, EmptyIsPartial
  <2>3. QED
    BY <1>1, <1>2, <2>1, <2>2 DEF Types_
<1>5. History'
  BY <1>1, <1>2, <1>3, AddedLinked DEF Phases
<1>6. Phases' /\ Differences'
  BY <1>2 DEF Phases, Differences
<1>7. Untouched' /\ IndexedIsThere'
  BY <1>2 DEF Untouched, IndexedIsThere
<1>8. LastIndex' = s.nodes /\ DOMAIN s.nodes = DOMAIN index
  <2>1. snapshots \in Seq(Snapshot) /\ s \in Snapshot
    BY <1>1, <1>3 DEF History, IsAdded
  <2>2. QED
    BY <1>3, <2>1 DEF LastIndex, IsAdded
<1>9. \A p \in DOMAIN index :
        s.nodes[p].mtime = index[p].mtime /\ s.nodes[p].type = index[p].type
  BY <1>3 DEF IsAdded, IsNodeOf
<1>10. TimesAreUnique'
  BY <1>1, <1>2, <1>8, <1>9 DEF TimesAreUnique, Now
<1>11. RecordedIsThere'
  <2> SUFFICES ASSUME ~scanned'.renamedBefore,
                      NEW p \in DOMAIN index, NEW q \in DOMAIN source,
                      source[q].mtime = s.nodes[p].mtime, s.nodes[p].type # "directory"
               PROVE  HashIn(s.nodes[p]) = source[q].content
    BY <1>2, <1>8 DEF RecordedIsThere
  <2>1. ~scanned.renamedBefore /\ ~scanned.renamed
    BY <1>2
  <2>2. q = p /\ Tracks(p)
    BY <1>1, <1>9, <2>1 DEF IndexedIsThere
  <2>3. QED
    BY <1>3, <1>9, <2>1, <2>2, AddedHasContent
<1>12. QED
  BY <1>4, <1>5, <1>6, <1>7, <1>10, <1>11 DEF IInv

-----------------------------------------------------------------------------
\* Every step keeps the invariant.
LEMMA NextIInv == IInv /\ [Next]_vars => IInv'
<1> SUFFICES ASSUME IInv, [Next]_vars PROVE IInv'
  OBVIOUS
<1>1. CASE EditSource
  <2>1. ASSUME NEW p \in Paths, NEW c \in Contents, Write(p, c) PROVE IInv'
    BY <2>1, WriteIs, EditIInv DEF Write
  <2>2. ASSUME NEW p \in Paths, Remove(p) PROVE IInv'
    BY <2>2, RemoveIs, EditIInv DEF Remove
  <2>3. ASSUME NEW p \in Paths, NEW q \in Paths, Rename(p, q) PROVE IInv'
    BY <2>3, RenameIs, EditIInv DEF Rename
  <2>4. QED
    BY <1>1, <2>1, <2>2, <2>3 DEF EditSource
<1>2. CASE Reconfigure
  BY <1>2, ReconfigureIInv
<1>3. CASE BeginSnapshot
  BY <1>3, BeginIInv
<1>4. ASSUME NEW p \in Paths, IndexFile(p) PROVE IInv'
  BY <1>4, IndexFileIInv
<1>5. CASE CompareIndexes
  BY <1>5, CompareIInv
<1>6. ASSUME NEW p \in Paths, HashNode(p) PROVE IInv'
  BY <1>6, HashNodeIInv
<1>7. ASSUME NEW p \in Paths, PipeNode(p) PROVE IInv'
  BY <1>7, PipeNodeIInv
<1>8. CASE Abort
  BY <1>8, AbortIInv
<1>9. CASE FinishSnapshot
  BY <1>9, FinishIInv
<1>10. CASE Finished \/ UNCHANGED vars
  BY <1>10, StutterIInv DEF Finished
<1>11. QED
  BY <1>1, <1>2, <1>3, <1>4, <1>5, <1>6, <1>7, <1>8, <1>9, <1>10 DEF Next

\* The invariant holds in every reachable state.
THEOREM IInvInvariant == Spec => []IInv
<1>1. QED
  BY InitIInv, NextIInv, PTL DEF Spec

\* Every index has nodes of the right type, and its hash index finds a node for
\* exactly the hashes that it has, whichever way the nodes came into it.
LEMMA IInvTypeOK == IInv => TypeOK
<1> SUFFICES ASSUME IInv PROVE TypeOK
  OBVIOUS
<1>1. Types_ /\ History
  BY DEF IInv
<1>2. /\ IsPartialFunction(source, Paths, File)
      /\ IsPartialFunction(index, Paths, Attributes)
      /\ IsPartialFunction(diff, DOMAIN index, Difference)
      /\ IsPartialFunction(piped, DOMAIN diff, Contents)
  BY <1>1, PartialIs DEF Types_, IsPartialFunction
<1>3. ASSUME NEW i \in DOMAIN snapshots
      PROVE  LET s == snapshots[i]
             IN  /\ IsPartialFunction(s.nodes, Paths, Node)
                 /\ \A p \in DOMAIN s.nodes : \A a \in DOMAIN s.nodes[p].hashes :
                        s.nodes[p].size = SizeOf[s.nodes[p].hashes[a]]
                 /\ \A a \in Algorithms : Finds(s, a)
  <2> DEFINE s == snapshots[i]
  <2>1. s \in Snapshot /\ GoodSnapshot(s)
    BY <1>1 DEF History
  <2>. HIDE DEF s
  <2>2. s.nodes \in PartialFunctions(Paths, Node)
    BY <2>1 DEF Snapshot
  <2>3. IsPartialFunction(s.nodes, Paths, Node)
    BY <2>2, PartialIs DEF IsPartialFunction
  <2>4. ASSUME NEW p \in DOMAIN s.nodes, NEW a \in DOMAIN s.nodes[p].hashes
        PROVE  s.nodes[p].size = SizeOf[s.nodes[p].hashes[a]]
    <3>1. GoodNode(s.nodes[p])
      BY <2>1 DEF GoodSnapshot
    <3>2. s.nodes[p].type # "directory" /\ s.nodes[p].hashes[a] = HashIn(s.nodes[p])
      BY <3>1, GoodHashes
    <3>3. QED
      BY <3>1, <3>2, GoodHash
  <2>5. QED
    BY <2>1, <2>3, <2>4 DEF GoodSnapshot, s
<1>4. \A i \in DOMAIN snapshots : LET s == snapshots[i] IN
        /\ IsPartialFunction(s.nodes, Paths, Node)
        /\ \A p \in DOMAIN s.nodes : \A a \in DOMAIN s.nodes[p].hashes :
            s.nodes[p].size = SizeOf[s.nodes[p].hashes[a]]
        /\ \A a \in Algorithms :
            LET hi == s.hashIndex[a]
                hashed == {p \in DOMAIN s.nodes : a \in DOMAIN s.nodes[p].hashes}
            IN  /\ DOMAIN hi = {s.nodes[p].hashes[a] : p \in hashed}
                /\ \A h \in DOMAIN hi : hi[h] \in hashed /\ s.nodes[hi[h]].hashes[a] = h
  BY <1>3 DEF Finds
<1>5. QED
  BY <1>1, <1>2, <1>4 DEF TypeOK, Types_, History

\* The types are right: sizes belong to the hashes, and the hash index of each snapshot
\* finds a node for exactly the hashes that its nodes have.
THEOREM TypesAreCorrect == Spec => []TypeOK
BY IInvInvariant, IInvTypeOK, PTL

\* A write is not lost: what the next diff takes for unchanged has the content whose
\* hash was recorded, however writes, removals and snapshots were interleaved.
LEMMA IInvUnchanged == IInv => UnchangedMeansRecorded
<1> SUFFICES ASSUME IInv, snapshots # <<>>, ~scanned.renamedBefore,
                    NEW p \in DOMAIN source \cap DOMAIN LastIndex,
                    Unchanged(p), LastIndex[p].type # "directory"
             PROVE  HashOf(Len(snapshots), p) = source[p].content
  BY DEF UnchangedMeansRecorded
<1>1. source[p].mtime = LastIndex[p].mtime
  BY DEF Unchanged, SameAttributes, AttributesOf
<1>2. HashIn(LastIndex[p]) = source[p].content
  BY <1>1 DEF IInv, RecordedIsThere
<1>3. QED
  BY <1>2 DEF HashOf, LastIndex

\* A write is never lost: a file that the next diff takes for unchanged has the content
\* whose hash the last snapshot recorded.
THEOREM UnchangedFilesAreRecorded == Spec => []UnchangedMeansRecorded
BY IInvInvariant, IInvUnchanged, PTL

-----------------------------------------------------------------------------
\* A step that makes the history longer is the end of add-snapshot.
LEMMA LongerIsFinish ==
    ASSUME IInv, [Next]_vars, Len(snapshots') > Len(snapshots)
    PROVE  /\ FinishSnapshot /\ phase = "adding"
           /\ \E s : IsAdded(s) /\ s = snapshots'[Len(snapshots')] /\ LastIndex' = s.nodes
<1>1. snapshots \in Seq(Snapshot)
  BY DEF IInv, History
<1>2. FinishSnapshot
  <2>1. ASSUME UNCHANGED snapshots PROVE FALSE
    BY <1>1, <2>1
  <2>2. EditSource => UNCHANGED snapshots
    BY DEF EditSource, Write, Remove, Rename, Edit
  <2>3. QED
    BY <2>1, <2>2 DEF Next, vars, Reconfigure, BeginSnapshot, IndexFile, CompareIndexes,
        HashNode, PipeNode, Abort, Finished
<1>3. PICK s : snapshots' = Append(snapshots, s) /\ IsAdded(s)
  BY <1>2, FinishIs
<1>4. s = snapshots'[Len(snapshots')]
  BY <1>1, <1>3 DEF IsAdded
<1>5. phase = "adding"
  BY <1>2 DEF FinishSnapshot
<1>6. QED
  BY <1>2, <1>3, <1>4, <1>5 DEF LastIndex

\* EnsureNoDifferenceExists never throws: the index that is read in has each path with
\* the attributes that were indexed.
THEOREM NoDifferenceIsLeft == Spec => NoDifferenceAfterwards
<1> DEFINE A == Len(snapshots') > Len(snapshots) =>
                    LET nodes == snapshots'[Len(snapshots')].nodes
                    IN  /\ ComputeDifference(index, nodes) = {}
                        /\ ComputeDeleted(nodes, index) = {}
<1>1. IInv /\ [Next]_vars => A
  <2> SUFFICES ASSUME IInv, [Next]_vars, Len(snapshots') > Len(snapshots)
               PROVE  LET nodes == snapshots'[Len(snapshots')].nodes
                      IN  /\ ComputeDifference(index, nodes) = {}
                          /\ ComputeDeleted(nodes, index) = {}
    OBVIOUS
  <2>1. PICK s : IsAdded(s) /\ s = snapshots'[Len(snapshots')]
    BY LongerIsFinish
  <2>2. /\ DOMAIN s.nodes = DOMAIN index
        /\ \A p \in DOMAIN index : SameAttributes(index[p], s.nodes[p])
    BY <2>1 DEF IsAdded, IsNodeOf, SameAttributes, SameSize
  <2>3. ComputeDifference(index, s.nodes) = {} /\ ComputeDeleted(s.nodes, index) = {}
    BY <2>2 DEF ComputeDifference, ComputeDeleted
  <2>4. QED
    BY <2>1, <2>3
<1>2. QED
  BY IInvInvariant, <1>1, PTL DEF Spec, NoDifferenceAfterwards

\* A path that nobody edited while a snapshot was added is in it as it was, with the
\* hash of its content, or is not in it.
THEOREM UntouchedPathsAreRecorded == Spec => UntouchedIsRecorded
<1> DEFINE A == Len(snapshots') > Len(snapshots) /\ ~scanned.renamedBefore =>
                    LET then == scanned.source
                        nodes == snapshots'[Len(snapshots')].nodes
                    IN  \A p \in Paths \ scanned.touched :
                        /\ p \in DOMAIN nodes <=> p \in DOMAIN then
                        /\ p \in DOMAIN nodes =>
                            /\ SameAttributes(nodes[p], AttributesOf(then[p]))
                            /\ nodes[p].type # "directory" => HashIn(nodes[p]) = then[p].content
<1>1. IInv /\ [Next]_vars => A
  <2> SUFFICES ASSUME IInv, [Next]_vars, Len(snapshots') > Len(snapshots),
                      ~scanned.renamedBefore, NEW p \in Paths \ scanned.touched
               PROVE  LET then == scanned.source
                          nodes == snapshots'[Len(snapshots')].nodes
                      IN  /\ p \in DOMAIN nodes <=> p \in DOMAIN then
                          /\ p \in DOMAIN nodes =>
                            /\ SameAttributes(nodes[p], AttributesOf(then[p]))
                            /\ nodes[p].type # "directory" => HashIn(nodes[p]) = then[p].content
    OBVIOUS
  <2>1. PICK s : IsAdded(s) /\ s = snapshots'[Len(snapshots')]
    BY LongerIsFinish
  <2>2. phase = "adding" /\ toVisit = {} /\ Untouched
    BY LongerIsFinish DEF IInv, Phases
  <2>3. /\ p \in DOMAIN source <=> p \in DOMAIN scanned.source
        /\ p \in DOMAIN source => source[p] = scanned.source[p]
        /\ p \in DOMAIN source => p \in DOMAIN index
        /\ p \in DOMAIN index => Tracks(p)
    BY <2>2 DEF Untouched
  <2>4. p \in DOMAIN index <=> p \in DOMAIN source
    BY <2>3 DEF Tracks
  <2>5. DOMAIN s.nodes = DOMAIN index
    BY <2>1 DEF IsAdded
  <2>6. p \in DOMAIN index =>
            /\ SameAttributes(s.nodes[p], AttributesOf(source[p]))
            /\ s.nodes[p].type = index[p].type
    BY <2>1, <2>3 DEF Tracks, IsAdded, IsNodeOf, SameAttributes, SameSize
  <2>7. p \in DOMAIN index /\ s.nodes[p].type # "directory" =>
            HashIn(s.nodes[p]) = source[p].content
    BY <2>1, <2>3, <2>6, AddedHasContent
  <2>8. QED
    BY <2>1, <2>3, <2>4, <2>5, <2>6, <2>7
<1>2. QED
  BY IInvInvariant, <1>1, PTL DEF Spec, UntouchedIsRecorded

\* What is stored of a path that was not edited meanwhile has hashes that no node of
\* the snapshot before has.
LEMMA AddedIsNew ==
    ASSUME IInv, phase = "adding", snapshots # <<>>, NEW s, IsAdded(s),
           NEW p \in DOMAIN index \ scanned.touched, s.nodes[p].owns, NEW q \in DOMAIN LastIndex
    PROVE  LastIndex[q].hashes # s.nodes[p].hashes
<1>1. Types_ /\ History /\ Phases /\ Differences /\ Untouched
  BY DEF IInv
<1>2. /\ IsNodeOf(s.nodes[p], p) /\ diff[p] \in Difference /\ p \in DOMAIN diff
      /\ p \in Paths /\ GoodDifference(p)
  BY <1>1, IndexedIs DEF IsAdded, Differences
<1>3. s.nodes[p].type # "directory" /\ diff[p].kind = "data" /\ Tracks(p)
  BY <1>1, <1>2 DEF IsNodeOf, GoodNode, Untouched
<1>4. /\ index[p].type # "directory" /\ piped[p] = source[p].content
      /\ s.nodes[p].hashes = [h \in {algorithm.is} |-> source[p].content]
  BY <1>2, <1>3 DEF IsNodeOf, Tracks
<1>5. Changed(p)
  BY <1>2, <1>3 DEF GoodDifference, SameNode
<1>6. diff[p] = LastClassify(p, source[p].content)
  BY <1>2, <1>3, <1>4, <1>5 DEF Tracks, LastClassify, LastIndex
<1>7. algorithm.is \in DOMAIN LastIndex[q].hashes =>
          LastIndex[q].hashes[algorithm.is] # source[p].content
  <2>1. algorithm.is \in Algorithms
    BY <1>1 DEF Types_
  <2>2. diff[p] # SameNode /\ \A r \in Paths : diff[p] # [kind |-> "moved", from |-> r]
    BY <1>3 DEF SameNode
  <2>3. QED
    BY <1>1, <1>6, <2>1, <2>2, ClassifyIs
<1>8. /\ algorithm.is \in DOMAIN s.nodes[p].hashes
      /\ s.nodes[p].hashes[algorithm.is] = source[p].content
  BY <1>4
<1>9. QED
  BY <1>7, <1>8

\* What the newest snapshot stores of a path that was not edited meanwhile was in no
\* node of the snapshot before.
THEOREM StoredDataIsNew == Spec => OnlyNewDataIsStored
<1> DEFINE A == Len(snapshots') > Len(snapshots) /\ snapshots # <<>> =>
                    LET nodes == snapshots'[Len(snapshots')].nodes
                    IN  \A p \in DOMAIN nodes \ scanned.touched : nodes[p].owns =>
                            \A q \in DOMAIN LastIndex : LastIndex[q].hashes # nodes[p].hashes
<1>1. IInv /\ [Next]_vars => A
  <2> SUFFICES ASSUME IInv, [Next]_vars, Len(snapshots') > Len(snapshots), snapshots # <<>>
               PROVE  LET nodes == snapshots'[Len(snapshots')].nodes
                      IN  \A p \in DOMAIN nodes \ scanned.touched : nodes[p].owns =>
                            \A q \in DOMAIN LastIndex : LastIndex[q].hashes # nodes[p].hashes
    OBVIOUS
  <2>1. PICK s : IsAdded(s) /\ s = snapshots'[Len(snapshots')]
    BY LongerIsFinish
  <2>2. phase = "adding" /\ DOMAIN s.nodes = DOMAIN index
    BY <2>1, LongerIsFinish DEF IsAdded
  <2>3. QED
    BY <2>1, <2>2, AddedIsNew
<1>2. QED
  BY IInvInvariant, <1>1, PTL DEF Spec, OnlyNewDataIsStored

-----------------------------------------------------------------------------
\* FindDataSnapshot is recursive: a snapshot asks the one before.  That there is a
\* function with its equation is shown by induction over the snapshots.
FindStep(j, before) ==
    [p \in Paths |->
        IF j = 0 THEN None
        ELSE LET nodes == snapshots[j].nodes
             IN  IF p \notin DOMAIN nodes THEN None
                 ELSE IF HasNodeData(nodes[p]) THEN [snapshot |-> j, path |-> p]
                 ELSE before[Parent(nodes[p], p)]]
Find(i) == CHOOSE f : f = [j \in 0..i |-> FindStep(j, f[j - 1])]

\* FindDataSnapshot as the last value of a function that is defined step by step.
LEMMA FindIs == ASSUME NEW i PROVE FindDataSnapshot(i) = Find(i)[i]
BY DEF FindDataSnapshot, Find, FindStep

\* There is such a function, of any length: by induction, one step extends it.
LEMMA FindExists ==
    ASSUME NEW i \in Nat
    PROVE  /\ DOMAIN Find(i) = 0..i
           /\ \A j \in 0..i : Find(i)[j] = FindStep(j, Find(i)[j - 1])
<1> DEFINE S == {n \in Nat : \E f : f = [j \in 0..n |-> FindStep(j, f[j - 1])]}
<1>1. \A g, h : FindStep(0, g) = FindStep(0, h)
  BY DEF FindStep
<1>2. 0 \in S
  <2> DEFINE f == [j \in 0..0 |-> FindStep(0, <<>>)]
  <2>1. f = [j \in 0..0 |-> FindStep(j, f[j - 1])]
    BY <1>1
  <2>2. QED
    BY <2>1
<1>3. ASSUME NEW n \in S PROVE n + 1 \in S
  <2>1. PICK g : g = [j \in 0..n |-> FindStep(j, g[j - 1])]
    OBVIOUS
  <2> DEFINE f == [j \in 0..n + 1 |-> IF j = n + 1 THEN FindStep(j, g[n]) ELSE g[j]]
  <2>2. \A j \in 0..n + 1 : f[j] = FindStep(j, f[j - 1])
    <3>1. f[0] = g[0] /\ g[0] = FindStep(0, g[0 - 1])
      BY <2>1
    <3>2. f[0] = FindStep(0, f[0 - 1])
      BY <1>1, <3>1
    <3>3. \A j \in 1..n : f[j] = g[j] /\ f[j - 1] = g[j - 1] /\ g[j] = FindStep(j, g[j - 1])
      BY <2>1
    <3>4. f[n + 1] = FindStep(n + 1, g[n]) /\ f[n + 1 - 1] = g[n]
      OBVIOUS
    <3>5. \A j \in 0..n + 1 : j = 0 \/ j \in 1..n \/ j = n + 1
      OBVIOUS
    <3>6. ASSUME NEW j \in 1..n PROVE f[j] = FindStep(j, f[j - 1])
      <4>1. f[j] = g[j] /\ f[j - 1] = g[j - 1] /\ g[j] = FindStep(j, g[j - 1])
        BY <3>3
      <4>. HIDE DEF f
      <4>2. QED
        BY <4>1
    <3>7. f[n + 1] = FindStep(n + 1, f[n + 1 - 1])
      <4>. HIDE DEF f
      <4>1. QED
        BY <3>4
    <3>. HIDE DEF f
    <3>8. QED
      BY <3>2, <3>5, <3>6, <3>7
  <2>3. f = [j \in 0..n + 1 |-> f[j]]
    OBVIOUS
  <2>. HIDE DEF f
  <2>4. f = [j \in 0..n + 1 |-> FindStep(j, f[j - 1])]
    BY <2>2, <2>3
  <2>5. QED
    BY <2>4
<1>4. i \in S
  BY <1>2, <1>3, ClosedIsNat
<1>5. Find(i) = [j \in 0..i |-> FindStep(j, Find(i)[j - 1])]
  BY <1>4 DEF Find
<1>6. QED
  BY <1>5

\* ... and all these functions agree, so that it gives what the step makes of what it
\* gives for the snapshot before.
LEMMA FindEquation ==
    ASSUME NEW i \in Nat, i > 0
    PROVE  FindDataSnapshot(i) = FindStep(i, FindDataSnapshot(i - 1))
<1> DEFINE S == {n \in Nat : \A a, b \in Nat : n <= a /\ n <= b => Find(a)[n] = Find(b)[n]}
<1>1. \A g, h : FindStep(0, g) = FindStep(0, h)
  BY DEF FindStep
<1>2. 0 \in S
  <2>1. \A a \in Nat : Find(a)[0] = FindStep(0, Find(a)[0 - 1])
    BY FindExists
  <2>2. QED
    BY <1>1, <2>1
<1>3. ASSUME NEW n \in S PROVE n + 1 \in S
  <2> SUFFICES ASSUME NEW a \in Nat, NEW b \in Nat, n + 1 <= a, n + 1 <= b
               PROVE  Find(a)[n + 1] = Find(b)[n + 1]
    OBVIOUS
  <2>1. Find(a)[n] = Find(b)[n]
    OBVIOUS
  <2>2. n + 1 \in 0..a /\ n + 1 \in 0..b /\ n + 1 - 1 = n
    OBVIOUS
  <2>3. /\ Find(a)[n + 1] = FindStep(n + 1, Find(a)[n])
        /\ Find(b)[n + 1] = FindStep(n + 1, Find(b)[n])
    BY <2>2, FindExists
  <2>4. QED
    BY <2>1, <2>3
<1>4. i - 1 \in S
  <2>1. S \in SUBSET Nat
    OBVIOUS
  <2>. HIDE DEF S
  <2>2. S = Nat
    BY <1>2, <1>3, <2>1, ClosedIsNat
  <2>3. QED
    BY <2>2
<1>5. Find(i)[i - 1] = Find(i - 1)[i - 1]
  BY <1>4
<1>6. Find(i)[i] = FindStep(i, Find(i)[i - 1])
  BY FindExists
<1>7. QED
  BY <1>5, <1>6, FindIs

\* The same of OwnReferencesOnly.
OwnStep(j, before) ==
    [q \in Paths |->
        j = 0 \/ q \notin DOMAIN snapshots[j].nodes \/
        LET n == snapshots[j].nodes[q]
        IN  \/ HasNodeData(n)
            \/ /\ snapshots[j].how[q] = "metadata" => n.owner = <<>>
               /\ before[Parent(n, q)]]
Own(i) == CHOOSE f : f = [j \in 0..i |-> OwnStep(j, f[j - 1])]

\* OwnReferencesOnly as the last value of a function that is defined step by step.
LEMMA OwnIs == ASSUME NEW i, NEW p PROVE OwnReferencesOnly(i, p) = Own(i)[i][p]
BY Zenon DEF OwnReferencesOnly, Own, OwnStep

\* The first step does not depend on what comes before it.
LEMMA OwnStart == ASSUME NEW g, NEW h PROVE OwnStep(0, g) = OwnStep(0, h)
BY DEF OwnStep

\* There is such a function, of any length.
LEMMA OwnExists ==
    ASSUME NEW i \in Nat
    PROVE  /\ DOMAIN Own(i) = 0..i
           /\ \A j \in 0..i : Own(i)[j] = OwnStep(j, Own(i)[j - 1])
<1> DEFINE S == {n \in Nat : \E f : f = [j \in 0..n |-> OwnStep(j, f[j - 1])]}
<1>1. \A g, h : OwnStep(0, g) = OwnStep(0, h)
  BY OwnStart
<1>2. 0 \in S
  <2> DEFINE f == [j \in 0..0 |-> OwnStep(0, <<>>)]
  <2>1. f = [j \in 0..0 |-> OwnStep(j, f[j - 1])]
    BY <1>1
  <2>2. QED
    BY <2>1
<1>3. ASSUME NEW n \in S PROVE n + 1 \in S
  <2>1. PICK g : g = [j \in 0..n |-> OwnStep(j, g[j - 1])]
    OBVIOUS
  <2> DEFINE f == [j \in 0..n + 1 |-> IF j = n + 1 THEN OwnStep(j, g[n]) ELSE g[j]]
  <2>2. \A j \in 0..n + 1 : f[j] = OwnStep(j, f[j - 1])
    <3>1. f[0] = g[0] /\ g[0] = OwnStep(0, g[0 - 1])
      BY <2>1
    <3>2. f[0] = OwnStep(0, f[0 - 1])
      BY <1>1, <3>1
    <3>3. \A j \in 1..n : f[j] = g[j] /\ f[j - 1] = g[j - 1] /\ g[j] = OwnStep(j, g[j - 1])
      BY <2>1
    <3>4. f[n + 1] = OwnStep(n + 1, g[n]) /\ f[n + 1 - 1] = g[n]
      OBVIOUS
    <3>5. \A j \in 0..n + 1 : j = 0 \/ j \in 1..n \/ j = n + 1
      OBVIOUS
    <3>6. ASSUME NEW j \in 1..n PROVE f[j] = OwnStep(j, f[j - 1])
      <4>1. f[j] = g[j] /\ f[j - 1] = g[j - 1] /\ g[j] = OwnStep(j, g[j - 1])
        BY <3>3
      <4>. HIDE DEF f
      <4>2. QED
        BY <4>1
    <3>7. f[n + 1] = OwnStep(n + 1, f[n + 1 - 1])
      <4>. HIDE DEF f
      <4>1. QED
        BY <3>4
    <3>. HIDE DEF f
    <3>8. QED
      BY <3>2, <3>5, <3>6, <3>7
  <2>3. f = [j \in 0..n + 1 |-> f[j]]
    OBVIOUS
  <2>. HIDE DEF f
  <2>4. f = [j \in 0..n + 1 |-> OwnStep(j, f[j - 1])]
    BY <2>2, <2>3
  <2>5. QED
    BY <2>4
<1>4. i \in S
  BY <1>2, <1>3, ClosedIsNat
<1>5. Own(i) = [j \in 0..i |-> OwnStep(j, Own(i)[j - 1])]
  BY <1>4 DEF Own
<1>6. QED
  BY <1>5

\* So OwnReferencesOnly satisfies its recursion: of the longer function the shorter one
\* is a part.
LEMMA OwnEquation ==
    ASSUME NEW i \in Nat, i > 0
    PROVE  Own(i)[i] = OwnStep(i, Own(i - 1)[i - 1])
<1> DEFINE S == {n \in Nat : \A a, b \in Nat : n <= a /\ n <= b => Own(a)[n] = Own(b)[n]}
<1>1. \A g, h : OwnStep(0, g) = OwnStep(0, h)
  BY OwnStart
<1>2. 0 \in S
  <2>1. \A a \in Nat : Own(a)[0] = OwnStep(0, Own(a)[0 - 1])
    BY OwnExists
  <2>2. QED
    BY <1>1, <2>1
<1>3. ASSUME NEW n \in S PROVE n + 1 \in S
  <2> SUFFICES ASSUME NEW a \in Nat, NEW b \in Nat, n + 1 <= a, n + 1 <= b
               PROVE  Own(a)[n + 1] = Own(b)[n + 1]
    OBVIOUS
  <2>1. Own(a)[n] = Own(b)[n]
    OBVIOUS
  <2>2. n + 1 \in 0..a /\ n + 1 \in 0..b /\ n + 1 - 1 = n
    OBVIOUS
  <2>3. /\ Own(a)[n + 1] = OwnStep(n + 1, Own(a)[n])
        /\ Own(b)[n + 1] = OwnStep(n + 1, Own(b)[n])
    BY <2>2, OwnExists
  <2>4. QED
    BY <2>1, <2>3
<1>4. i - 1 \in S
  <2>1. S \in SUBSET Nat
    OBVIOUS
  <2>. HIDE DEF S
  <2>2. S = Nat
    BY <1>2, <1>3, <2>1, ClosedIsNat
  <2>3. QED
    BY <2>2
<1>5. Own(i)[i - 1] = Own(i - 1)[i - 1]
  BY <1>4
<1>6. Own(i)[i] = OwnStep(i, Own(i)[i - 1])
  BY OwnExists
<1>7. QED
  BY <1>5, <1>6

\* The node with the data of node p of snapshot i: it has the same hash.
HasDataOf(d, i, p) ==
    \E j \in 1..i, q \in Paths :
        LET n == snapshots[j].nodes[q]
        IN  /\ d = [snapshot |-> j, path |-> q]
            /\ q \in DOMAIN snapshots[j].nodes
            /\ HasNodeData(n)
            /\ n.hashes = snapshots[i].nodes[p].hashes

\* A node with the hashes of a file or link is one.
LEMMA SameHashes ==
    ASSUME NEW m, NEW n, GoodNode(m), GoodNode(n), n.type # "directory", m.hashes = n.hashes
    PROVE  m.type # "directory"
<1>1. PICK a \in Algorithms : n.hashes = [h \in {a} |-> HashIn(n)]
  BY GoodHash
<1>2. DOMAIN m.hashes = {a}
  BY <1>1
<1>3. m.type = "directory" => m.hashes = <<>>
  BY DEF GoodNode
<1>4. QED
  BY <1>2, <1>3

\* Through back references of its own a node finds data whose hash is its own.
LEMMA FindsData ==
    ASSUME History, NEW i \in DOMAIN snapshots, NEW p \in DataNodes(i), OwnReferencesOnly(i, p)
    PROVE  HasDataOf(FindDataSnapshot(i)[p], i, p)
<1> DEFINE Claim(n) == \A q \in DataNodes(n) :
                            OwnReferencesOnly(n, q) => HasDataOf(FindDataSnapshot(n)[q], n, q)
           S == {n \in Nat : n \in DOMAIN snapshots => Claim(n)}
<1>1. snapshots \in Seq(Snapshot) /\ DOMAIN snapshots = 1..Len(snapshots)
      /\ Len(snapshots) \in Nat
  BY DEF History
<1>2. 0 \in S
  BY <1>1
<1>3. ASSUME NEW k \in S PROVE k + 1 \in S
  <2> SUFFICES ASSUME k + 1 \in DOMAIN snapshots, NEW q \in DataNodes(k + 1),
                      OwnReferencesOnly(k + 1, q)
               PROVE  HasDataOf(FindDataSnapshot(k + 1)[q], k + 1, q)
    OBVIOUS
  <2> DEFINE nodes == snapshots[k + 1].nodes
             n == nodes[q]
             r == Parent(n, q)
  <2>1. k \in Nat /\ k + 1 > 0 /\ k + 1 - 1 = k /\ k + 1 \in Nat /\ k + 1 \in 1..k + 1
    OBVIOUS
  <2>2. q \in DOMAIN nodes /\ q \in Paths /\ GoodNode(n) /\ n.type # "directory"
    BY NodeOfHistory DEF DataNodes
  <2>3. FindDataSnapshot(k + 1) = FindStep(k + 1, FindDataSnapshot(k))
    BY <2>1, FindEquation
  <2>4. FindDataSnapshot(k + 1)[q] =
            IF HasNodeData(n) THEN [snapshot |-> k + 1, path |-> q] ELSE FindDataSnapshot(k)[r]
    BY <2>1, <2>2, <2>3 DEF FindStep
  <2>5. Own(k + 1)[k + 1] = OwnStep(k + 1, Own(k)[k])
    BY <2>1, OwnEquation
  <2>6. OwnStep(k + 1, Own(k)[k])[q]
    BY <2>5, OwnIs
  <2>7. HasNodeData(n) \/ ((snapshots[k + 1].how[q] = "metadata" => n.owner = <<>>) /\ Own(k)[k][r])
    <3>1. k + 1 # 0
      BY <2>1
    <3>2. QED
      BY <2>2, <2>6, <3>1, Zenon DEF OwnStep
  <2>8. CASE HasNodeData(n)
    BY <2>1, <2>2, <2>4, <2>8 DEF HasDataOf
  <2>9. CASE ~HasNodeData(n)
    <3>1. /\ k + 1 > 1 /\ r \in DOMAIN snapshots[k].nodes
          /\ snapshots[k].nodes[r].hashes = n.hashes
      <4>1. Linked(k + 1)
        BY DEF History
      <4>2. QED
        BY <2>1, <2>2, <2>7, <2>9, <4>1 DEF Linked
    <3>2. k \in DOMAIN snapshots
      BY <1>1, <3>1
    <3>3. GoodNode(snapshots[k].nodes[r])
      BY <3>1, <3>2, NodeOfHistory
    <3>4. r \in DataNodes(k)
      <4>1. snapshots[k].nodes[r].type # "directory"
        BY <2>2, <3>1, <3>3, SameHashes
      <4>2. QED
        BY <3>1, <4>1 DEF DataNodes
    <3>5. OwnReferencesOnly(k, r)
      BY <2>7, <2>9, OwnIs
    <3>6. HasDataOf(FindDataSnapshot(k)[r], k, r)
      BY <3>2, <3>4, <3>5
    <3>7. QED
      BY <2>1, <2>4, <2>9, <3>1, <3>6 DEF HasDataOf
  <2>10. QED
    BY <2>8, <2>9
<1>4. i \in S
  <2>1. S \in SUBSET Nat /\ i \in Nat
    BY <1>1
  <2>. HIDE DEF S
  <2>2. QED
    BY <1>2, <1>3, <2>1, ClosedIsNat
<1>5. QED
  BY <1>4

\* What OpenFileForReading reads of a node with its own data is the content whose hash
\* it has; an empty file has no blocks, and all empty files are alike.
LEMMA StoredIs ==
    ASSUME NEW n, GoodNode(n), n.type # "directory", HasNodeData(n)
    PROVE  Stored(n) = HashIn(n)
<1> DEFINE h == HashIn(n)
<1>1. /\ h \in Contents /\ n.type = TypeOf[h] /\ n.size = SizeOf[h]
      /\ n.blocks = IF n.size > 0 THEN <<h>> ELSE <<>>
      /\ n.size \in Nat
  <2>1. n.size \in Nat
    BY NodeIs DEF GoodNode
  <2>2. QED
    BY <2>1, GoodHash
<1>. HIDE DEF h
<1>2. CASE n.size > 0
  <2>1. n.owns /\ n.blocks = <<h>>
    BY <1>1, <1>2 DEF HasNodeData
  <2>2. QED
    BY <2>1 DEF Stored, h
<1>3. CASE n.size = 0
  <2>1. SizeOf[h] = 0 /\ TypeOf[h] # "directory" /\ n.blocks = <<>>
    BY <1>1, <1>3
  <2>2. TypeOf[h] = "file"
    BY <1>1, <2>1, EmptyAssumption
  <2>3. EmptyContent \in Contents /\ SizeOf[EmptyContent] = 0 /\ TypeOf[EmptyContent] = "file"
    BY <1>1, <2>1, <2>2 DEF EmptyContent
  <2>4. EmptyContent = h
    BY <1>1, <2>1, <2>3, EmptyAssumption
  <2>5. QED
    BY <2>1, <2>4 DEF Stored, h
<1>4. QED
  BY <1>1, <1>2, <1>3

\* FindDataSnapshot finds a node that stores the content whose hash is recorded.
IsDataOf(d, i, p) ==
    LET n == snapshots[d.snapshot].nodes[d.path]
    IN  /\ d # None /\ GoodNode(n)
        /\ n.hashes = snapshots[i].nodes[p].hashes
        /\ Stored(n) = HashOf(i, p)
        /\ \A a \in DOMAIN n.hashes : n.hashes[a] = HashOf(i, p)

\* That data has the size of the node and a content that exists.
LEMMA DataIs ==
    ASSUME IInv, NEW i \in DOMAIN snapshots, NEW p \in DataNodes(i), OwnReferencesOnly(i, p)
    PROVE  /\ IsDataOf(FindDataSnapshot(i)[p], i, p)
           /\ p \in DOMAIN snapshots[i].nodes /\ snapshots[i].nodes[p].type # "directory"
           /\ HashOf(i, p) \in Contents /\ SizeOf[HashOf(i, p)] = snapshots[i].nodes[p].size
           /\ HashOf(i, p) # None
<1> DEFINE d == FindDataSnapshot(i)[p]
           m == snapshots[i].nodes[p]
<1>1. History
  BY DEF IInv
<1>2. p \in DOMAIN snapshots[i].nodes /\ GoodNode(m) /\ m.type # "directory"
  BY <1>1, NodeOfHistory DEF DataNodes
<1>3. HasDataOf(d, i, p)
  BY <1>1, FindsData
<1>. HIDE DEF d
<1>4. PICK j \in 1..i, q \in Paths :
        /\ d = [snapshot |-> j, path |-> q]
        /\ q \in DOMAIN snapshots[j].nodes
        /\ HasNodeData(snapshots[j].nodes[q])
        /\ snapshots[j].nodes[q].hashes = m.hashes
  BY <1>3 DEF HasDataOf
<1> DEFINE n == snapshots[j].nodes[q]
<1>5. j \in DOMAIN snapshots /\ j \in Nat
  BY <1>1 DEF History
<1>6. GoodNode(n)
  BY <1>1, <1>4, <1>5, NodeOfHistory
<1>7. d # None /\ d.snapshot = j /\ d.path = q
  BY <1>4, <1>5, NoneAssumption
<1>8. n.hashes = m.hashes /\ HasNodeData(n) /\ HashIn(n) = HashOf(i, p)
  BY <1>4 DEF HashOf, HashIn
<1>. HIDE DEF n
<1>9. n.type # "directory"
  BY <1>2, <1>6, <1>8, SameHashes
<1>10. Stored(n) = HashOf(i, p)
  BY <1>6, <1>8, <1>9, StoredIs
<1>11. \A a \in DOMAIN n.hashes : n.hashes[a] = HashOf(i, p)
  BY <1>6, <1>8, GoodHashes
<1>12. IsDataOf(d, i, p)
  BY <1>6, <1>7, <1>8, <1>10, <1>11 DEF IsDataOf, n
<1>13. HashOf(i, p) \in Contents /\ SizeOf[HashOf(i, p)] = m.size
  BY <1>2, GoodHash DEF HashOf
<1>14. QED
  BY <1>2, <1>12, <1>13, NoneAssumption DEF d

\* Deduplication is sound: through chains of unchanged and moved nodes of any length
\* that have no copied back reference, restoring gives the content whose hash is
\* recorded, or fails if it was stored with another hash algorithm.
LEMMA IInvRestores == IInv => OwnReferencesRestore
<1> SUFFICES ASSUME IInv, NEW i \in DOMAIN snapshots, NEW p \in DataNodes(i),
                    OwnReferencesOnly(i, p)
             PROVE  RestoredContent(i, p) = IF HasHash(i, p) THEN HashOf(i, p) ELSE None
  BY DEF OwnReferencesRestore
<1>1. IsDataOf(FindDataSnapshot(i)[p], i, p)
  BY DataIs
<1>2. QED
  BY <1>1 DEF IsDataOf, RestoredContent, OpenFileForReading, HasHash

\* Deduplication is sound, in every reachable state.
THEOREM DeduplicationIsSound == Spec => []OwnReferencesRestore
BY IInvInvariant, IInvRestores, PTL

\* Restore, mount and hash-snapshot get the same of a node, for every hash algorithm.
LEMMA IInvReadersAgree == IInv => ReadersAgree
<1> SUFFICES ASSUME IInv, NEW i \in DOMAIN snapshots, NEW p \in DataNodes(i),
                    OwnReferencesOnly(i, p)
             PROVE  /\ \A a \in Algorithms : GenerateHashValue(i, p, a) = HashOf(i, p)
                    /\ QueryFileInfo(i, p).size = SizeOf[HashOf(i, p)]
                    /\ HasHash(i, p) =>
                        /\ OpenMounted(i, p) = HashOf(i, p)
                        /\ snapshots[i].nodes[p].type = "file" =>
                                RestoreNode(i, p) = HashOf(i, p)
  BY DEF ReadersAgree
<1> DEFINE d == FindDataSnapshot(i)[p]
           h == HashOf(i, p)
           m == snapshots[i].nodes[p]
<1>1. /\ IsDataOf(d, i, p) /\ p \in DOMAIN snapshots[i].nodes
      /\ h \in Contents /\ SizeOf[h] = m.size /\ h # None
  BY DataIs
<1>. HIDE DEF d, h
<1>2. /\ d # None
      /\ OpenFileForReading(d.snapshot, d.path, FALSE) = h
      /\ HasHash(i, p) => OpenFileForReading(d.snapshot, d.path, TRUE) = h
  BY <1>1 DEF IsDataOf, OpenFileForReading, HasHash, h
<1>3. WithSizeOf(m, h) = h
  BY <1>1 DEF WithSizeOf
<1>4. \A a \in DOMAIN m.hashes : m.hashes[a] = h
  BY <1>1 DEF IsDataOf, h
<1>5. \A a \in Algorithms : GenerateHashValue(i, p, a) = h
  BY <1>2, <1>3, <1>4 DEF GenerateHashValue, d
<1>6. QueryFileInfo(i, p).size = m.size
  BY <1>1 DEF QueryFileInfo
<1>7. HasHash(i, p) => OpenMounted(i, p) = h /\ RestoredContent(i, p) = h
  BY <1>2 DEF OpenMounted, RestoredContent, d
<1>8. HasHash(i, p) /\ m.type = "file" => RestoreNode(i, p) = h
  BY <1>3, <1>7 DEF RestoreNode
<1>9. QED
  BY <1>1, <1>5, <1>6, <1>7, <1>8 DEF h

\* The file system, its hashes, the mounted volume and a restore show the same content
\* of a node, in every reachable state.
THEOREM AllReadersAgree == Spec => []ReadersAgree
BY IInvInvariant, IInvReadersAgree, PTL

-----------------------------------------------------------------------------
\* While nothing edits the source when a snapshot is added, a time stands for one
\* content: in the source and in all snapshots.
RecordedOf(i, p) == [time |-> snapshots[i].nodes[p].mtime, content |-> HashOf(i, p)]
Recorded == UNION {{RecordedOf(i, p) : p \in DataNodes(i)} : i \in DOMAIN snapshots}
OneContentPerTime ==
    /\ scanned.touched = {} /\ ~scanned.renamed /\ ~scanned.renamedBefore
    /\ \A r \in Recorded :
        /\ r.time \in Nat /\ r.time < Now
        /\ \A q \in DOMAIN source : source[q].mtime = r.time => source[q].content = r.content
        /\ \A s \in Recorded : s.time = r.time => s.content = r.content

\* The records are those of the snapshots only.
LEMMA SameRecords == ASSUME UNCHANGED snapshots PROVE Recorded' = Recorded
BY DEF Recorded, RecordedOf, DataNodes, HashOf

\* An edit gives a file a time that no record has, if no snapshot is being added.
LEMMA EditKeepsTimes ==
    ASSUME IInv, OneContentPerTime, ~EditsWhileAdding,
           NEW kind, NEW paths, NEW s, IsEdited(kind, paths, s), Edit(kind, paths, s)
    PROVE  OneContentPerTime'
<1>1. source' = s /\ edits' = edits + 1 /\ UNCHANGED snapshots /\ scanned' = scanned
  BY DEF Edit
<1>2. Recorded' = Recorded
  BY <1>1, SameRecords
<1>3. Now' = Now + 1 /\ Now \in Nat
  <2>1. Now \in Nat /\ edits \in Nat /\ Cardinality(Paths) \in Nat
    BY NowIs DEF IInv, Times
  <2>2. QED
    BY <1>1, <2>1 DEF Now
<1>4. ASSUME NEW r \in Recorded, NEW q \in DOMAIN s, s[q].mtime = r.time
      PROVE  s[q].content = r.content
  <2>1. s[q].mtime # Now
    BY <1>3, <1>4 DEF OneContentPerTime
  <2>2. PICK t \in DOMAIN source : s[q] = source[t]
    BY <2>1 DEF IsEdited
  <2>3. QED
    BY <1>4, <2>2 DEF OneContentPerTime
<1>5. QED
  BY <1>1, <1>2, <1>3, <1>4 DEF OneContentPerTime

\* The records of a new snapshot are of the source as it is, or copies of older ones.
LEMMA FinishKeepsTimes ==
    ASSUME IInv, OneContentPerTime, FinishSnapshot
    PROVE  OneContentPerTime'
<1>1. PICK s : snapshots' = Append(snapshots, s) /\ IsAdded(s)
  BY FinishIs
<1>2. /\ phase = "adding" /\ UNCHANGED <<source, edits>>
      /\ scanned' = [source |-> <<>>, touched |-> {}, renamed |-> FALSE,
                     renamedBefore |-> scanned.renamedBefore \/ scanned.renamed]
  BY DEF FinishSnapshot, EndOfCommand
<1>3. ~scanned.renamedBefore /\ scanned.touched = {}
  BY DEF OneContentPerTime
<1>4. Types_ /\ History /\ Phases /\ Untouched /\ TimesAreUnique
  BY DEF IInv
<1> DEFINE new == {[time |-> s.nodes[p].mtime, content |-> HashIn(s.nodes[p])] :
                        p \in {q \in DOMAIN s.nodes : s.nodes[q].type # "directory"}}
<1>5. ASSUME NEW r \in new
      PROVE  \E p \in DOMAIN source : r.time = source[p].mtime /\ r.content = source[p].content
  <2>1. PICK p \in DOMAIN s.nodes : /\ s.nodes[p].type # "directory"
                                    /\ r = [time |-> s.nodes[p].mtime,
                                            content |-> HashIn(s.nodes[p])]
    BY <1>5
  <2>2. p \in DOMAIN index /\ IsNodeOf(s.nodes[p], p)
    BY <1>1, <2>1 DEF IsAdded
  <2>3. p \in Paths
    BY <1>4, <2>2, IndexedIs
  <2>4. Tracks(p)
    BY <1>2, <1>3, <1>4, <2>2, <2>3 DEF Untouched
  <2>5. /\ p \in DOMAIN source /\ index[p].type # "directory"
        /\ s.nodes[p].mtime = source[p].mtime
    BY <2>1, <2>2, <2>4 DEF Tracks, IsNodeOf, AttributesOf
  <2>6. HashIn(s.nodes[p]) = source[p].content
    BY <1>1, <1>3, <2>2, <2>4, <2>5, AddedHasContent
  <2>7. QED
    BY <2>1, <2>5, <2>6
<1>6. Recorded' \subseteq Recorded \cup new
  <2>1. /\ snapshots \in Seq(Snapshot) /\ s \in Snapshot
    BY <1>1, <1>4 DEF History, IsAdded
  <2>2. PICK n \in Nat : n = Len(snapshots)
    BY <2>1
  <2>3. /\ DOMAIN snapshots' = 1..n + 1 /\ DOMAIN snapshots = 1..n
        /\ snapshots'[n + 1] = s
        /\ \A i \in 1..n : snapshots'[i] = snapshots[i]
    BY <1>1, <2>1, <2>2
  <2>4. ASSUME NEW i \in 1..n, NEW p \in DataNodes(i)'
        PROVE  p \in DataNodes(i) /\ RecordedOf(i, p)' = RecordedOf(i, p)
    <3>1. snapshots'[i] = snapshots[i]
      BY <2>3
    <3>2. QED
      BY <2>4, <3>1 DEF DataNodes, RecordedOf, HashOf
  <2>5. ASSUME NEW p \in DataNodes(n + 1)' PROVE RecordedOf(n + 1, p)' \in new
    <3>1. snapshots'[n + 1] = s
      BY <2>3
    <3>2. p \in DOMAIN s.nodes /\ s.nodes[p].type # "directory"
      BY <2>5, <3>1 DEF DataNodes
    <3>3. RecordedOf(n + 1, p)' = [time |-> s.nodes[p].mtime, content |-> HashIn(s.nodes[p])]
      BY <3>1 DEF RecordedOf, HashOf
    <3>4. QED
      BY <3>2, <3>3
  <2>6. \A i \in 1..n + 1 : i \in 1..n \/ i = n + 1
    OBVIOUS
  <2>. HIDE DEF new
  <2>7. QED
    BY <2>3, <2>4, <2>5, <2>6 DEF Recorded
<1>. HIDE DEF new
<1>7. \A p \in DOMAIN source : source[p].mtime \in Nat /\ source[p].mtime < Now
  <2>1. \A p \in DOMAIN source : source[p] \in File
    BY <1>4, PartialIs DEF Types_
  <2>2. QED
    BY <1>4, <2>1 DEF TimesAreUnique, File, Times
<1>8. Now' = Now
  BY <1>2 DEF Now
<1>9. ASSUME NEW r \in Recorded \cup new
      PROVE  /\ r.time \in Nat /\ r.time < Now
             /\ \A q \in DOMAIN source : source[q].mtime = r.time => source[q].content = r.content
             /\ \A t \in Recorded \cup new : t.time = r.time => t.content = r.content
  <2>1. r.time \in Nat /\ r.time < Now
    BY <1>5, <1>7, <1>9 DEF OneContentPerTime
  <2>2. \A q \in DOMAIN source : source[q].mtime = r.time => source[q].content = r.content
    BY <1>4, <1>5, <1>9 DEF OneContentPerTime, TimesAreUnique
  <2>3. \A t \in Recorded : \A q \in DOMAIN source :
            source[q].mtime = t.time => source[q].content = t.content
    BY DEF OneContentPerTime
  <2>4. ASSUME NEW t \in Recorded \cup new, t.time = r.time PROVE t.content = r.content
    <3>1. CASE t \in new
      BY <1>5, <2>2, <2>4, <3>1
    <3>2. CASE r \in new /\ t \in Recorded
      BY <1>5, <2>3, <2>4, <3>2
    <3>3. CASE r \in Recorded /\ t \in Recorded
      BY <2>4, <3>3 DEF OneContentPerTime
    <3>4. QED
      BY <1>9, <2>4, <3>1, <3>2, <3>3
  <2>5. QED
    BY <2>1, <2>2, <2>4
<1>10. \A r \in Recorded' : r \in Recorded \cup new
  BY <1>6
<1>11. QED
  BY <1>2, <1>8, <1>9, <1>10 DEF OneContentPerTime

\* If nobody edits while a snapshot is added, there is one content per time.
LEMMA TimesInvariant == ASSUME ~EditsWhileAdding PROVE Spec => []OneContentPerTime
<1>1. Init => OneContentPerTime
  BY DEF Init, OneContentPerTime, Recorded
<1>2. IInv /\ OneContentPerTime /\ [Next]_vars => OneContentPerTime'
  <2> SUFFICES ASSUME IInv, OneContentPerTime, [Next]_vars PROVE OneContentPerTime'
    OBVIOUS
  <2>1. CASE EditSource
    <3>1. ASSUME NEW p \in Paths, NEW c \in Contents, Write(p, c) PROVE OneContentPerTime'
      BY <3>1, WriteIs, EditKeepsTimes DEF Write
    <3>2. ASSUME NEW p \in Paths, Remove(p) PROVE OneContentPerTime'
      BY <3>2, RemoveIs, EditKeepsTimes DEF Remove
    <3>3. ASSUME NEW p \in Paths, NEW q \in Paths, Rename(p, q) PROVE OneContentPerTime'
      BY <3>3, RenameIs, EditKeepsTimes DEF Rename
    <3>4. QED
      BY <2>1, <3>1, <3>2, <3>3 DEF EditSource
  <2>2. CASE FinishSnapshot
    BY <2>2, FinishKeepsTimes
  <2>3. ASSUME UNCHANGED <<source, edits, snapshots>>,
               /\ scanned'.touched = {} /\ ~scanned'.renamed /\ ~scanned'.renamedBefore
        PROVE  OneContentPerTime'
    <3>1. Recorded' = Recorded /\ Now' = Now
      BY <2>3, SameRecords DEF Now
    <3>2. QED
      BY <2>3, <3>1 DEF OneContentPerTime
  <2>4. scanned \in Scan /\ scanned.touched = {} /\ ~scanned.renamed /\ ~scanned.renamedBefore
    BY DEF OneContentPerTime, IInv, Types_
  <2>5. CASE BeginSnapshot
    <3>1. /\ UNCHANGED <<source, edits, snapshots>>
          /\ scanned' = [scanned EXCEPT !.source = source]
      BY <2>5 DEF BeginSnapshot
    <3>2. scanned'.touched = {} /\ ~scanned'.renamed /\ ~scanned'.renamedBefore
      BY <2>4, <3>1 DEF Scan
    <3>3. QED
      BY <2>3, <3>1, <3>2
  <2>6. CASE Abort
    BY <2>3, <2>4, <2>6 DEF Abort, EndOfCommand
  <2>7. CASE \/ Reconfigure \/ (\E p \in Paths : IndexFile(p)) \/ CompareIndexes
             \/ (\E p \in Paths : HashNode(p)) \/ (\E p \in Paths : PipeNode(p))
             \/ Finished \/ UNCHANGED vars
    <3>1. UNCHANGED <<source, edits, snapshots, scanned>>
      BY <2>7 DEF Reconfigure, IndexFile, CompareIndexes, HashNode, PipeNode, Finished, vars
    <3>2. QED
      BY <2>3, <2>4, <3>1
  <2>8. QED
    BY <2>1, <2>2, <2>5, <2>6, <2>7 DEF Next
<1>3. QED
  BY IInvInvariant, <1>1, <1>2, PTL DEF Spec

\* A diff of snapshot i and an index is truthful if the nodes with the attributes that
\* they have in the snapshot have the contents that they have there.
LEMMA TruthfulIs ==
    ASSUME IInv, NEW i \in DOMAIN snapshots, AllHaveHash(i), NEW right, NEW content,
           \A p \in DOMAIN right \cap DOMAIN snapshots[i].nodes :
                right[p].type # "directory" /\ SameAttributes(right[p], snapshots[i].nodes[p]) =>
                    HashOf(i, p) = content[p]
    PROVE  TruthfulDiff(i, right, content)
<1> DEFINE left == snapshots[i].nodes
           classes == Classes(i, right, content)
           Has(q, p) == q \in DataNodes(i) /\ HashOf(i, q) = content[p]
           Listed(p, kind) == p \in DOMAIN classes /\ classes[p].kind = kind
<1>1. History /\ algorithm.is \in Algorithms
  BY DEF IInv, Types_
<1>2. /\ ComputeDiff(i, right, content).classes = classes
      /\ ComputeDiff(i, right, content).deleted = ComputeDeleted(left, right) \ MovedFrom(classes)
  BY DEF ComputeDiff, Deleted
<1>3. /\ DOMAIN classes = ComputeDifference(right, left)
      /\ \A p \in DOMAIN classes : right[p].type # "directory" =>
            classes[p] = ClassifyAt(i, p, content[p])
  BY DEF Classes, ClassifyAt
<1>4. \A q \in DOMAIN left : q \in Paths /\ GoodNode(left[q])
  BY <1>1, NodeOfHistory
<1>5. \A q, p : HasContentAt(i, q, content[p]) => Has(q, p)
  BY DEF HasContentAt, DataNodes, HashOf
<1>6. \A q \in DataNodes(i) : /\ algorithm.is \in DOMAIN left[q].hashes
                              /\ left[q].hashes[algorithm.is] = HashOf(i, q)
  <2> SUFFICES ASSUME NEW q \in DataNodes(i)
               PROVE  /\ algorithm.is \in DOMAIN left[q].hashes
                      /\ left[q].hashes[algorithm.is] = HashOf(i, q)
    OBVIOUS
  <2>1. algorithm.is \in DOMAIN left[q].hashes
    BY DEF AllHaveHash, HasHash
  <2>2. GoodNode(left[q])
    BY <1>4 DEF DataNodes
  <2>3. QED
    BY <2>1, <2>2, GoodHashes DEF HashOf
<1>. HIDE DEF classes
<1>7. ASSUME NEW p \in DOMAIN right, right[p].type # "directory"
      PROVE  /\ Listed(p, "data") => \A q \in DOMAIN left : ~Has(q, p)
             /\ Listed(p, "moved") => Has(classes[p].from, p) /\ classes[p].from # p
             /\ Listed(p, "metadata") \/ p \notin DOMAIN classes => Has(p, p)
  <2>1. CASE p \in DOMAIN classes
    <3>1. \/ /\ classes[p] = NewData
             /\ \A q \in DOMAIN left : algorithm.is \in DOMAIN left[q].hashes =>
                    left[q].hashes[algorithm.is] # content[p]
          \/ classes[p] = SameNode /\ HasContentAt(i, p, content[p])
          \/ \E q \in Paths : /\ classes[p] = [kind |-> "moved", from |-> q]
                              /\ q # p /\ HasContentAt(i, q, content[p])
      BY <1>1, <1>3, <1>7, <2>1, ClassifyAtIs
    <3>2. CASE /\ classes[p] = NewData
               /\ \A q \in DOMAIN left : algorithm.is \in DOMAIN left[q].hashes =>
                    left[q].hashes[algorithm.is] # content[p]
      BY <1>6, <2>1, <3>2 DEF NewData
    <3>3. CASE classes[p] = SameNode /\ HasContentAt(i, p, content[p])
      BY <1>5, <2>1, <3>3 DEF SameNode
    <3>4. CASE \E q \in Paths : /\ classes[p] = [kind |-> "moved", from |-> q]
                                /\ q # p /\ HasContentAt(i, q, content[p])
      BY <1>5, <2>1, <3>4
    <3>5. QED
      BY <3>1, <3>2, <3>3, <3>4
  <2>2. CASE p \notin DOMAIN classes
    <3>1. p \in DOMAIN left /\ SameAttributes(right[p], left[p])
      BY <1>3, <2>2 DEF ComputeDifference
    <3>2. HashOf(i, p) = content[p]
      BY <1>7, <3>1
    <3>3. p \in DataNodes(i)
      BY <1>7, <3>1 DEF DataNodes, SameAttributes, SameSize
    <3>4. QED
      BY <2>2, <3>2, <3>3
  <2>3. QED
    BY <2>1, <2>2
<1>8. ASSUME NEW q \in DOMAIN left \ DOMAIN right
      PROVE  (q \in ComputeDeleted(left, right) \ MovedFrom(classes)) # (q \in MovedFrom(classes))
  <2>1. q \in ComputeDeleted(left, right)
    BY DEF ComputeDeleted, ComputeDifference
  <2>2. QED
    BY <2>1
<1>9. QED
  BY <1>2, <1>7, <1>8 DEF TruthfulDiff

\* Between any two snapshots, and a snapshot and the source, diff says the truth.
LEMMA TimesDiff == IInv /\ OneContentPerTime => DiffIsTruthful
<1> SUFFICES ASSUME IInv, OneContentPerTime, NEW i \in DOMAIN snapshots, AllHaveHash(i)
             PROVE  /\ \A j \in DOMAIN snapshots \ {i} : AllHaveHash(j) =>
                        TruthfulDiff(i, snapshots[j].nodes, [p \in DataNodes(j) |-> HashOf(j, p)])
                    /\ TruthfulDiff(i, [p \in DOMAIN source |-> AttributesOf(source[p])],
                                    [p \in DOMAIN source |-> source[p].content])
  BY DEF DiffIsTruthful
<1>1. \A j \in DOMAIN snapshots : \A p \in DataNodes(j) : RecordedOf(j, p) \in Recorded
  BY DEF Recorded
<1>2. \A r, s \in Recorded : s.time = r.time => s.content = r.content
  BY DEF OneContentPerTime
<1>3. ASSUME NEW j \in DOMAIN snapshots
      PROVE  TruthfulDiff(i, snapshots[j].nodes, [p \in DataNodes(j) |-> HashOf(j, p)])
  <2>1. ASSUME NEW p \in DOMAIN snapshots[j].nodes \cap DOMAIN snapshots[i].nodes,
               snapshots[j].nodes[p].type # "directory",
               SameAttributes(snapshots[j].nodes[p], snapshots[i].nodes[p])
        PROVE  HashOf(i, p) = [q \in DataNodes(j) |-> HashOf(j, q)][p]
    <3>1. p \in DataNodes(j) /\ p \in DataNodes(i)
      BY <2>1 DEF DataNodes, SameAttributes, SameSize
    <3>2. RecordedOf(j, p).time = RecordedOf(i, p).time
      BY <2>1 DEF RecordedOf, SameAttributes
    <3>3. RecordedOf(j, p).content = RecordedOf(i, p).content
      BY <1>1, <1>2, <3>1, <3>2
    <3>4. QED
      BY <3>1, <3>3 DEF RecordedOf
  <2>2. QED
    BY <2>1, TruthfulIs
<1>4. TruthfulDiff(i, [p \in DOMAIN source |-> AttributesOf(source[p])],
                   [p \in DOMAIN source |-> source[p].content])
  <2>1. ASSUME NEW p \in DOMAIN source \cap DOMAIN snapshots[i].nodes,
               AttributesOf(source[p]).type # "directory",
               SameAttributes(AttributesOf(source[p]), snapshots[i].nodes[p])
        PROVE  HashOf(i, p) = source[p].content
    <3>1. p \in DataNodes(i) /\ source[p].mtime = snapshots[i].nodes[p].mtime
      BY <2>1 DEF DataNodes, SameAttributes, SameSize, AttributesOf
    <3>2. RecordedOf(i, p) \in Recorded
      BY <1>1, <3>1
    <3>3. source[p].mtime = RecordedOf(i, p).time /\ RecordedOf(i, p).content = HashOf(i, p)
      BY <3>1 DEF RecordedOf
    <3>4. QED
      BY <3>2, <3>3 DEF OneContentPerTime
  <2>2. QED
    BY <2>1, TruthfulIs
<1>5. QED
  BY <1>3, <1>4

\* Then the diff of any snapshot with the source tells the truth, not only of the last.
THEOREM DiffsAreTruthful == ASSUME ~EditsWhileAdding PROVE Spec => []DiffIsTruthful
BY IInvInvariant, TimesInvariant, TimesDiff, PTL

-----------------------------------------------------------------------------
\* What is stored of a path stays with it: who has no data of its own and was not
\* moved is as long as the node at the path in the snapshot before, and has its back
\* reference.
Kept(i) ==
    \A p \in DOMAIN snapshots[i].nodes :
        LET n == snapshots[i].nodes[p]
        IN  n.size > 0 =>
            /\ snapshots[i].how[p] = "data" => n.owns
            /\ snapshots[i].how[p] = "metadata" =>
                /\ i > 1 /\ p \in DOMAIN snapshots[i - 1].nodes
                /\ snapshots[i - 1].nodes[p].size = n.size
                /\ snapshots[i - 1].nodes[p].owner = n.owner

\* What is stored is in no node of the snapshot before.
Fresh(i) ==
    i > 1 =>
        \A p \in DOMAIN snapshots[i].nodes : snapshots[i].nodes[p].owns =>
            \A q \in DOMAIN snapshots[i - 1].nodes :
                snapshots[i - 1].nodes[q].hashes # snapshots[i].nodes[p].hashes

\* What relates each snapshot to the one before, other than that it is linked to it.
Versions ==
    /\ ~EditsWhileAdding => scanned.touched = {}
    /\ \A i \in DOMAIN snapshots : Kept(i) /\ (~EditsWhileAdding => Fresh(i))

\* It holds of a snapshot that is added.
LEMMA FinishKeepsVersions ==
    ASSUME IInv, Versions, FinishSnapshot
    PROVE  Versions'
<1>1. PICK s : snapshots' = Append(snapshots, s) /\ IsAdded(s)
  BY FinishIs
<1>2. phase = "adding" /\ Types_ /\ History /\ Phases /\ Differences
  BY DEF IInv, FinishSnapshot
<1>3. scanned'.touched = {}
  BY DEF FinishSnapshot, EndOfCommand
<1>4. snapshots \in Seq(Snapshot) /\ s \in Snapshot
  BY <1>1, <1>2 DEF History, IsAdded
<1>5. PICK n \in Nat : n = Len(snapshots)
  BY <1>4
<1>6. /\ DOMAIN snapshots' = 1..n + 1 /\ DOMAIN snapshots = 1..n
      /\ snapshots'[n + 1] = s /\ n + 1 - 1 = n
      /\ \A i \in 1..n : snapshots'[i] = snapshots[i]
      /\ n > 0 => LastIndex = snapshots[n].nodes /\ snapshots'[n] = snapshots[n]
      /\ n > 0 <=> snapshots # <<>>
  BY <1>1, <1>4, <1>5 DEF LastIndex
<1>7. ASSUME NEW i \in 1..n PROVE Kept(i)' /\ (~EditsWhileAdding => Fresh(i)')
  <2>1. /\ snapshots'[i] = snapshots[i]
        /\ i > 1 => snapshots'[i - 1] = snapshots[i - 1]
        /\ Kept(i) /\ (~EditsWhileAdding => Fresh(i))
    BY <1>6 DEF Versions
  <2>2. Kept(i)'
    BY <2>1 DEF Kept
  <2>3. Fresh(i) => Fresh(i)'
    BY <2>1 DEF Fresh
  <2>4. QED
    BY <2>1, <2>2, <2>3
<1>8. Kept(n + 1)'
  <2> SUFFICES ASSUME NEW p \in DOMAIN index, s.nodes[p].size > 0
               PROVE  /\ s.how[p] = "data" => s.nodes[p].owns
                      /\ s.how[p] = "metadata" =>
                          /\ n > 0 /\ p \in DOMAIN snapshots[n].nodes
                          /\ snapshots[n].nodes[p].size = s.nodes[p].size
                          /\ snapshots[n].nodes[p].owner = s.nodes[p].owner
    BY <1>1, <1>6 DEF Kept, IsAdded
  <2>1. /\ IsNodeOf(s.nodes[p], p) /\ s.how[p] = diff[p].kind
        /\ p \in DOMAIN diff /\ GoodDifference(p)
    BY <1>1 DEF IsAdded, Differences, IInv
  <2>2. diff[p].kind = "data" => s.nodes[p].owns
    BY <2>1 DEF IsNodeOf
  <2>3. diff[p].kind = "metadata" =>
            /\ snapshots # <<>> /\ p \in DOMAIN LastIndex
            /\ LastIndex[p].size = s.nodes[p].size /\ LastIndex[p].owner = s.nodes[p].owner
    BY <2>1 DEF IsNodeOf, GoodDifference, SameSize
  <2>4. QED
    BY <1>6, <2>1, <2>2, <2>3
<1>9. ~EditsWhileAdding => Fresh(n + 1)'
  <2> SUFFICES ASSUME ~EditsWhileAdding, n > 0, NEW p \in DOMAIN index, s.nodes[p].owns,
                      NEW q \in DOMAIN LastIndex
               PROVE  LastIndex[q].hashes # s.nodes[p].hashes
    BY <1>1, <1>6 DEF Fresh, IsAdded
  <2>1. p \in DOMAIN index \ scanned.touched
    BY DEF Versions
  <2>2. QED
    BY <1>1, <1>2, <1>6, <2>1, AddedIsNew
<1>10. \A i \in 1..n + 1 : i \in 1..n \/ i = n + 1
  OBVIOUS
<1>11. QED
  BY <1>3, <1>6, <1>7, <1>8, <1>9, <1>10 DEF Versions

\* Each snapshot stands in this relation to the one before.
LEMMA VersionsInvariant == Spec => []Versions
<1>1. Init => Versions
  BY DEF Init, Versions
<1>2. IInv /\ Versions /\ [Next]_vars => Versions'
  <2> SUFFICES ASSUME IInv, Versions, [Next]_vars PROVE Versions'
    OBVIOUS
  <2>1. CASE FinishSnapshot
    BY <2>1, FinishKeepsVersions
  <2>2. ASSUME UNCHANGED snapshots, ~EditsWhileAdding => scanned'.touched = {}
        PROVE  Versions'
    BY <2>2 DEF Versions, Kept, Fresh
  <2>3. scanned \in Scan /\ (~EditsWhileAdding => scanned.touched = {})
    BY DEF Versions, IInv, Types_
  <2>4. CASE EditSource
    <3>1. UNCHANGED snapshots /\ (~EditsWhileAdding => scanned' = scanned)
      BY <2>4 DEF EditSource, Write, Remove, Rename, Edit
    <3>2. QED
      BY <2>2, <2>3, <3>1
  <2>5. CASE BeginSnapshot
    <3>1. UNCHANGED snapshots /\ scanned' = [scanned EXCEPT !.source = source]
      BY <2>5 DEF BeginSnapshot
    <3>2. scanned'.touched = scanned.touched
      BY <2>3, <3>1 DEF Scan
    <3>3. QED
      BY <2>2, <2>3, <3>1, <3>2
  <2>6. CASE Abort
    BY <2>2, <2>6 DEF Abort, EndOfCommand
  <2>7. CASE \/ Reconfigure \/ (\E p \in Paths : IndexFile(p)) \/ CompareIndexes
             \/ (\E p \in Paths : HashNode(p)) \/ (\E p \in Paths : PipeNode(p))
             \/ Finished \/ UNCHANGED vars
    <3>1. UNCHANGED <<snapshots, scanned>>
      BY <2>7 DEF Reconfigure, IndexFile, CompareIndexes, HashNode, PipeNode, Finished, vars
    <3>2. QED
      BY <2>2, <2>3, <3>1
  <2>8. QED
    BY <2>1, <2>4, <2>5, <2>6, <2>7 DEF Next
<1>3. QED
  BY IInvInvariant, <1>1, <1>2, PTL DEF Spec

-----------------------------------------------------------------------------
\* A place that has data: what FindDataSnapshot finds from snapshot i is one of it or
\* of an older snapshot, if it finds one.
IsPlace(d, i) ==
    /\ d = [snapshot |-> d.snapshot, path |-> d.path]
    /\ d.snapshot \in 1..i /\ d.path \in Paths
    /\ d.path \in DOMAIN snapshots[d.snapshot].nodes
    /\ HasNodeData(snapshots[d.snapshot].nodes[d.path])

\* By induction over the snapshots: one that has no data asks the one before.
LEMMA FindsPlace ==
    ASSUME History, NEW i \in Nat, i <= Len(snapshots), NEW p \in Paths,
           FindDataSnapshot(i)[p] # None
    PROVE  IsPlace(FindDataSnapshot(i)[p], i)
<1> DEFINE Claim(n) == \A q \in Paths : FindDataSnapshot(n)[q] # None =>
                            IsPlace(FindDataSnapshot(n)[q], n)
           S == {n \in Nat : n <= Len(snapshots) => Claim(n)}
<1>1. Len(snapshots) \in Nat /\ DOMAIN snapshots = 1..Len(snapshots)
  BY DEF History
<1>2. 0 \in S
  <2>1. FindDataSnapshot(0) = FindStep(0, Find(0)[0 - 1])
    <3>1. 0 \in Nat /\ 0 \in 0..0
      OBVIOUS
    <3>2. Find(0)[0] = FindStep(0, Find(0)[0 - 1])
      BY <3>1, FindExists
    <3>3. FindDataSnapshot(0) = Find(0)[0]
      BY FindIs
    <3>4. QED
      BY <3>2, <3>3
  <2>2. \A q \in Paths : FindDataSnapshot(0)[q] = None
    BY <2>1 DEF FindStep
  <2>3. QED
    BY <2>2
<1>3. ASSUME NEW k \in S PROVE k + 1 \in S
  <2> SUFFICES ASSUME k + 1 <= Len(snapshots), NEW q \in Paths,
                      FindDataSnapshot(k + 1)[q] # None
               PROVE  IsPlace(FindDataSnapshot(k + 1)[q], k + 1)
    OBVIOUS
  <2> DEFINE nodes == snapshots[k + 1].nodes
             r == Parent(nodes[q], q)
  <2>1. /\ k \in Nat /\ k + 1 > 0 /\ k + 1 - 1 = k /\ k + 1 \in Nat /\ k + 1 \in 1..k + 1
        /\ k + 1 # 0 /\ k + 1 \in DOMAIN snapshots /\ k <= Len(snapshots)
    BY <1>1
  <2>2. FindDataSnapshot(k + 1)[q] =
            IF q \notin DOMAIN nodes THEN None
            ELSE IF HasNodeData(nodes[q]) THEN [snapshot |-> k + 1, path |-> q]
            ELSE FindDataSnapshot(k)[r]
    BY <2>1, FindEquation DEF FindStep
  <2>3. q \in DOMAIN nodes
    BY <2>2
  <2>4. CASE HasNodeData(nodes[q])
    BY <2>1, <2>2, <2>3, <2>4 DEF IsPlace
  <2>5. CASE ~HasNodeData(nodes[q])
    <3>1. r \in Paths
      <4>1. nodes[q] \in Node
        BY <2>1, <2>3, NodeOfHistory DEF GoodNode
      <4>2. nodes[q].owner \in Optional(Paths)
        BY <4>1, NodeIs
      <4>3. QED
        BY <4>2 DEF Parent, Optional
    <3>2. FindDataSnapshot(k + 1)[q] = FindDataSnapshot(k)[r]
      BY <2>2, <2>3, <2>5
    <3>3. Claim(k)
      BY <2>1
    <3>. HIDE DEF r
    <3>4. IsPlace(FindDataSnapshot(k)[r], k)
      BY <3>1, <3>2, <3>3
    <3>5. \A d : IsPlace(d, k) => IsPlace(d, k + 1)
      BY <2>1 DEF IsPlace
    <3>6. QED
      BY <3>2, <3>4, <3>5
  <2>6. QED
    BY <2>4, <2>5
<1>4. i \in S
  <2>1. S \in SUBSET Nat
    OBVIOUS
  <2>. HIDE DEF S
  <2>2. QED
    BY <1>2, <1>3, <2>1, ClosedIsNat
<1>5. QED
  BY <1>4

-----------------------------------------------------------------------------
\* LoadRevisions goes back to the snapshot before the one with the data, which may be
\* any older one: a step looks at all that the recursion has made so far.
RevisionStep(j, from) ==
    [q \in Paths |->
        IF j = 0 THEN <<>>
        ELSE IF q \notin DOMAIN snapshots[j].nodes THEN <<>>
        ELSE LET d == FindDataSnapshot(j)[q]
             IN  IF d = None THEN <<None>>
                 ELSE << [data |-> d, numberOf |-> [snapshot |-> j, path |-> q]] >>
                      \o from[d.snapshot - 1][d.path]]
Revisions(i) == CHOOSE from : from = [j \in 0..i |-> RevisionStep(j, from)]

\* LoadRevisions as the last value of a function that is defined step by step.
LEMMA RevisionsIs == ASSUME NEW i, NEW p PROVE LoadRevisions(i, p) = Revisions(i)[i][p]
BY Zenon DEF LoadRevisions, Revisions, RevisionStep

\* A step uses nothing but older snapshots.
LEMMA StepUsesOlder ==
    ASSUME History, NEW j \in Nat, j <= Len(snapshots), NEW f, NEW g,
           \A k \in 0..j - 1 : f[k] = g[k]
    PROVE  RevisionStep(j, f) = RevisionStep(j, g)
<1>1. ASSUME NEW q \in Paths, j # 0, FindDataSnapshot(j)[q] # None
      PROVE  LET d == FindDataSnapshot(j)[q] IN f[d.snapshot - 1] = g[d.snapshot - 1]
  <2>1. FindDataSnapshot(j)[q].snapshot \in 1..j
    BY <1>1, FindsPlace DEF IsPlace
  <2>2. FindDataSnapshot(j)[q].snapshot - 1 \in 0..j - 1
    BY <2>1
  <2>3. QED
    BY <2>2
<1>2. ASSUME NEW q \in Paths PROVE RevisionStep(j, f)[q] = RevisionStep(j, g)[q]
  BY <1>1 DEF RevisionStep
<1>3. /\ RevisionStep(j, f) = [q \in Paths |-> RevisionStep(j, f)[q]]
      /\ RevisionStep(j, g) = [q \in Paths |-> RevisionStep(j, g)[q]]
  BY DEF RevisionStep
<1>4. QED
  BY <1>2, <1>3

\* There is such a function for every snapshot: by induction, one step extends it.
LEMMA RevisionsExist ==
    ASSUME History, NEW i \in Nat, i <= Len(snapshots)
    PROVE  \A j \in 0..i : Revisions(i)[j] = RevisionStep(j, Revisions(i))
<1> DEFINE S == {n \in Nat : n <= Len(snapshots) =>
                    \E f : f = [j \in 0..n |-> RevisionStep(j, f)]}
<1>1. Len(snapshots) \in Nat
  BY DEF History
<1>2. 0 \in S
  <2> DEFINE f == [j \in 0..0 |-> RevisionStep(0, <<>>)]
  <2>1. RevisionStep(0, f) = RevisionStep(0, <<>>)
    BY DEF RevisionStep
  <2>2. f = [j \in 0..0 |-> RevisionStep(0, f)]
    BY <2>1
  <2>3. f = [j \in 0..0 |-> RevisionStep(j, f)]
    BY <2>2
  <2>4. QED
    BY <2>3
<1>3. ASSUME NEW n \in S PROVE n + 1 \in S
  <2> SUFFICES ASSUME n + 1 <= Len(snapshots)
               PROVE  \E f : f = [j \in 0..n + 1 |-> RevisionStep(j, f)]
    OBVIOUS
  <2>1. n \in Nat /\ n <= Len(snapshots)
    BY <1>1
  <2>2. PICK g : g = [j \in 0..n |-> RevisionStep(j, g)]
    BY <2>1
  <2> DEFINE f == [j \in 0..n + 1 |-> IF j = n + 1 THEN RevisionStep(j, g) ELSE g[j]]
  <2>3. \A j \in 0..n : f[j] = g[j] /\ g[j] = RevisionStep(j, g)
    <3>1. \A j \in 0..n : j \in 0..n + 1 /\ j # n + 1
      BY <2>1
    <3>2. \A j \in 0..n : g[j] = RevisionStep(j, g)
      BY <2>2
    <3>3. QED
      BY <3>1, <3>2
  <2>4. f[n + 1] = RevisionStep(n + 1, g)
    BY <2>1
  <2>5. f = [j \in 0..n + 1 |-> f[j]]
    OBVIOUS
  <2>. HIDE DEF f
  <2>6. ASSUME NEW j \in 0..n + 1 PROVE f[j] = RevisionStep(j, f)
    <3>1. j \in Nat /\ j <= Len(snapshots) /\ (\A k \in 0..j - 1 : k \in 0..n)
      BY <1>1, <2>1
    <3>2. \A k \in 0..j - 1 : f[k] = g[k]
      BY <2>3, <3>1
    <3>3. RevisionStep(j, f) = RevisionStep(j, g)
      BY <3>1, <3>2, StepUsesOlder
    <3>4. j \in 0..n \/ j = n + 1
      BY <2>1
    <3>5. QED
      BY <2>3, <2>4, <3>3, <3>4
  <2>7. f = [j \in 0..n + 1 |-> RevisionStep(j, f)]
    BY <2>5, <2>6
  <2>8. QED
    BY <2>7
<1>4. i \in S
  <2>1. S \in SUBSET Nat
    OBVIOUS
  <2>. HIDE DEF S
  <2>2. QED
    BY <1>2, <1>3, <2>1, ClosedIsNat
<1>5. Revisions(i) = [j \in 0..i |-> RevisionStep(j, Revisions(i))]
  BY <1>4 DEF Revisions
<1>6. QED
  BY <1>5

\* ... and all these functions agree.
LEMMA RevisionsAgree ==
    ASSUME History, NEW i \in Nat, i <= Len(snapshots), NEW j \in 0..i
    PROVE  Revisions(i)[j] = Revisions(j)[j]
<1> DEFINE S == {n \in Nat : \A m \in 0..n : \A a, b \in m..Len(snapshots) :
                    Revisions(a)[m] = Revisions(b)[m]}
<1>1. Len(snapshots) \in Nat
  BY DEF History
<1>2. ASSUME NEW m \in Nat, NEW a \in m..Len(snapshots), NEW b \in m..Len(snapshots),
             \A k \in 0..m - 1 : Revisions(a)[k] = Revisions(b)[k]
      PROVE  Revisions(a)[m] = Revisions(b)[m]
  <2>1. /\ a \in Nat /\ b \in Nat /\ a <= Len(snapshots) /\ b <= Len(snapshots)
        /\ m \in 0..a /\ m \in 0..b /\ m <= Len(snapshots)
    BY <1>1
  <2>2. /\ Revisions(a)[m] = RevisionStep(m, Revisions(a))
        /\ Revisions(b)[m] = RevisionStep(m, Revisions(b))
    BY <2>1, RevisionsExist
  <2>3. RevisionStep(m, Revisions(a)) = RevisionStep(m, Revisions(b))
    BY <1>2, <2>1, StepUsesOlder
  <2>4. QED
    BY <2>2, <2>3
<1>3. 0 \in S
  <2>1. \A m \in 0..0 : m = 0 /\ m \in Nat /\ 0..m - 1 = {}
    OBVIOUS
  <2>2. QED
    BY <1>2, <2>1
<1>4. ASSUME NEW n \in S PROVE n + 1 \in S
  <2> SUFFICES ASSUME NEW m \in 0..n + 1,
                      NEW a \in m..Len(snapshots), NEW b \in m..Len(snapshots)
               PROVE  Revisions(a)[m] = Revisions(b)[m]
    OBVIOUS
  <2>1. ASSUME NEW k \in 0..m - 1 PROVE Revisions(a)[k] = Revisions(b)[k]
    <3>1. k \in 0..n /\ a \in k..Len(snapshots) /\ b \in k..Len(snapshots)
      BY <1>1
    <3>2. QED
      BY <3>1
  <2>2. QED
    BY <1>2, <2>1
<1>5. j \in S
  <2>1. S \in SUBSET Nat /\ j \in Nat
    OBVIOUS
  <2>. HIDE DEF S
  <2>2. QED
    BY <1>3, <1>4, <2>1, ClosedIsNat
<1>6. j \in 0..j /\ i \in j..Len(snapshots) /\ j \in j..Len(snapshots)
  BY <1>1
<1>7. QED
  BY <1>5, <1>6

\* So the revisions of a path that a snapshot has are the data that FindDataSnapshot
\* finds, and the revisions of the path it has there from the snapshot before on.
LEMMA LoadRevisionsEquation ==
    ASSUME History, NEW i \in Nat, i <= Len(snapshots), NEW p \in Paths
    PROVE  LoadRevisions(i, p) =
                IF i = 0 THEN <<>>
                ELSE IF p \notin DOMAIN snapshots[i].nodes THEN <<>>
                ELSE LET d == FindDataSnapshot(i)[p]
                     IN  IF d = None THEN <<None>>
                         ELSE << [data |-> d, numberOf |-> [snapshot |-> i, path |-> p]] >>
                              \o LoadRevisions(d.snapshot - 1, d.path)
<1> DEFINE d == FindDataSnapshot(i)[p]
<1>1. LoadRevisions(i, p) = RevisionStep(i, Revisions(i))[p]
  BY RevisionsIs, RevisionsExist
<1>2. ASSUME d # None
      PROVE  LoadRevisions(d.snapshot - 1, d.path) = Revisions(i)[d.snapshot - 1][d.path]
  <2>1. d.snapshot \in 1..i
    BY <1>2, FindsPlace DEF IsPlace
  <2>. HIDE DEF d
  <2>2. d.snapshot - 1 \in 0..i
    BY <2>1
  <2>3. QED
    BY <2>2, RevisionsAgree, RevisionsIs
<1>3. RevisionStep(i, Revisions(i))[p] =
                IF i = 0 THEN <<>>
                ELSE IF p \notin DOMAIN snapshots[i].nodes THEN <<>>
                ELSE IF d = None THEN <<None>>
                ELSE << [data |-> d, numberOf |-> [snapshot |-> i, path |-> p]] >>
                     \o Revisions(i)[d.snapshot - 1][d.path]
  BY DEF RevisionStep
<1>4. QED
  BY <1>1, <1>2, <1>3

\* A list of revisions from snapshot i on, of path p: it begins with the data that
\* FindDataSnapshot finds, goes on with what it finds from the snapshot before it at
\* the path that it has there, and so comes to ever older snapshots.
Places == [snapshot : Nat, path : Paths]
Revision == {None} \cup [data : Places, numberOf : Places]
GoesOn(d, e) ==
    /\ d.snapshot > 1 /\ d.path \in DOMAIN snapshots[d.snapshot - 1].nodes
    /\ e = FindDataSnapshot(d.snapshot - 1)[d.path]
IsList(s, i, p) ==
    /\ s \in Seq(Revision)
    /\ s # <<>> /\ s[1] # None =>
        i > 0 /\ p \in DOMAIN snapshots[i].nodes /\ s[1].data = FindDataSnapshot(i)[p]
    /\ \A k \in DOMAIN s : s[k] # None => IsPlace(s[k].data, i)
    /\ \A k, l \in DOMAIN s : s[k] # None /\ s[l] # None /\ k < l =>
        s[k].data.snapshot > s[l].data.snapshot
    /\ \A k \in DOMAIN s : k + 1 \in DOMAIN s /\ s[k] # None /\ s[k + 1] # None =>
        GoesOn(s[k].data, s[k + 1].data)

\* A sequence with one element before it.
LEMMA OneBefore ==
    ASSUME NEW R, NEW x \in R, NEW t \in Seq(R)
    PROVE  LET s == <<x>> \o t
           IN  /\ s \in Seq(R) /\ Len(s) = Len(t) + 1 /\ s[1] = x /\ s # <<>>
               /\ DOMAIN s = 1..Len(t) + 1 /\ DOMAIN t = 1..Len(t)
               /\ \A k \in 1..Len(t) : s[k + 1] = t[k]
OBVIOUS

\* What is a place up to an older snapshot is one up to a newer one.
LEMMA PlaceUpTo ==
    ASSUME NEW i \in Nat, NEW j \in 0..i, NEW d, IsPlace(d, j)
    PROVE  IsPlace(d, i) /\ d \in Places /\ d.snapshot <= j
BY DEF IsPlace, Places

\* One revision before a list from the snapshot before it on is a list.
LEMMA ListStep ==
    ASSUME History, NEW i \in Nat, i <= Len(snapshots), NEW p \in Paths,
           \A j \in 0..i - 1, q \in Paths : IsList(LoadRevisions(j, q), j, q)
    PROVE  IsList(LoadRevisions(i, p), i, p)
<1> DEFINE d == FindDataSnapshot(i)[p]
           t == LoadRevisions(d.snapshot - 1, d.path)
           x == [data |-> d, numberOf |-> [snapshot |-> i, path |-> p]]
           s == LoadRevisions(i, p)
<1>1. Len(snapshots) \in Nat
  BY DEF History
<1>2. CASE i = 0 \/ p \notin DOMAIN snapshots[i].nodes
  <2>1. s = <<>>
    BY <1>2, LoadRevisionsEquation
  <2>. HIDE DEF s
  <2>2. IsList(s, i, p)
    BY <2>1 DEF IsList
  <2>3. QED
    BY <2>2 DEF s
<1>3. CASE i > 0 /\ p \in DOMAIN snapshots[i].nodes /\ d = None
  <2>1. s = <<None>>
    <3>1. i # 0
      BY <1>3
    <3>2. QED
      BY <1>3, <3>1, LoadRevisionsEquation, Zenon
  <2>2. None \in Revision
    BY DEF Revision
  <2>. HIDE DEF s
  <2>3. s \in Seq(Revision) /\ Len(s) = 1 /\ s[1] = None /\ DOMAIN s = {1}
    BY <2>1, <2>2
  <2>4. IsList(s, i, p)
    BY <2>3 DEF IsList
  <2>5. QED
    BY <2>4 DEF s
<1>4. CASE i > 0 /\ p \in DOMAIN snapshots[i].nodes /\ d # None
  <2>1. s = <<x>> \o t
    BY <1>4, LoadRevisionsEquation
  <2>2. IsPlace(d, i)
    BY <1>4, FindsPlace
  <2>. HIDE DEF d
  <2>3. d.snapshot \in 1..i /\ d.path \in Paths /\ d.snapshot - 1 \in 0..i - 1
    BY <2>2 DEF IsPlace
  <2>4. IsList(t, d.snapshot - 1, d.path)
    BY <2>3
  <2>5. x \in Revision
    <3>1. d \in Places /\ [snapshot |-> i, path |-> p] \in Places
      BY <2>2, PlaceUpTo DEF Places
    <3>2. QED
      BY <3>1 DEF Revision
  <2>6. x.data = d
    OBVIOUS
  <2>. HIDE DEF s, t, x
  <2>7. t \in Seq(Revision) /\ Len(t) \in Nat
    BY <2>4 DEF IsList
  <2>8. /\ s \in Seq(Revision) /\ s[1] = x /\ s # <<>>
        /\ DOMAIN s = 1..Len(t) + 1 /\ DOMAIN t = 1..Len(t)
        /\ \A k \in 1..Len(t) : s[k + 1] = t[k]
    BY <2>1, <2>5, <2>7, OneBefore
  <2>9. \A k \in DOMAIN s : k = 1 \/ (k > 1 /\ k - 1 \in DOMAIN t /\ s[k] = t[k - 1])
    <3> SUFFICES ASSUME NEW k \in 1..Len(t) + 1, k # 1
                 PROVE  k > 1 /\ k - 1 \in DOMAIN t /\ s[k] = t[k - 1]
      BY <2>8
    <3>1. k > 1 /\ k - 1 \in 1..Len(t) /\ k - 1 + 1 = k
      BY <2>7
    <3>2. QED
      BY <2>8, <3>1
  <2>10. \A k \in DOMAIN t : t[k] # None =>
            IsPlace(t[k].data, i) /\ t[k].data.snapshot < d.snapshot
    <3> SUFFICES ASSUME NEW k \in DOMAIN t, t[k] # None
                 PROVE  IsPlace(t[k].data, i) /\ t[k].data.snapshot < d.snapshot
      OBVIOUS
    <3>1. IsPlace(t[k].data, d.snapshot - 1)
      BY <2>4 DEF IsList
    <3>2. d.snapshot - 1 \in 0..i
      BY <2>3
    <3>3. IsPlace(t[k].data, i) /\ t[k].data.snapshot <= d.snapshot - 1
      BY <3>1, <3>2, PlaceUpTo
    <3>4. t[k].data.snapshot \in Nat
      BY <3>3 DEF IsPlace
    <3>5. QED
      BY <2>3, <3>3, <3>4
  <2>11. \A k \in DOMAIN s : s[k] # None => IsPlace(s[k].data, i)
    BY <2>2, <2>6, <2>8, <2>9, <2>10
  <2>12. ASSUME NEW k \in DOMAIN s, NEW l \in DOMAIN s, s[k] # None, s[l] # None, k < l
         PROVE  s[k].data.snapshot > s[l].data.snapshot
    <3>1. k \in Nat /\ l \in Nat /\ l # 1
      BY <2>7, <2>8, <2>12
    <3>2. l - 1 \in DOMAIN t /\ s[l] = t[l - 1]
      BY <2>9, <3>1
    <3>3. CASE k = 1
      BY <2>6, <2>8, <2>10, <2>12, <3>2, <3>3
    <3>4. CASE k # 1
      <4>1. k - 1 \in DOMAIN t /\ s[k] = t[k - 1] /\ k - 1 < l - 1
        BY <2>9, <2>12, <3>1, <3>4
      <4>2. QED
        BY <2>4, <2>12, <3>2, <4>1 DEF IsList
    <3>5. QED
      BY <3>3, <3>4
  <2>13. ASSUME NEW k \in DOMAIN s, k + 1 \in DOMAIN s, s[k] # None, s[k + 1] # None
         PROVE  GoesOn(s[k].data, s[k + 1].data)
    <3>1. k \in Nat /\ k + 1 # 1 /\ k + 1 - 1 = k
      BY <2>7, <2>8
    <3>2. k \in DOMAIN t /\ s[k + 1] = t[k]
      BY <2>9, <2>13, <3>1
    <3>3. CASE k = 1
      <4>1. t # <<>> /\ t[1] # None
        BY <2>8, <2>13, <3>2, <3>3
      <4>2. /\ d.snapshot - 1 > 0 /\ d.path \in DOMAIN snapshots[d.snapshot - 1].nodes
            /\ t[1].data = FindDataSnapshot(d.snapshot - 1)[d.path]
        BY <2>4, <4>1 DEF IsList
      <4>3. QED
        BY <2>3, <2>6, <2>8, <3>2, <3>3, <4>2 DEF GoesOn
    <3>4. CASE k # 1
      <4>1. k - 1 \in DOMAIN t /\ s[k] = t[k - 1] /\ k - 1 + 1 = k
        BY <2>9, <3>1, <3>4
      <4>2. QED
        BY <2>4, <2>13, <3>2, <4>1 DEF IsList
    <3>5. QED
      BY <3>3, <3>4
  <2>14. s[1].data = d
    BY <2>6, <2>8
  <2>15. IsList(s, i, p)
    BY <1>4, <2>8, <2>11, <2>12, <2>13, <2>14 DEF IsList, d
  <2>16. QED
    BY <2>15 DEF s
<1>5. QED
  BY <1>2, <1>3, <1>4

\* LoadRevisions makes lists of revisions.
LEMMA LoadsLists ==
    ASSUME History, NEW i \in Nat, i <= Len(snapshots), NEW p \in Paths
    PROVE  IsList(LoadRevisions(i, p), i, p)
<1> DEFINE Claim(m) == m <= Len(snapshots) =>
                            \A q \in Paths : IsList(LoadRevisions(m, q), m, q)
           S == {n \in Nat : \A m \in 0..n : Claim(m)}
<1>1. Len(snapshots) \in Nat
  BY DEF History
<1>2. ASSUME NEW m \in Nat, \A k \in 0..m - 1 : Claim(k) PROVE Claim(m)
  <2> SUFFICES ASSUME m <= Len(snapshots), NEW q \in Paths
               PROVE  IsList(LoadRevisions(m, q), m, q)
    OBVIOUS
  <2>1. \A k \in 0..m - 1 : k <= Len(snapshots)
    BY <1>1
  <2>2. \A k \in 0..m - 1, r \in Paths : IsList(LoadRevisions(k, r), k, r)
    BY <1>2, <2>1
  <2>3. QED
    BY <2>2, ListStep
<1>. HIDE DEF Claim
<1>3. 0 \in S
  <2>1. \A m \in 0..0 : m = 0 /\ m \in Nat /\ 0..m - 1 = {}
    OBVIOUS
  <2>2. QED
    BY <1>2, <2>1
<1>4. ASSUME NEW n \in S PROVE n + 1 \in S
  <2>1. ASSUME NEW m \in 0..n + 1 PROVE Claim(m)
    <3>1. m \in Nat /\ \A k \in 0..m - 1 : k \in 0..n
      OBVIOUS
    <3>2. QED
      BY <1>2, <3>1
  <2>2. QED
    BY <2>1
<1>5. i \in S
  <2>1. S \in SUBSET Nat
    OBVIOUS
  <2>. HIDE DEF S
  <2>2. QED
    BY <1>3, <1>4, <2>1, ClosedIsNat
<1>6. QED
  BY <1>5 DEF Claim

\* What snapshot j has stored of path p, if p is a node that was not moved in any
\* snapshot since, is what FindDataSnapshot finds from these, or something newer at p.
StayedAt(p, j, i) ==
    \A k \in j..i : p \in DOMAIN snapshots[k].nodes /\ snapshots[k].how[p] # "moved"

\* By induction over the snapshots from j on: none of the nodes has a back reference.
LEMMA FindsStored ==
    ASSUME History, Versions, NEW i \in DOMAIN snapshots, NEW p \in Paths, NEW j \in 1..i,
           StayedAt(p, j, i), snapshots[j].nodes[p].owns, NEW m \in j..i
    PROVE  \E n \in j..m : FindDataSnapshot(m)[p] = [snapshot |-> n, path |-> p]
<1> DEFINE node(k) == snapshots[k].nodes[p]
           Claim(k) == /\ node(k).size > 0 => node(k).owner = <<>>
                       /\ \E n \in j..k : FindDataSnapshot(k)[p] = [snapshot |-> n, path |-> p]
           S == {k \in Nat : k \in j..i => Claim(k)}
<1>1. Len(snapshots) \in Nat /\ DOMAIN snapshots = 1..Len(snapshots) /\ i \in Nat /\ j \in Nat
  BY DEF History
<1>2. ASSUME NEW k \in j..i
      PROVE  /\ k \in DOMAIN snapshots /\ k > 0 /\ p \in DOMAIN snapshots[k].nodes
             /\ GoodNode(node(k)) /\ node(k).size \in Nat /\ Kept(k)
             /\ snapshots[k].how[p] \in {"data", "metadata"}
             /\ FindDataSnapshot(k)[p] =
                    IF HasNodeData(node(k)) THEN [snapshot |-> k, path |-> p]
                    ELSE FindDataSnapshot(k - 1)[Parent(node(k), p)]
  <2>1. /\ k \in DOMAIN snapshots /\ k > 0 /\ k \in Nat
        /\ p \in DOMAIN snapshots[k].nodes /\ snapshots[k].how[p] # "moved"
    BY <1>1 DEF StayedAt
  <2>2. GoodNode(node(k)) /\ node(k).size \in Nat
    BY <2>1, NodeOfHistory, NodeIs DEF GoodNode
  <2>3. snapshots[k].how[p] \in Kinds
    <3>1. snapshots[k] \in Snapshot /\ GoodSnapshot(snapshots[k])
      BY <2>1 DEF History
    <3>2. snapshots[k].how \in PartialFunctions(Paths, Kinds)
      BY <3>1 DEF Snapshot
    <3>3. p \in DOMAIN snapshots[k].how
      BY <2>1, <3>1 DEF GoodSnapshot
    <3>4. QED
      BY <3>2, <3>3, PartialIs
  <2>4. FindDataSnapshot(k) = FindStep(k, FindDataSnapshot(k - 1))
    BY <2>1, FindEquation
  <2>5. k # 0
    BY <2>1
  <2>6. FindDataSnapshot(k)[p] =
            IF HasNodeData(node(k)) THEN [snapshot |-> k, path |-> p]
            ELSE FindDataSnapshot(k - 1)[Parent(node(k), p)]
    BY <2>1, <2>4, <2>5 DEF FindStep
  <2>7. Kept(k)
    BY <2>1 DEF Versions
  <2>8. QED
    BY <2>1, <2>2, <2>3, <2>6, <2>7 DEF Kinds
<1>3. 0 \in S
  BY <1>1
<1>4. ASSUME NEW k \in S PROVE k + 1 \in S
  <2> SUFFICES ASSUME k + 1 \in j..i PROVE Claim(k + 1)
    OBVIOUS
  <2> DEFINE n == snapshots[k + 1].nodes[p]
  <2>1. k \in Nat /\ k + 1 - 1 = k /\ k + 1 \in j..k + 1
    BY <1>1
  <2>0. /\ p \in DOMAIN snapshots[k + 1].nodes
        /\ GoodNode(n) /\ n.size \in Nat /\ Kept(k + 1)
        /\ snapshots[k + 1].how[p] \in {"data", "metadata"}
        /\ FindDataSnapshot(k + 1)[p] =
               IF HasNodeData(n) THEN [snapshot |-> k + 1, path |-> p]
               ELSE FindDataSnapshot(k)[Parent(n, p)]
    BY <1>2, <2>1
  <2>2. CASE HasNodeData(n)
    <3>1. FindDataSnapshot(k + 1)[p] = [snapshot |-> k + 1, path |-> p]
      BY <2>0, <2>2
    <3>2. n.size > 0 => n.owner = <<>>
      BY <2>0, <2>2 DEF HasNodeData, GoodNode
    <3>3. QED
      BY <2>1, <3>1, <3>2
  <2>3. CASE ~HasNodeData(n)
    <3>1. ~n.owns /\ n.size > 0
      BY <2>0, <2>3 DEF HasNodeData
    <3>2. node(k).size = n.size /\ node(k).owner = n.owner
      BY <2>0, <2>1, <3>1 DEF Kept
    <3>3. k \in j..i
      <4>1. k + 1 # j
        BY <3>1
      <4>2. QED
        BY <1>1, <2>1, <4>1
    <3>4. Claim(k)
      BY <3>3
    <3>5. n.owner = <<>>
      BY <3>1, <3>2, <3>4
    <3>6. FindDataSnapshot(k + 1)[p] = FindDataSnapshot(k)[p]
      BY <2>0, <2>3, <3>5 DEF Parent
    <3>7. PICK l \in j..k : FindDataSnapshot(k)[p] = [snapshot |-> l, path |-> p]
      BY <3>4
    <3>8. l \in j..k + 1
      BY <1>1, <2>1
    <3>9. QED
      BY <3>5, <3>6, <3>7, <3>8
  <2>4. QED
    BY <2>2, <2>3
<1>5. m \in S
  <2>1. S \in SUBSET Nat /\ m \in Nat
    BY <1>1
  <2>. HIDE DEF S
  <2>2. QED
    BY <1>3, <1>4, <2>1, ClosedIsNat
<1>6. QED
  BY <1>5

\* So the list of revisions has it: by induction again, it is the first one or in the
\* list that follows that.
Lists(s, d) == \E k \in DOMAIN s : s[k] # None /\ s[k].data = d
LEMMA ListsStored ==
    ASSUME History, Versions, NEW i \in DOMAIN snapshots, NEW p \in Paths, NEW j \in 1..i,
           StayedAt(p, j, i), snapshots[j].nodes[p].owns
    PROVE  Lists(LoadRevisions(i, p), [snapshot |-> j, path |-> p])
<1> DEFINE Claim(m) == m \in j..i =>
                            Lists(LoadRevisions(m, p), [snapshot |-> j, path |-> p])
           S == {n \in Nat : \A m \in 0..n : Claim(m)}
<1>1. Len(snapshots) \in Nat /\ DOMAIN snapshots = 1..Len(snapshots) /\ i \in Nat /\ j \in Nat
  BY DEF History
<1>2. ASSUME NEW m \in Nat, \A k \in 0..m - 1 : Claim(k) PROVE Claim(m)
  <2> SUFFICES ASSUME m \in j..i
               PROVE  Lists(LoadRevisions(m, p), [snapshot |-> j, path |-> p])
    OBVIOUS
  <2> DEFINE s == LoadRevisions(m, p)
             d == FindDataSnapshot(m)[p]
             t == LoadRevisions(d.snapshot - 1, d.path)
             x == [data |-> d, numberOf |-> [snapshot |-> m, path |-> p]]
  <2>1. m # 0 /\ m <= Len(snapshots) /\ p \in DOMAIN snapshots[m].nodes
    BY <1>1 DEF StayedAt
  <2>2. PICK n \in j..m : d = [snapshot |-> n, path |-> p]
    BY FindsStored
  <2>3. n \in Nat /\ d.snapshot = n /\ d.path = p /\ d # None
    BY <1>1, <2>2, NoneAssumption
  <2>4. s = <<x>> \o t
    BY <2>1, <2>3, LoadRevisionsEquation, Zenon
  <2>. HIDE DEF d
  <2>5. x # None /\ x.data = d /\ x \in Revision
    <3>1. d \in Places /\ [snapshot |-> m, path |-> p] \in Places
      BY <2>2, <2>3 DEF Places
    <3>2. x \in [data : Places, numberOf : Places]
      BY <3>1
    <3>3. QED
      BY <3>2, NoRevisionAssumption DEF Revision, Places
  <2>6. n - 1 \in Nat /\ n - 1 <= Len(snapshots) /\ n - 1 \in 0..m - 1
    BY <1>1, <2>1, <2>3
  <2>7. t \in Seq(Revision)
    BY <2>3, <2>6, LoadsLists DEF IsList
  <2>. HIDE DEF s, t, x
  <2>8. /\ s[1] = x /\ Len(t) \in Nat
        /\ DOMAIN s = 1..Len(t) + 1 /\ DOMAIN t = 1..Len(t)
        /\ \A k \in 1..Len(t) : s[k + 1] = t[k]
    BY <2>4, <2>5, <2>7, OneBefore
  <2>9. CASE n = j
    <3>1. 1 \in DOMAIN s /\ s[1] # None /\ s[1].data = [snapshot |-> j, path |-> p]
      BY <2>2, <2>5, <2>8, <2>9
    <3>2. QED
      BY <3>1 DEF Lists, s
  <2>10. CASE n # j
    <3>1. n - 1 \in j..i
      BY <1>1, <2>6, <2>10
    <3>2. Lists(t, [snapshot |-> j, path |-> p])
      BY <1>2, <2>3, <2>6, <3>1 DEF t
    <3>3. PICK k \in DOMAIN t : t[k] # None /\ t[k].data = [snapshot |-> j, path |-> p]
      BY <3>2 DEF Lists
    <3>4. k + 1 \in DOMAIN s /\ s[k + 1] = t[k]
      BY <2>8
    <3>5. QED
      BY <3>3, <3>4 DEF Lists, s
  <2>11. QED
    BY <2>9, <2>10
<1>. HIDE DEF Claim
<1>3. 0 \in S
  <2>1. \A m \in 0..0 : m = 0 /\ m \in Nat /\ 0..m - 1 = {}
    OBVIOUS
  <2>2. QED
    BY <1>2, <2>1
<1>4. ASSUME NEW n \in S PROVE n + 1 \in S
  <2>1. ASSUME NEW m \in 0..n + 1 PROVE Claim(m)
    <3>1. m \in Nat /\ \A k \in 0..m - 1 : k \in 0..n
      OBVIOUS
    <3>2. QED
      BY <1>2, <3>1
  <2>2. QED
    BY <2>1
<1>5. i \in S
  <2>1. S \in SUBSET Nat
    OBVIOUS
  <2>. HIDE DEF S
  <2>2. QED
    BY <1>1, <1>3, <1>4, <2>1, ClosedIsNat
<1>6. i \in 0..i /\ i \in j..i
  BY <1>1
<1>7. QED
  BY <1>5, <1>6 DEF Claim

\* What the list goes on with has the hashes of the node that it was found from, and
\* what was stored then has other ones.
LEMMA NextDiffers ==
    ASSUME History, Versions, ~EditsWhileAdding, NEW i \in DOMAIN snapshots,
           NEW d, IsPlace(d, i), snapshots[d.snapshot].nodes[d.path].size > 0,
           NEW e, GoesOn(d, e), OwnReferencesOnly(d.snapshot - 1, d.path)
    PROVE  snapshots[d.snapshot].nodes[d.path].hashes # snapshots[e.snapshot].nodes[e.path].hashes
<1> DEFINE m == d.snapshot - 1
           p == d.path
           n == snapshots[m].nodes[p]
<1>1. Len(snapshots) \in Nat /\ DOMAIN snapshots = 1..Len(snapshots)
  BY DEF History
<1>2. /\ d.snapshot \in DOMAIN snapshots /\ d.snapshot \in Nat /\ d.snapshot > 1
      /\ m \in DOMAIN snapshots /\ m \in Nat /\ m > 0
  BY <1>1 DEF IsPlace, GoesOn
<1>3. p \in DOMAIN snapshots[m].nodes /\ e = FindDataSnapshot(m)[p]
  BY DEF GoesOn
<1>4. p \in DOMAIN snapshots[d.snapshot].nodes /\ snapshots[d.snapshot].nodes[p].owns
  BY DEF IsPlace, HasNodeData
<1>5. n.hashes # snapshots[d.snapshot].nodes[p].hashes
  <2>1. Fresh(d.snapshot)
    BY <1>2 DEF Versions
  <2>2. QED
    BY <1>2, <1>3, <1>4, <2>1 DEF Fresh
<1>6. snapshots[e.snapshot].nodes[e.path].hashes = n.hashes
  <2>1. CASE n.type # "directory"
    <3>1. p \in DataNodes(m)
      BY <1>3, <2>1 DEF DataNodes
    <3>2. HasDataOf(e, m, p)
      BY <1>2, <1>3, <3>1, FindsData
    <3>3. QED
      BY <3>2 DEF HasDataOf
  <2>2. CASE n.type = "directory"
    <3>1. HasNodeData(n) /\ p \in Paths
      BY <1>2, <1>3, <2>2, NodeOfHistory DEF GoodNode, HasNodeData
    <3>2. FindDataSnapshot(m) = FindStep(m, FindDataSnapshot(m - 1)) /\ m # 0
      BY <1>2, FindEquation
    <3>3. e = [snapshot |-> m, path |-> p]
      BY <1>3, <3>1, <3>2 DEF FindStep
    <3>4. QED
      BY <3>3
  <2>3. QED
    BY <2>1, <2>2
<1>7. QED
  BY <1>5, <1>6

\* The list of revisions in the viewer is that of the versions.
LEMMA IInvRevisions == IInv /\ Versions => RevisionsAreVersions
<1> SUFFICES ASSUME IInv, Versions, NEW i \in DOMAIN snapshots, NEW p \in DataNodes(i)
             PROVE  LET revisions == LoadRevisions(i, p)
                        listed == {k \in DOMAIN revisions : revisions[k] # None}
                        At(k) == revisions[k].data
                        Stayed(j) == \A k \in j..i :
                                        p \in DataNodes(k) /\ snapshots[k].how[p] # "moved"
                    IN  /\ \A j \in 1..i : Stayed(j) /\ snapshots[j].nodes[p].owns =>
                            \E k \in listed : At(k) = [snapshot |-> j, path |-> p]
                        /\ \A k, l \in listed : k < l => At(k).snapshot > At(l).snapshot
                        /\ \A k \in listed :
                            k + 1 \in listed /\ OwnReferencesOnly(At(k).snapshot - 1, At(k).path) =>
                            LET new == snapshots[At(k).snapshot].nodes[At(k).path]
                                old == snapshots[At(k + 1).snapshot].nodes[At(k + 1).path]
                            IN  new.size > 0 /\ ~EditsWhileAdding => new.hashes # old.hashes
  BY DEF RevisionsAreVersions
<1> DEFINE s == LoadRevisions(i, p)
<1>1. History /\ i \in Nat /\ i <= Len(snapshots)
  BY DEF IInv, History
<1>2. p \in Paths
  BY <1>1, NodeOfHistory DEF DataNodes
<1>3. IsList(s, i, p)
  BY <1>1, <1>2, LoadsLists
<1>4. ASSUME NEW j \in 1..i, snapshots[j].nodes[p].owns,
             \A k \in j..i : p \in DataNodes(k) /\ snapshots[k].how[p] # "moved"
      PROVE  \E k \in DOMAIN s : s[k] # None /\ s[k].data = [snapshot |-> j, path |-> p]
  <2>1. StayedAt(p, j, i)
    BY <1>4 DEF StayedAt, DataNodes
  <2>2. Lists(s, [snapshot |-> j, path |-> p])
    BY <1>1, <1>2, <1>4, <2>1, ListsStored
  <2>3. QED
    BY <2>2 DEF Lists
<1>. HIDE DEF s
<1>5. ASSUME NEW k \in DOMAIN s, s[k] # None, k + 1 \in DOMAIN s, s[k + 1] # None,
             OwnReferencesOnly(s[k].data.snapshot - 1, s[k].data.path),
             snapshots[s[k].data.snapshot].nodes[s[k].data.path].size > 0,
             ~EditsWhileAdding
      PROVE  snapshots[s[k].data.snapshot].nodes[s[k].data.path].hashes #
                snapshots[s[k + 1].data.snapshot].nodes[s[k + 1].data.path].hashes
  <2>1. IsPlace(s[k].data, i) /\ GoesOn(s[k].data, s[k + 1].data)
    BY <1>3, <1>5 DEF IsList
  <2>2. QED
    BY <1>1, <1>5, <2>1, NextDiffers
<1>6. \A k, l \in DOMAIN s : s[k] # None /\ s[l] # None /\ k < l =>
            s[k].data.snapshot > s[l].data.snapshot
  BY <1>3 DEF IsList
<1>7. QED
  BY <1>4, <1>5, <1>6 DEF s

\* The viewer lists every version of a file that was stored at its path since it was last
\* moved, none twice, and no two that follow each other have the same content, in every
\* reachable state.
THEOREM RevisionsAreTheVersions == Spec => []RevisionsAreVersions
BY IInvInvariant, VersionsInvariant, IInvRevisions, PTL
=============================================================================
