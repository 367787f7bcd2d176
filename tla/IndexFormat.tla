---------------------------- MODULE IndexFormat ----------------------------
(***************************************************************************)
(* The index file of a snapshot: what BackupNodeIndex writes of a node,    *)
(* what it reads in again, and the hash index it then makes.               *)
(*                                                                         *)
(* The attributes of a node are a record of its type, size, mtime,         *)
(* permissions, blocks, whether it owns them, the back reference to their  *)
(* owner, their compression, and the function hashes from algorithms to    *)
(* values.  An Optional is a sequence with at most one element, and so is a*)
(* child element that can be missing.                                      *)
(***************************************************************************)
EXTENDS Integers, Sequences

Types == {"directory", "file", "link"}

\* BackupNodeIndex::SerializeBlocks: without blocks there is no element, and the
\* owner and the compression are not written.
SerializeBlocks(a) ==
    IF a.blocks = <<>> THEN <<>>
    ELSE << [owned |-> a.owns, owner |-> a.owner,
             compression |-> a.compression, blocks |-> a.blocks] >>

SerializeHashes(hashes) == IF DOMAIN hashes = {} THEN <<>> ELSE <<hashes>>

SerializePermissions(permissions) == [type |-> "POSIX", posix |-> permissions]

\* BackupNodeIndex::SerializeNode: a directory has no size.
SerializeNode(path, a) ==
    [type |-> a.type,
     path |-> path,
     lastModified |-> a.mtime,
     permissions |-> SerializePermissions(a.permissions),
     size |-> IF a.type = "directory" THEN <<>> ELSE <<a.size>>,
     blocks |-> SerializeBlocks(a),
     hashes |-> SerializeHashes(a.hashes)]

\* DeserializeBlocks, with what DeserializeNode sets before it calls it.
DeserializeBlocks(element) ==
    IF element = <<>>
    THEN [owned |-> FALSE, owner |-> <<>>, compression |-> <<>>, blocks |-> <<>>]
    ELSE element[1]

DeserializeHashes(element) == IF element = <<>> THEN <<>> ELSE element[1]

\* BackupNodeIndex::DeserializeNode
DeserializeNode(element) ==
    LET of == DeserializeBlocks(element.blocks)
    IN  [type |-> element.type,
         mtime |-> element.lastModified,
         permissions |-> element.permissions.posix,
         size |-> IF element.size = <<>> THEN 0 ELSE element.size[1],
         owns |-> of.owned,
         owner |-> of.owner,
         compression |-> of.compression,
         blocks |-> of.blocks,
         hashes |-> DeserializeHashes(element.hashes)]

\* An index is the sequence of its nodes in the order of AddNode, each with its
\* path.  BackupNodeIndex::Serialize, and the constructor without the hash index.
Serialize(index) == [i \in DOMAIN index |-> SerializeNode(index[i].path, index[i].attributes)]
Deserialize(file) ==
    [i \in DOMAIN file |-> [path |-> file[i].path, attributes |-> DeserializeNode(file[i])]]

\* BackupNodeIndex::GenerateHashIndex: for each value of the algorithm the path of
\* the last node with it, where order has the paths in the order of the nodes.
GenerateHashIndex(order, hashesOf, algorithm) ==
    LET with == {i \in DOMAIN order : algorithm \in DOMAIN hashesOf[order[i]]}
        hash(i) == hashesOf[order[i]][algorithm]
        last(h) == CHOOSE i \in with : /\ hash(i) = h
                                       /\ \A j \in with : hash(j) = h => j <= i
    IN  [h \in {hash(i) : i \in with} |-> order[last(h)]]
=============================================================================
