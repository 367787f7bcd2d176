--------------------------- MODULE VolumesAsFiles ---------------------------
(***************************************************************************)
(* The volumes implement a store of files: what a reader of the index and  *)
(* of the volume files sees of a file is only ever extended at its end.    *)
(***************************************************************************)
EXTENDS VolumeWriting, SequencesExt

\* OpenFileForReading: the blocks of a file, one after the other.
ReadBlock(b) == SubSeq(volume[b.volumeNumber], b.offset + 1, b.offset + b.size)
ReadFile(f) == FlattenSeq([k \in DOMAIN blocks[f] |-> ReadBlock(blocks[f][k])])

Store == INSTANCE FileStore WITH
    content <- [f \in Files |-> ReadFile(f)],
    closed <- {f \in Files : pc[f] = "closed"},
    sealed <- writeProtected

\* The write side implements FileStore: CloseFile maps to Close, the steps
\* of BytesWereWrittenToVolume to Extend, WriteProtect to Seal.
ImplementsFileStore == Store!Spec
=============================================================================
