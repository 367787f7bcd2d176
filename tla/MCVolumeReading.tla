-------------------------- MODULE MCVolumeReading --------------------------
\* Instances of VolumeReading for TLC.
EXTENDS VolumeReading

CONSTANTS s1, s2

TwoStreams == {s1, s2}

At(v, o, n) == [volumeNumber |-> v, offset |-> o, size |-> n]
Of(a, b) == [s \in Streams |-> IF s = s1 THEN a ELSE b]

\* Two files that share volumes 0 and 1, in the same and in opposite order; one
\* that comes back to a volume; an empty file; and two files that together leave
\* more volumes behind than may stay open.
SharedLayouts == {
    Of(<<At(0, 0, 2), At(1, 0, 1)>>, <<At(0, 2, 1), At(1, 1, 2)>>),
    Of(<<At(0, 0, 1), At(1, 0, 2)>>, <<At(1, 2, 1), At(0, 1, 1)>>),
    Of(<<At(0, 0, 1), At(1, 0, 1), At(0, 2, 1)>>, <<At(0, 1, 1), At(2, 0, 1)>>),
    Of(<<>>, <<At(0, 0, 2), At(2, 0, 1)>>),
    Of(<<At(0, 0, 1), At(1, 0, 1), At(2, 0, 1)>>, <<At(3, 0, 1)>>)}
SharedLengths == {[v \in Volumes |-> 3]}

\* One file of two bytes whose volume file has lost some of them.
TruncatedLayouts == {[s \in Streams |-> <<At(0, 0, 2)>>]}
TruncatedLengths == {[v \in Volumes |-> 0], [v \in Volumes |-> 1]}
=============================================================================
