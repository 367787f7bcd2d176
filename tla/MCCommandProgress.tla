------------------------- MODULE MCCommandProgress -------------------------
\* Instances of CommandProgress for TLC.
EXTENDS CommandProgress

CONSTANTS w1, w2

Root(mtime) == [path |-> "/", dir |-> TRUE, size |-> 0, mtime |-> mtime, content |-> "none"]
Node(path, size, mtime, content) ==
    [path |-> path, dir |-> FALSE, size |-> size, mtime |-> mtime, content |-> content]

Old == <<Root(1), Node("/a", 3, 1, "x"), Node("/b", 2, 1, "y")>>
\* /a has new content, /b is renamed to /c, /d is new.
New == <<Root(2), Node("/a", 1, 2, "z"), Node("/c", 2, 1, "y"), Node("/d", 2, 2, "v")>>
\* /a is deleted and /b changed: number 3 on the left, 2 on the right.
Shrunk == <<Root(2), Node("/b", 1, 2, "z")>>

\* What is hashed and piped of an index whose files were not edited since, in chunks
\* of at most 2 bytes; and other sizes of single nodes.
Sizes(index) == [i \in DOMAIN index |-> index[i].size]
ChunksOf(n) == [k \in 1..(n + 1) \div 2 |-> IF 2 * k <= n THEN 2 ELSE 1]
Chunks(index) == [i \in DOMAIN index |-> ChunksOf(index[i].size)]
Resized(index, i, n) == [Chunks(index) EXCEPT ![i] = ChunksOf(n)]

Run(tracker, plan) == [tracker |-> tracker, processes |-> plan]
WebCommands ==
    {Run("web", AddSnapshot(<<>>, Old, Sizes(Old), Chunks(Old))),
     Run("web", AddSnapshot(Old, New, Sizes(New), Chunks(New)))}
TerminalCommands == {Run("terminal", <<VerifyFull(New)>>), Run("terminal", <<Restore(New)>>)}
\* /d is edited before it is hashed; while it is piped, when it has grown; two files
\* of the first snapshot, of which one has grown and one lost bytes.
EditedCommands ==
    {Run("web", AddSnapshot(Old, New, [Sizes(New) EXCEPT ![4] = 3], Chunks(New))),
     Run("web", AddSnapshot(Old, New, Sizes(New), Resized(New, 4, 4))),
     Run("terminal", AddSnapshot(<<>>, Old, Sizes(Old),
                        [Resized(Old, 2, 6) EXCEPT ![3] = ChunksOf(1)]))}
PassingCommands == WebCommands \cup TerminalCommands \cup EditedCommands
SnapshotOfShrunk ==
    {Run("web", AddSnapshot(Old, Shrunk, Sizes(Shrunk), Chunks(Shrunk)))}
=============================================================================
