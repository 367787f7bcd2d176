---------------------------- MODULE SnapshotLog ----------------------------
(***************************************************************************)
(* What a backup directory promises: a log of states of the source that    *)
(* only ever grows at its end.  While a state is being appended the log    *)
(* cannot be read; when a program is killed then, it stays unreadable.     *)
(***************************************************************************)
EXTENDS Naturals, Sequences

CONSTANT States

VARIABLES log, readable

logVars == <<log, readable>>

Init == log = <<>> /\ readable = TRUE

BeginAppend ==
    /\ readable
    /\ readable' = FALSE
    /\ UNCHANGED log

\* The new state and the end of the append are visible at once.
Commit ==
    /\ ~readable
    /\ \E s \in States : log' = Append(log, s)
    /\ readable' = TRUE

Next == BeginAppend \/ Commit

Spec == Init /\ [][Next]_logVars
=============================================================================
