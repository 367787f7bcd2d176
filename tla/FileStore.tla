----------------------------- MODULE FileStore -----------------------------
(***************************************************************************)
(* What the write side of the backup file system promises: every file is a *)
(* sequence of bytes of its own that grows at its end until the file is    *)
(* closed, and nothing changes once the store is sealed.  Volumes, blocks  *)
(* and owners are not visible.                                             *)
(***************************************************************************)
EXTENDS Integers, Sequences

CONSTANTS Files, MaxBytes

VARIABLES content, closed, sealed

storeVars == <<content, closed, sealed>>

Init ==
    /\ content = [f \in Files |-> <<>>]
    /\ closed = {}
    /\ sealed = FALSE

\* The next n bytes of f become readable.
Extend(f, n) ==
    /\ f \notin closed
    /\ content' = [content EXCEPT ![f] = @ \o [i \in 1..n |-> <<f, Len(@) + i>>]]
    /\ UNCHANGED <<closed, sealed>>

Close(f) ==
    /\ f \notin closed
    /\ closed' = closed \cup {f}
    /\ UNCHANGED <<content, sealed>>

Seal ==
    /\ closed = Files
    /\ sealed' = TRUE
    /\ UNCHANGED <<content, closed>>

Next ==
    \/ \E f \in Files : Close(f) \/ \E n \in 1..MaxBytes : Extend(f, n)
    \/ Seal

Spec == Init /\ [][Next]_storeVars
=============================================================================
