------------------------------ MODULE FileCopy ------------------------------
(***************************************************************************)
(* What one file transfer of asvn promises: the target is left alone, or   *)
(* it is a growing prefix of the source, and "complete" is only announced  *)
(* over the whole file.  A disturbance (a crash, a short read, a rewrite   *)
(* of the source, a target that cannot be opened) voids every promise.     *)
(***************************************************************************)
EXTENDS Integers, Sequences

CONSTANTS Sizes, NoFile, OldCopy

VARIABLES
    size,       \* length of the source file, or NoFile
    target,     \* contents of the receiver's file
    status      \* idle, copying, complete, failed or disturbed

vars == <<size, target, status>>

Prefix(n) == [k \in 1..n |-> k]

Init == size \in Sizes /\ target = OldCopy /\ status = "idle"

Begin ==
    /\ status = "idle" /\ size # NoFile
    /\ status' = "copying" /\ target' = <<>> /\ UNCHANGED size

Store ==
    /\ status = "copying"
    /\ \E n \in (Len(target) + 1)..size : target' = Prefix(n)
    /\ UNCHANGED <<size, status>>

Finish ==
    /\ status = "copying" /\ target = Prefix(size)
    /\ status' = "complete" /\ UNCHANGED <<size, target>>

GiveUp ==
    /\ status \in {"idle", "copying"}
    /\ status' = "failed" /\ UNCHANGED <<size, target>>

Disturb ==
    /\ status # "disturbed"
    /\ status' = "disturbed" /\ size' = NoFile /\ target' = <<>>

Next == Begin \/ Store \/ Finish \/ GiveUp \/ Disturb

Spec == Init /\ [][Next]_vars
=============================================================================
