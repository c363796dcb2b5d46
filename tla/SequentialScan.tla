--------------------------- MODULE SequentialScan ---------------------------
(***************************************************************************)
(* What the threads of a scan amount to: one program that takes one path   *)
(* after another off a list of things to do.  A path is there because the  *)
(* directory above it has been taken off, so none is taken up twice but    *)
(* what another program puts back while the directory above is being read; *)
(* and only what is left of one directory may be left at the end.          *)
(***************************************************************************)
EXTENDS Naturals, Sequences

CONSTANT Names

VARIABLES
    todo,      \* paths whose trees are still to be listed
    opened,    \* the directories that are being read
    again,     \* paths that have been put back on the list of things to do
    list,      \* the files listed so far
    status     \* running, done or given up

vars == <<todo, opened, again, list, status>>

EntriesOf(p) == {Append(p, x) : x \in Names}
Siblings(p, q) == Len(p) = Len(q) /\ \A i \in 1..(Len(p) - 1) : p[i] = q[i]
Starts(p, q) == Len(q) <= Len(p) /\ \A i \in 1..Len(q) : p[i] = q[i]

(* What there is to do when a path has been taken up: the rest, and the    *)
(* path once more only if it, or a directory above it, was put back.       *)
RestOf(p) == {todo \ {p}} \cup {T \in {todo} : \E q \in again : Starts(p, q)}

Init == todo = {<<>>} /\ opened = {} /\ again = {} /\ list = <<>> /\ status = "running"

Expand ==
    /\ \E p \in todo : \E rest \in RestOf(p), found \in SUBSET EntriesOf(p) :
         todo' = rest \cup found /\ opened' = opened \cup {p}
    /\ UNCHANGED <<again, list, status>>

Record ==
    /\ \E p \in todo : list' = Append(list, p) /\ todo' \in RestOf(p)
    /\ UNCHANGED <<opened, again, status>>

PassOver ==
    /\ todo' \subseteq todo /\ opened' \subseteq opened
    /\ UNCHANGED <<again, list, status>>

PutBack ==
    /\ todo \subseteq todo' /\ again \subseteq again' /\ todo' \subseteq todo \cup again'
    /\ (todo' \ todo) \cup (again' \ again) \subseteq UNION {EntriesOf(p) : p \in opened}
    /\ UNCHANGED <<opened, list, status>>

Finish ==
    /\ \A p, q \in todo : Siblings(p, q)
    /\ status' = "done" /\ UNCHANGED <<todo, opened, again, list>>

GiveUp == status' = "given up" /\ UNCHANGED <<todo, opened, again, list>>

Next ==
    status = "running" /\ (Expand \/ Record \/ PassOver \/ PutBack \/ Finish \/ GiveUp)

Spec == Init /\ [][Next]_vars
=============================================================================
