------------------------------ MODULE ScanDir ------------------------------
(***************************************************************************)
(* scan_dir of the early prototype: writes the path of every regular file  *)
(* below the current directory to the list .asvn/info/struct.  Every       *)
(* directory is scanned by a thread of its own, which its parent starts    *)
(* and joins; all threads share one Path, whose field path they hand the   *)
(* directory over in, and use for the entries they read.                   *)
(*                                                                         *)
(* A step is one access to the shared path or one call on the file system, *)
(* which other programs may change at any time.                            *)
(***************************************************************************)
EXTENDS Integers, Sequences, FiniteSets

CONSTANTS
    Tree,         \* the entries there can be: [dir, name, node, link]
    Root,         \* the directory scan_dir is called in
    DirNodes, FileNodes,  \* which nodes are directories, and regular files
    MaxLinks,     \* links that the system follows in one path (ELOOP)
    Threads,      \* threads the system can give the process, 1 for main
    MaxChanges,   \* bound: times another program adds or removes an entry
    Faults        \* calls that can fail: "open", "write" and "create"

Main == 1

ASSUME ConstantsOK ==
    /\ Root \in DirNodes /\ DirNodes \cap FileNodes = {}
    /\ \A e \in Tree : e.dir \in DirNodes
    /\ \A e, f \in Tree : e.dir = f.dir /\ e.name = f.name => e = f
    /\ Main \in Threads /\ Threads \subseteq Nat
    /\ MaxLinks \in Nat /\ MaxChanges \in Nat

VARIABLES
    present,   \* the entries of the tree there are now
    touched,   \* history: entries added or removed
    changes,   \* ... and how many times one was
    again,     \* history: paths below a directory that was being read of
               \* which the last name was removed and put back
    failed,    \* history: calls that have failed by themselves
    path,      \* p->path: the names from the current directory on
    list,      \* lines this run has added to p->conf, which is never emptied
    pc,        \* where each thread is
    filename,  \* each thread's own copy of a path ...
    dirp,      \* ... the directory it has open ...
    left,      \* ... and how often each entry may yet be read of that
    child,     \* p_thread[0]: the thread it waits for, Main if never set
    outcome    \* "running", "done" (main returned), "exited" or "died"

shared  == <<path, list>>
threads == <<pc, filename, dirp, left, child>>
world   == <<present, touched, changes, again>>
vars    == <<world, failed, shared, threads, outcome>>

(* Where a name leads from the places in ws along the entries in es, and   *)
(* by how many links.                                                      *)
Onward(ws, es, x) ==
    {[node |-> s[2].node, links |-> s[1].links + (IF s[2].link THEN 1 ELSE 0)] :
       s \in {s \in ws \X es : s[2].dir = s[1].node /\ s[2].name = x}}

(* Where a path leads: nowhere, if there is no such entry.                 *)
Walk(es, p) ==
    LET walk[i \in 0..Len(p)] == IF i = 0 THEN {[node |-> Root, links |-> 0]}
                                 ELSE Onward(walk[i - 1], es, p[i])
    IN  walk[Len(p)]

(* What stat and opendir find under a path is one of nodes.                *)
Finds(es, p, nodes) == \E w \in Walk(es, p) : w.links <= MaxLinks /\ w.node \in nodes

Init ==
    /\ present \in SUBSET Tree /\ touched = {} /\ failed = {}
    /\ changes = 0 /\ again = {}
    /\ path = <<>> /\ list = <<>>
    /\ pc = [t \in Threads |-> IF t = Main THEN "copy" ELSE "none"]
    /\ filename = [t \in Threads |-> <<>>]
    /\ dirp = [t \in Threads |-> Root]
    /\ left = [t \in Threads |-> [e \in Tree |-> 0]]
    /\ child = [t \in Threads |-> Main]
    /\ outcome = "running"

-----------------------------------------------------------------------------
Goto(t, label) == pc' = [pc EXCEPT ![t] = label]
Exit(how) == outcome' = how /\ UNCHANGED <<world, shared, threads>>

(* strcpy(filename, p->path)                                               *)
Copy(t) ==
    /\ pc[t] = "copy" /\ Goto(t, "open")
    /\ filename' = [filename EXCEPT ![t] = path]
    /\ UNCHANGED <<world, failed, shared, dirp, left, child, outcome>>

(* A directory that cannot be opened ends the process, as a success.  One   *)
(* that is opened gives every entry it has, and perhaps those it will have. *)
Open(t) ==
    /\ pc[t] = "open"
    /\ \/ /\ Goto(t, "read")
          /\ \E d \in DirNodes :
               /\ Finds(present, filename[t], {d})
               /\ dirp' = [dirp EXCEPT ![t] = d]
               /\ left' = [left EXCEPT ![t] = [e \in Tree |->
                    IF e.dir = d /\ (e \in present \/ e \notin touched) THEN 1 ELSE 0]]
          /\ UNCHANGED <<world, failed, shared, filename, child, outcome>>
       \/ ~Finds(present, filename[t], DirNodes) /\ Exit("exited") /\ UNCHANGED failed
       \/ "open" \in Faults /\ Exit("exited") /\ failed' = failed \cup {"open"}

Left(t) == {e \in Tree : left[t][e] > 0}

ReadEntry(t, dir) ==
    /\ pc[t] = "read" /\ Goto(t, "stat")
    /\ \E e \in Left(t) \cap (present \cup touched) :
         path' = Append(dir, e.name) /\ left' = [left EXCEPT ![t][e] = @ - 1]
    /\ UNCHANGED <<world, failed, list, filename, dirp, child, outcome>>

ReadFromPath(t) == ReadEntry(t, path)   \* mutant: the call commented out

(* readdir, past "." and "..", and sprintf of the path.  Of an entry that  *)
(* came or went since opendir it is left open whether it is read; and one  *)
(* that was put back may be read once more.                                *)
Read(t) == ReadEntry(t, filename[t])

CloseUnseen(t) ==            \* mutant: the end of a thread wakes nobody
    /\ pc[t] = "read" /\ Left(t) \cap (present \ touched) = {}
    /\ t = Main /\ Exit("done")
    /\ UNCHANGED failed

(* ... and when all are, the thread ends, or main.                         *)
Close(t) ==
    /\ pc[t] = "read" /\ Left(t) \cap (present \ touched) = {}
    /\ \/ t = Main /\ Exit("done")
       \/ t # Main /\ Goto(t, "ended")
          /\ UNCHANGED <<world, shared, filename, dirp, left, child, outcome>>
    /\ UNCHANGED failed

(* Links are followed; what cannot be found, or is neither, is passed over.*)
Stat(t) ==
    /\ pc[t] = "stat"
    /\ Goto(t, IF Finds(present, path, FileNodes) THEN "record"
               ELSE IF Finds(present, path, DirNodes) THEN "create" ELSE "read")
    /\ UNCHANGED <<world, failed, shared, filename, dirp, left, child, outcome>>

WriteLine(t, line) ==
    /\ pc[t] = "record" /\ Goto(t, "read")
    /\ path' = Append(line, "\n")
    /\ \/ list' = Append(list, line) /\ UNCHANGED failed
       \/ "write" \in Faults /\ failed' = failed \cup {"write"} /\ UNCHANGED list
    /\ UNCHANGED <<world, filename, dirp, left, child, outcome>>

RecordTwoEnds(t) == WriteLine(t, Append(path, "\n"))   \* mutant: a newline too many

(* write_fp, whose result nobody looks at, leaves the newline in p->path.  *)
Record(t) == WriteLine(t, path)

Free == {c \in Threads : pc[c] = "none"}

Start(t, label) ==
    /\ pc[t] = "create"
    /\ \E c \in Free :
         /\ \A b \in Free : c <= b
         /\ pc' = [pc EXCEPT ![t] = label, ![c] = "copy"]
         /\ child' = [child EXCEPT ![t] = c, ![c] = Main]
    /\ UNCHANGED <<world, failed, shared, filename, dirp, left, outcome>>

CreateDetached(t) == Start(t, "read")   \* mutant: the parent does not wait

(* pthread_create; the parent goes on to pthread_join ...                  *)
Create(t) == Start(t, "join")

(* ... even if there is no thread to join.  p_thread[0] then names one that *)
(* has ended, and the call returns; or it was never set, and the call may   *)
(* as well kill the process or never come back.                            *)
CreateFails(t) ==
    /\ pc[t] = "create" /\ (Free = {} \/ "create" \in Faults)
    /\ failed' = failed \cup {"create"}
    /\ \/ child[t] = Main /\ Exit("died")
       \/ /\ \E label \in {"read"} \cup {h \in {"hung"} : child[t] = Main} : Goto(t, label)
          /\ UNCHANGED <<world, shared, filename, dirp, left, child, outcome>>

(* What pthread_join stores in status is twice its size and falls on       *)
(* thr_id too, which nothing reads.                                        *)
Join(t) ==
    /\ pc[t] = "join" /\ pc[child[t]] = "ended"
    /\ pc' = [pc EXCEPT ![t] = "read", ![child[t]] = "none"]
    /\ UNCHANGED <<world, failed, shared, filename, dirp, left, child, outcome>>

Step(t) ==
    /\ outcome = "running"
    /\ Copy(t) \/ Open(t) \/ Read(t) \/ Close(t) \/ Stat(t) \/ Record(t)
         \/ Create(t) \/ CreateFails(t) \/ Join(t)

Reading(t) == pc[t] \in {"read", "stat", "record", "create", "join"}

Remove(e) == e \in present /\ present' = present \ {e} /\ UNCHANGED <<again, left>>

Make(e) == e \notin present /\ present' = present \cup {e}

(* A name that is made again is a new entry of its directory: readdir may  *)
(* return it to whoever has the directory open, the old one or not.        *)
PutBack(e) ==
    LET readers == {t \in Threads : Reading(t) /\ dirp[t] = e.dir}
    IN  /\ again' = again \cup {Append(filename[t], e.name) : t \in readers}
        /\ left' = [t \in Threads |->
                      IF t \in readers THEN [left[t] EXCEPT ![e] = @ + 1] ELSE left[t]]

(* Another program removes an entry, makes one, or puts one back.          *)
Change(e) ==
    /\ outcome = "running" /\ changes < MaxChanges
    /\ \/ Remove(e)
       \/ Make(e) /\ e \notin touched /\ UNCHANGED <<again, left>>
       \/ Make(e) /\ e \in touched /\ PutBack(e)
    /\ touched' = touched \cup {e} /\ changes' = changes + 1
    /\ UNCHANGED <<failed, shared, pc, filename, dirp, child, outcome>>

Next == (\E t \in Threads : Step(t)) \/ (\E e \in Tree : Change(e))

(* The scheduler runs every thread that can go on.                         *)
Spec == Init /\ [][Next]_vars /\ \A t \in Threads : WF_vars(Step(t))

-----------------------------------------------------------------------------
Names == {e.name : e \in Tree}
Paths == Seq(Names)

(* Every variable has its type.                                            *)
TypeOK ==
    /\ present \subseteq Tree /\ touched \subseteq Tree
    /\ changes \in 0..MaxChanges /\ again \subseteq Paths
    /\ failed \subseteq {"open", "write", "create"}
    /\ path \in Seq(Names \cup {"\n"})
    /\ list \in Seq(Paths)
    /\ pc \in [Threads -> {"none", "copy", "open", "read", "stat", "record",
                           "create", "join", "hung", "ended"}]
    /\ filename \in [Threads -> Paths]
    /\ dirp \in [Threads -> DirNodes]
    /\ left \in [Threads -> [Tree -> Nat]]
    /\ child \in [Threads -> Threads]
    /\ outcome \in {"running", "done", "exited", "died"}

(* One thread at a time runs; the others wait for it, one for the other.   *)
Running(t) == pc[t] \notin {"none", "join", "hung"}
OneRuns == \A s, t \in Threads : Running(s) /\ Running(t) => s = t

(* The path a thread looks up and records is one of its own directory, and *)
(* the path a new thread copies is what its parent found: whatever         *)
(* happened to the shared buffer in between ("garbage in p->path after a   *)
(* thread was entered and left", dirlist.c:40) is gone.                    *)
Below(p, dir) == Len(p) = Len(dir) + 1 /\ SubSeq(p, 1, Len(dir)) = dir
OwnPath ==
    \A t \in Threads :
      /\ pc[t] \in {"stat", "record", "create"} => Below(path, filename[t])
      /\ pc[t] = "join" /\ pc[child[t]] = "copy" => Below(path, filename[t])

(* The list holds a path twice only if a name on it was removed and put    *)
(* back in a directory while that was being read: nothing else that other  *)
(* programs, links or failures do makes the scan take up a path twice.     *)
Starts(p, q) == Len(q) <= Len(p) /\ \A i \in 1..Len(q) : p[i] = q[i]
Firm(p) == \A q \in again : ~Starts(p, q)
ListedOnce ==
    \A i, j \in 1..Len(list) : list[i] = list[j] /\ Firm(list[i]) => i = j

(* What it holds are regular files, and a scan that comes to its end has   *)
(* listed every file that stayed where it was, by every path it has that   *)
(* goes along MaxLinks links at most; only a failed write, or a thread     *)
(* that could not be had, is passed over in silence.                       *)
DepthBound == Cardinality(DirNodes) * (MaxLinks + 1)
AllPaths == UNION {[1..n -> Names] : n \in 1..DepthBound}
RightList ==
    /\ \A i \in 1..Len(list) : Finds(present \cup touched, list[i], FileNodes)
    /\ outcome = "done" /\ failed \cap {"write", "create"} = {} =>
         \A p \in AllPaths : Finds(present \ touched, p, FileNodes)
                              => \E i \in 1..Len(list) : list[i] = p

(* The scan of a tree that nobody changes is given up only if opendir      *)
(* fails by itself: no thread is handed a path it cannot open.             *)
GivesUpDisturbed == outcome = "exited" => touched # {} \/ "open" \in failed

(* What is still to do: the entries a thread has not read yet, or the      *)
(* directory it is about to open, and the path that is being handed on.    *)
Due(t) ==
    IF pc[t] = "open" THEN {filename[t]}
    ELSE IF Reading(t) THEN {Append(filename[t], e.name) : e \in Left(t)} ELSE {}
Hands == {"copy", "stat", "record", "create"}
Handed == IF \E t \in Threads : pc[t] \in Hands THEN {path} ELSE {}

(* However many threads there are, together they do what SequentialScan    *)
(* does: each path is taken up once, unless it is put back below a         *)
(* directory that is being read; and main does not return as long as       *)
(* another thread has something to do.                                     *)
Sequential == INSTANCE SequentialScan WITH
    todo   <- (UNION {Due(t) : t \in Threads}) \cup Handed,
    opened <- {filename[t] : t \in {t \in Threads : Reading(t)}},
    status <- IF outcome \in {"exited", "died"} THEN "given up" ELSE outcome
ImplementsSequential == Sequential!Spec

(* The scan ends, however links go round and whatever fails, unless it     *)
(* waits for a thread that could not be had.                               *)
ScanEnds == <>(outcome # "running" \/ "create" \in failed)
=============================================================================
