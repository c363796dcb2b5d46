--------------------------- MODULE ScanDirProofs ---------------------------
(***************************************************************************)
(* Proofs about ScanDir, for any tree, any number of threads and changes:  *)
(* the threads take turns, and the shared path is always the one of the    *)
(* thread that uses it.                                                    *)
(***************************************************************************)
EXTENDS ScanDir, TLAPS

(* A thread that waits has a child of its own, which is there until the    *)
(* wait is over; and what is looked up, recorded or copied is a path.      *)
Waits ==
    /\ \A s \in Threads : pc[s] = "join" => pc[child[s]] # "none"
    /\ \A s, t \in Threads : pc[s] = "join" /\ pc[t] = "join" /\ child[s] = child[t] => s = t
Clean ==
    \A t \in Threads : pc[t] \in {"copy", "stat", "record", "create"} => path \in Paths
ScanInv == TypeOK /\ OneRuns /\ Waits /\ Clean /\ OwnPath

(* A path with a name behind it lies below the path.                       *)
LEMMA AppendIsBelow ==
    ASSUME NEW p \in Paths, NEW x \in Names
    PROVE  Append(p, x) \in Paths /\ Below(Append(p, x), p)
  BY DEF Paths, Below

(* What Below says is about sequences of any names.                        *)
LEMMA PathWithNewline ==
    ASSUME NEW p \in Paths
    PROVE  Append(p, "\n") \in Seq(Names \cup {"\n"}) /\ p \in Seq(Names \cup {"\n"})
  BY DEF Paths

LEMMA ScanInit == Init => ScanInv
<1> SUFFICES ASSUME Init PROVE ScanInv
  OBVIOUS
<1>1. <<>> \in Paths /\ <<>> \in Seq(Names \cup {"\n"}) /\ <<>> \in Seq(Paths)
  BY DEF Paths
<1>2. TypeOK
  BY <1>1, ConstantsOK DEF Init, TypeOK
<1>3. OneRuns /\ Waits /\ Clean /\ OwnPath
  BY <1>1 DEF Init, OneRuns, Running, Waits, Clean, OwnPath
<1> QED
  BY <1>2, <1>3 DEF ScanInv

(* A step of one thread that runs leaves the turns as they are.            *)
LEMMA SameTurn ==
    ASSUME ScanInv, NEW t \in Threads, Running(t), child' = child,
           NEW label, Goto(t, label), label \notin {"none", "join"}
    PROVE  OneRuns' /\ Waits'
<1>1. /\ pc' = [pc EXCEPT ![t] = label] /\ DOMAIN pc = Threads
      /\ child \in [Threads -> Threads]
  BY DEF Goto, ScanInv, TypeOK
<1>2. pc'[t] = label /\ \A s \in Threads \ {t} : pc'[s] = pc[s]
  BY <1>1
<1>3. OneRuns'
  BY <1>2 DEF ScanInv, OneRuns, Running
<1>4. \A s \in Threads : pc'[s] = "join" => pc[s] = "join"
  BY <1>2
<1>5. Waits'
  BY <1>1, <1>2, <1>4 DEF ScanInv, Waits
<1> QED
  BY <1>3, <1>5

(* Nothing but the running thread is at a call that uses the path.         *)
LEMMA OthersWait ==
    ASSUME ScanInv, NEW t \in Threads, Running(t), NEW s \in Threads, s # t
    PROVE  pc[s] \in {"none", "join", "hung"}
  BY DEF ScanInv, OneRuns, Running

(* What is put back may be read once more by those that read its directory. *)
LEMMA PutBackTyped ==
    ASSUME TypeOK, NEW e \in Tree
    PROVE  /\ again \subseteq Paths /\ left \in [Threads -> [Tree -> Nat]]
           /\ PutBack(e) => again' \subseteq Paths /\ left' \in [Threads -> [Tree -> Nat]]
<1>1. /\ again \subseteq Paths /\ left \in [Threads -> [Tree -> Nat]]
      /\ \A t \in Threads : filename[t] \in Paths
  BY DEF TypeOK
<1>2. \A t \in Threads : Append(filename[t], e.name) \in Paths
  BY <1>1, AppendIsBelow DEF Names
<1>3. \A t \in Threads : [left[t] EXCEPT ![e] = @ + 1] \in [Tree -> Nat]
  BY <1>1
<1>4. ASSUME PutBack(e) PROVE again' \subseteq Paths
  BY <1>1, <1>2, <1>4 DEF PutBack
<1>5. ASSUME PutBack(e) PROVE left' \in [Threads -> [Tree -> Nat]]
  BY <1>1, <1>3, <1>5 DEF PutBack
<1> QED
  BY <1>1, <1>4, <1>5

LEMMA ScanStep == ScanInv /\ [Next]_vars => ScanInv'
<1> SUFFICES ASSUME ScanInv, [Next]_vars PROVE ScanInv'
  OBVIOUS
<1> USE ConstantsOK DEF world, shared, threads
<1>0. TypeOK /\ OneRuns /\ Waits /\ Clean /\ OwnPath
  BY DEF ScanInv
<1>a. ASSUME UNCHANGED <<shared, pc, filename, child>>, TypeOK' PROVE ScanInv'
  BY <1>0, <1>a DEF ScanInv, OneRuns, Running, Waits, Clean, OwnPath
<1>b. ASSUME NEW how \in {"done", "exited", "died"}, Exit(how),
             failed' \subseteq {"open", "write", "create"}
      PROVE  ScanInv'
  BY <1>0, <1>a, <1>b DEF Exit, TypeOK
<1>1. ASSUME NEW t \in Threads, Copy(t) PROVE ScanInv'
  <2>1. /\ pc[t] = "copy" /\ path \in Paths /\ pc' = [pc EXCEPT ![t] = "open"]
        /\ filename' = [filename EXCEPT ![t] = path]
        /\ UNCHANGED <<world, failed, shared, dirp, left, child, outcome>>
    BY <1>0, <1>1 DEF Copy, Goto, Clean
  <2>2. TypeOK'
    BY <1>0, <2>1 DEF TypeOK
  <2>3. OneRuns' /\ Waits'
    BY <1>1, <2>1, SameTurn DEF Copy, Running
  <2>4. \A s \in Threads : s # t => pc[s] \in {"none", "join", "hung"}
    BY <2>1, OthersWait DEF Running
  <2>5. Clean' /\ OwnPath'
    BY <1>0, <2>1, <2>4 DEF Clean, OwnPath, TypeOK
  <2> QED
    BY <2>2, <2>3, <2>5 DEF ScanInv
<1>2. ASSUME NEW t \in Threads, Open(t) PROVE ScanInv'
  <2>1. CASE Exit("exited")
    BY <1>0, <1>2, <1>b, <2>1 DEF Open, TypeOK
  <2>2. CASE ~Exit("exited")
    <3>1. /\ pc[t] = "open" /\ Goto(t, "read") /\ pc' = [pc EXCEPT ![t] = "read"]
          /\ \E d \in DirNodes : dirp' = [dirp EXCEPT ![t] = d]
          /\ \E often \in [Tree -> Nat] : left' = [left EXCEPT ![t] = often]
          /\ UNCHANGED <<world, failed, shared, filename, child, outcome>>
      <4>1. PICK d \in DirNodes :
              /\ dirp' = [dirp EXCEPT ![t] = d]
              /\ left' = [left EXCEPT ![t] = [e \in Tree |->
                   IF e.dir = d /\ (e \in present \/ e \notin touched) THEN 1 ELSE 0]]
        BY <1>2, <2>2 DEF Open
      <4>2. [e \in Tree |-> IF e.dir = d /\ (e \in present \/ e \notin touched) THEN 1 ELSE 0]
              \in [Tree -> Nat]
        OBVIOUS
      <4> QED
        BY <1>2, <2>2, <4>1, <4>2, Zenon DEF Open, Goto
    <3>2. TypeOK'
      BY <1>0, <3>1 DEF TypeOK
    <3>3. OneRuns' /\ Waits'
      BY <3>1, SameTurn DEF Running
    <3>4. Clean' /\ OwnPath'
      BY <1>0, <3>1 DEF Clean, OwnPath, TypeOK
    <3> QED
      BY <3>2, <3>3, <3>4 DEF ScanInv
  <2> QED
    BY <2>1, <2>2
<1>3. ASSUME NEW t \in Threads, Read(t) PROVE ScanInv'
  <2>1. PICK e \in Left(t) :
          /\ pc[t] = "read" /\ Goto(t, "stat") /\ pc' = [pc EXCEPT ![t] = "stat"]
          /\ path' = Append(filename[t], e.name) /\ left' = [left EXCEPT ![t][e] = @ - 1]
          /\ UNCHANGED <<world, failed, list, filename, dirp, child, outcome>>
    BY <1>3 DEF Read, ReadEntry, Goto
  <2>2. /\ filename[t] \in Paths /\ e.name \in Names
        /\ left' \in [Threads -> [Tree -> Nat]]
    <3>1. left[t] \in [Tree -> Nat] /\ e \in Tree /\ left[t][e] - 1 \in Nat
      BY <1>0 DEF TypeOK, Left
    <3>2. left' = [left EXCEPT ![t] = [left[t] EXCEPT ![e] = left[t][e] - 1]]
      BY <2>1
    <3>3. [left[t] EXCEPT ![e] = left[t][e] - 1] \in [Tree -> Nat]
      BY <3>1
    <3> QED
      BY <1>0, <3>1, <3>2, <3>3 DEF TypeOK, Names
  <2>3. path' \in Paths /\ Below(path', filename[t])
    BY <2>1, <2>2, AppendIsBelow
  <2>4. TypeOK'
    <3>1. path' \in Seq(Names \cup {"\n"})
      BY <2>3, PathWithNewline
    <3> QED
      BY <1>0, <2>1, <2>2, <3>1 DEF TypeOK
  <2>5. OneRuns' /\ Waits'
    BY <2>1, SameTurn DEF Running
  <2>6. \A s \in Threads : s # t => pc[s] \in {"none", "join", "hung"}
    BY <2>1, OthersWait DEF Running
  <2>7. Clean' /\ OwnPath'
    BY <1>0, <2>1, <2>3, <2>6 DEF Clean, OwnPath, TypeOK
  <2> QED
    BY <2>4, <2>5, <2>7 DEF ScanInv
<1>4. ASSUME NEW t \in Threads, Close(t) PROVE ScanInv'
  <2>1. CASE Exit("done")
    BY <1>0, <1>4, <1>b, <2>1 DEF Close, TypeOK
  <2>2. CASE ~Exit("done")
    <3>1. /\ pc[t] = "read" /\ Goto(t, "ended") /\ pc' = [pc EXCEPT ![t] = "ended"]
          /\ UNCHANGED <<world, failed, shared, filename, dirp, left, child, outcome>>
      BY <1>4, <2>2 DEF Close, Goto
    <3>2. TypeOK'
      BY <1>0, <3>1 DEF TypeOK
    <3>3. OneRuns' /\ Waits'
      BY <3>1, SameTurn DEF Running
    <3>4. Clean' /\ OwnPath'
      BY <1>0, <3>1 DEF Clean, OwnPath, TypeOK
    <3> QED
      BY <3>2, <3>3, <3>4 DEF ScanInv
  <2> QED
    BY <2>1, <2>2
<1>5. ASSUME NEW t \in Threads, Stat(t) PROVE ScanInv'
  <2>1. PICK label \in {"record", "create", "read"} :
          /\ pc[t] = "stat" /\ Goto(t, label) /\ pc' = [pc EXCEPT ![t] = label]
          /\ UNCHANGED <<world, failed, shared, filename, dirp, left, child, outcome>>
    BY <1>5 DEF Stat, Goto
  <2>2. TypeOK'
    BY <1>0, <2>1 DEF TypeOK
  <2>3. OneRuns' /\ Waits'
    BY <2>1, SameTurn DEF Running
  <2>4. Clean' /\ OwnPath'
    BY <1>0, <2>1 DEF Clean, OwnPath, TypeOK
  <2> QED
    BY <2>2, <2>3, <2>4 DEF ScanInv
<1>6. ASSUME NEW t \in Threads, Record(t) PROVE ScanInv'
  <2>1. /\ pc[t] = "record" /\ Goto(t, "read") /\ pc' = [pc EXCEPT ![t] = "read"]
        /\ path' = Append(path, "\n") /\ path \in Paths
        /\ list' = list \/ list' = Append(list, path)
        /\ failed' \subseteq {"open", "write", "create"}
        /\ UNCHANGED <<world, filename, dirp, left, child, outcome>>
    BY <1>0, <1>6 DEF Record, WriteLine, Goto, Clean, TypeOK
  <2>2. TypeOK'
    <3>1. path' \in Seq(Names \cup {"\n"})
      BY <2>1, PathWithNewline
    <3>2. list' \in Seq(Paths)
      <4>1. list \in Seq(Paths)
        BY <1>0 DEF TypeOK
      <4>2. Append(list, path) \in Seq(Paths)
        BY <2>1, <4>1
      <4> QED
        BY <2>1, <4>1, <4>2
    <3> QED
      BY <1>0, <2>1, <3>1, <3>2 DEF TypeOK
  <2>3. OneRuns' /\ Waits'
    BY <2>1, SameTurn DEF Running
  <2>4. \A s \in Threads : s # t => pc[s] \in {"none", "join", "hung"}
    BY <2>1, OthersWait DEF Running
  <2>5. Clean' /\ OwnPath'
    BY <1>0, <2>1, <2>4 DEF Clean, OwnPath, TypeOK
  <2> QED
    BY <2>2, <2>3, <2>5 DEF ScanInv
<1>7. ASSUME NEW t \in Threads, Create(t) PROVE ScanInv'
  <2>1. PICK c \in Threads :
          /\ pc[c] = "none" /\ pc[t] = "create" /\ c # t
          /\ pc' = [pc EXCEPT ![t] = "join", ![c] = "copy"]
          /\ child' = [child EXCEPT ![t] = c, ![c] = Main]
          /\ UNCHANGED <<world, failed, shared, filename, dirp, left, outcome>>
    BY <1>7 DEF Create, Start, Free
  <2>2. path \in Paths /\ Below(path, filename[t])
    BY <1>0, <2>1 DEF Clean, OwnPath
  <2>3. TypeOK'
    BY <1>0, <2>1 DEF TypeOK
  <2>4. \A s \in Threads : s # t => pc[s] \in {"none", "join", "hung"}
    BY <2>1, OthersWait DEF Running
  <2>5. \A s \in Threads : pc[s] = "join" => child[s] # c /\ s # c /\ s # t
    BY <1>0, <2>1 DEF Waits
  <2>6. /\ pc'[t] = "join" /\ pc'[c] = "copy" /\ child'[t] = c
        /\ \A s \in Threads \ {t, c} : pc'[s] = pc[s] /\ child'[s] = child[s]
    BY <1>0, <2>1 DEF TypeOK
  <2>7. OneRuns'
    BY <2>4, <2>6 DEF OneRuns, Running
  <2>8. Waits'
    <3>1. child \in [Threads -> Threads]
      BY <1>0 DEF TypeOK
    <3>2. ASSUME NEW s \in Threads, pc'[s] = "join"
          PROVE  pc'[child'[s]] # "none" /\ (s # t => pc[s] = "join" /\ child'[s] = child[s])
      BY <1>0, <2>5, <2>6, <3>1, <3>2 DEF Waits
    <3> QED
      BY <1>0, <2>5, <2>6, <3>2 DEF Waits
  <2>9. Clean' /\ OwnPath'
    <3>1. path' = path /\ filename' = filename /\ child \in [Threads -> Threads]
      BY <1>0, <2>1 DEF TypeOK
    <3>2. Clean'
      BY <2>2, <3>1 DEF Clean
    <3>3. ASSUME NEW s \in Threads, s # t
          PROVE  /\ pc'[s] \notin {"stat", "record", "create"}
                 /\ pc'[s] = "join" => pc'[child'[s]] # "copy"
      BY <2>4, <2>5, <2>6, <3>1, <3>3
    <3> QED
      BY <2>2, <2>6, <3>1, <3>2, <3>3 DEF OwnPath
  <2> QED
    BY <2>3, <2>7, <2>8, <2>9 DEF ScanInv
<1>8. ASSUME NEW t \in Threads, CreateFails(t) PROVE ScanInv'
  <2>1. failed' \subseteq {"open", "write", "create"}
    BY <1>0, <1>8 DEF CreateFails, TypeOK
  <2>2. CASE Exit("died")
    BY <1>b, <2>1, <2>2
  <2>3. CASE ~Exit("died")
    <3>1. PICK label \in {"read", "hung"} :
            /\ pc[t] = "create" /\ Goto(t, label) /\ pc' = [pc EXCEPT ![t] = label]
            /\ UNCHANGED <<world, shared, filename, dirp, left, child, outcome>>
      BY <1>8, <2>3 DEF CreateFails, Goto
    <3>2. TypeOK'
      BY <1>0, <2>1, <3>1 DEF TypeOK
    <3>3. OneRuns' /\ Waits'
      BY <3>1, SameTurn DEF Running
    <3>4. Clean' /\ OwnPath'
      BY <1>0, <3>1 DEF Clean, OwnPath, TypeOK
    <3> QED
      BY <3>2, <3>3, <3>4 DEF ScanInv
  <2> QED
    BY <2>2, <2>3
<1>9. ASSUME NEW t \in Threads, Join(t) PROVE ScanInv'
  <2>1. PICK c \in Threads : c = child[t]
    BY <1>0 DEF TypeOK
  <2>2. /\ pc[t] = "join" /\ pc[c] = "ended" /\ c # t
        /\ pc' = [pc EXCEPT ![t] = "read", ![c] = "none"]
        /\ UNCHANGED <<world, failed, shared, filename, dirp, left, child, outcome>>
    BY <1>9, <2>1 DEF Join
  <2>3. TypeOK'
    BY <1>0, <2>2 DEF TypeOK
  <2>4. \A s \in Threads : s # c => pc[s] \in {"none", "join", "hung"}
    BY <2>2, OthersWait DEF Running
  <2>5. /\ pc'[t] = "read" /\ pc'[c] = "none"
        /\ \A s \in Threads \ {t, c} : pc'[s] = pc[s]
    BY <1>0, <2>2 DEF TypeOK
  <2>6. OneRuns'
    BY <2>4, <2>5 DEF OneRuns, Running
  <2>7. Waits'
    <3>1. child' = child /\ child \in [Threads -> Threads]
      BY <1>0, <2>2 DEF TypeOK
    <3>2. ASSUME NEW s \in Threads, pc'[s] = "join"
          PROVE  pc[s] = "join" /\ s # t /\ pc'[child[s]] # "none"
      BY <1>0, <2>1, <2>2, <2>5, <3>1, <3>2 DEF Waits
    <3> QED
      BY <1>0, <3>1, <3>2 DEF Waits
  <2>8. Clean' /\ OwnPath'
    BY <1>0, <2>2, <2>4, <2>5 DEF Clean, OwnPath, TypeOK
  <2> QED
    BY <2>3, <2>6, <2>7, <2>8 DEF ScanInv
<1>10. ASSUME NEW e \in Tree, Change(e) PROVE ScanInv'
  <2>1. UNCHANGED <<failed, shared, pc, filename, dirp, child, outcome>>
    BY <1>10 DEF Change
  <2>2. TypeOK'
    <3>1. present' \subseteq Tree /\ touched' \subseteq Tree /\ changes' \in 0..MaxChanges
      BY <1>0, <1>10 DEF Change, Remove, Make, TypeOK
    <3>2. again' \subseteq Paths /\ left' \in [Threads -> [Tree -> Nat]]
      BY <1>0, <1>10, PutBackTyped DEF Change, Remove
    <3> QED
      BY <1>0, <2>1, <3>1, <3>2 DEF TypeOK
  <2> QED
    BY <1>a, <2>1, <2>2
<1>11. CASE UNCHANGED vars
  BY <1>0, <1>11, <1>a DEF vars, TypeOK
<1> QED
  BY <1>1, <1>2, <1>3, <1>4, <1>5, <1>6, <1>7, <1>8, <1>9, <1>10, <1>11 DEF Next, Step

LEMMA ScanInvariant == Spec => []ScanInv
  BY ScanInit, ScanStep, PTL DEF Spec

(* Every variable keeps its type, and nothing that is recorded still has   *)
(* the newline of an earlier line in it.                                   *)
THEOREM ScanTypeCorrect == Spec => []TypeOK
<1>1. ScanInv => TypeOK
  BY DEF ScanInv
<1> QED
  BY <1>1, ScanInvariant, PTL

(* One thread of the scan runs at a time, however many there are ...       *)
THEOREM OneThreadRuns == Spec => []OneRuns
<1>1. ScanInv => OneRuns
  BY DEF ScanInv
<1> QED
  BY <1>1, ScanInvariant, PTL

(* ... so the shared path, when a thread uses it, is the thread's own.     *)
THEOREM PathIsOwn == Spec => []OwnPath
<1>1. ScanInv => OwnPath
  BY DEF ScanInv
<1> QED
  BY <1>1, ScanInvariant, PTL
=============================================================================
