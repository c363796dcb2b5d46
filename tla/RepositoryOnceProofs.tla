------------------------ MODULE RepositoryOnceProofs ------------------------
(***************************************************************************)
(* Proofs about Repository: what happens at most once, and exactly once.   *)
(***************************************************************************)
EXTENDS RepositoryProofs, FiniteSetTheorems

(* Two mkdirs let one ainit through, for good: the one that is past the    *)
(* first of them has the installation to itself.                           *)
PastMkdir == {"conf", "authz", "passwd"}
AInits == {j \in ended : j.op = "AINIT"}
MadeBefore(c) == CASE c = "repos"  -> {}
                   [] c = "exe"    -> {"repos"}
                   [] c = "conf"   -> {"repos", "exe"}
                   [] c = "authz"  -> {"repos", "exe", "conf"}
                   [] c = "passwd" -> {"repos", "exe", "conf", "authz"}
                   [] OTHER        -> {}
InstallInv ==
    /\ \A p \in Procs : MadeBefore(pc[p]) \subseteq installed
    /\ \A p, q \in Procs : pc[p] \in PastMkdir /\ pc[q] \in PastMkdir => p = q
    /\ \A p \in Procs : pc[p] \in PastMkdir => AInits = {}
    /\ \A i, j \in AInits : i = j
    /\ AInits # {} => installed = InstallCalls

(* A step that is none of ainit's keeps this.                              *)
LEMMA InstallCalm ==
    ASSUME InstallInv, AInits' = AInits, installed' = installed,
           \A p \in Procs : pc'[p] \in InstallCalls => pc'[p] = pc[p] \/ pc'[p] = "repos"
    PROVE  InstallInv'
  BY DEF InstallInv, InstallCalls, PastMkdir, MadeBefore

LEMMA InstallStep == TypeInv /\ InstallInv /\ [Next]_vars => InstallInv'
<1> SUFFICES ASSUME TypeInv, InstallInv, [Next]_vars PROVE InstallInv'
  OBVIOUS
<1> USE DEF history, fsVars
<1>0. TypeOK /\ \A p \in Procs : JobOK(p)
  BY DEF TypeInv
<1>a. ASSUME NEW p \in Procs, NEW c \in Labels \ (InstallCalls \ {"repos"}), Goto(p, c)
      PROVE  \A q \in Procs : pc'[q] \in InstallCalls => pc'[q] = pc[q] \/ pc'[q] = "repos"
  BY <1>0, <1>a DEF Goto, TypeOK
<1>b. ASSUME NEW p \in Procs, Leave(p)
      PROVE  \A q \in Procs : pc'[q] \in InstallCalls => pc'[q] = pc[q] \/ pc'[q] = "repos"
  BY <1>a, <1>b DEF Leave, Labels, InstallCalls
<1>c. ASSUME NEW p \in Procs, Fail(p) PROVE InstallInv'
  BY <1>b, <1>c, InstallCalm DEF Fail, AInits
<1>1. ASSUME NEW p \in Procs, NEW line \in TypedLines, NEW d \in Dirs, Begin(p, line, d)
      PROVE  InstallInv'
  <2>1. PICK op \in Ops : /\ pc' = [pc EXCEPT ![p] = FirstCall[op]]
                          /\ UNCHANGED <<fsVars, ended>>
    BY <1>0, <1>1, BeginOK
  <2>2. FirstCall[op] \in Labels \ (InstallCalls \ {"repos"})
    BY InstallCallsOK DEF FirstCall, Labels, InstallCalls, Ops
  <2> QED
    BY <2>1, <1>a, <2>2, InstallCalm DEF Goto, AInits
<1>1a. ASSUME NEW p \in Procs, NEW line \in TypedLines, Idle(p, line) PROVE InstallInv'
  BY <1>1a, InstallCalm DEF Idle, procVars, AInits
<1>2. ASSUME NEW p \in Procs, Install(p) PROVE InstallInv'
  <2>1. CASE Fail(p)
    BY <1>c, <2>1
  <2>2. CASE ~Fail(p)
    <3>1. /\ pc[p] \in InstallCalls /\ installed' = installed \cup {pc[p]}
          /\ pc[p] = "exe" => "exe" \notin installed
          /\ job[p].op = "AINIT"
      BY <1>0, <1>2, <2>2, InstallCallsOK DEF Install, JobOK
    <3>2. CASE pc[p] = "passwd" /\ Done(p)
      <4>1. pc' = [pc EXCEPT ![p] = "idle"] /\ ended' = ended \cup {job[p]}
        BY <3>2 DEF Done, Leave, Goto
      <4>2. AInits = {} /\ AInits' = {job[p]}
        BY <3>1, <3>2, <4>1 DEF InstallInv, PastMkdir, AInits
      <4>3. \A q \in Procs : pc'[q] \notin PastMkdir
        BY <1>0, <3>2, <4>1 DEF InstallInv, PastMkdir, TypeOK
      <4>4. installed' = InstallCalls
        BY <1>0, <3>1, <3>2, InstallCallsOK DEF InstallInv, MadeBefore, InstallCalls, TypeOK
      <4>5. \A q \in Procs : MadeBefore(pc'[q]) \subseteq installed'
        BY <4>4 DEF MadeBefore, InstallCalls
      <4> QED
        BY <4>2, <4>3, <4>4, <4>5 DEF InstallInv
    <3>3. CASE pc[p] # "passwd" /\ Goto(p, InstallNext[pc[p]]) /\ ended' = ended
      <4>1. pc' = [pc EXCEPT ![p] = InstallNext[pc[p]]] /\ AInits' = AInits
        BY <3>3 DEF Goto, AInits
      <4>2. MadeBefore(InstallNext[pc[p]]) \subseteq installed'
        BY <3>1, <3>3 DEF InstallInv, InstallNext, MadeBefore, InstallCalls
      <4>3. \A q \in Procs : MadeBefore(pc'[q]) \subseteq installed'
        BY <1>0, <3>1, <4>1, <4>2 DEF InstallInv, TypeOK
      <4>4. installed \subseteq InstallCalls
        BY <1>0, InstallCallsOK DEF TypeOK
      <4>5. AInits # {} => installed' = InstallCalls
        BY <3>1, <4>4 DEF InstallInv
      <4>6. CASE pc[p] = "exe"
        <5>1. AInits = {} /\ \A q \in Procs : pc[q] \notin PastMkdir
          BY <3>1, <4>6 DEF InstallInv, PastMkdir, MadeBefore, InstallCalls
        <5>2. \A q \in Procs : pc'[q] \in PastMkdir => q = p
          BY <1>0, <4>1, <5>1 DEF TypeOK
        <5> QED
          BY <4>1, <4>3, <5>1, <5>2 DEF InstallInv
      <4>7. CASE pc[p] # "exe"
        <5>1. InstallNext[pc[p]] \in PastMkdir => pc[p] \in PastMkdir
          BY <3>1, <3>3, <4>7 DEF InstallNext, InstallCalls, PastMkdir
        <5>2. \A q \in Procs : pc'[q] \in PastMkdir => pc[q] \in PastMkdir
          BY <1>0, <4>1, <5>1 DEF TypeOK
        <5> QED
          BY <4>1, <4>3, <4>5, <5>2 DEF InstallInv
      <4> QED
        BY <4>6, <4>7
    <3> QED
      BY <1>2, <2>2, <3>2, <3>3 DEF Install
  <2> QED
    BY <2>1, <2>2
<1>3. ASSUME NEW p \in Procs,
             Register(p) \/ MakeMeta(p) \/ MakeLog(p) \/ Mkdir(p) \/ Remove(p) \/ OpenLog(p)
      PROVE  InstallInv'
  <2>1. CASE Fail(p)
    BY <1>c, <2>1
  <2>2. CASE ~Fail(p)
    <3>1. /\ \E c \in {"mkmeta", "mklog", "header", "openlog", "append"} : Goto(p, c)
          /\ UNCHANGED <<installed, ended>>
      BY <1>3, <2>2 DEF Register, MakeMeta, MakeLog, Mkdir, Remove, OpenLog
    <3> QED
      BY <1>a, <3>1, InstallCalm DEF AInits, Labels, InstallCalls
  <2> QED
    BY <2>1, <2>2
<1>4. ASSUME NEW p \in Procs, WriteHeader(p) \/ AppendLine(p) PROVE InstallInv'
  <2>1. Leave(p) /\ ended' = ended \cup {job[p]} /\ installed' = installed
    BY <1>4 DEF WriteHeader, AppendLine, Done
  <2>2. job[p].op # "AINIT"
    BY <1>0, <1>4 DEF WriteHeader, AppendLine, JobOK, CreatCalls
  <2> QED
    BY <1>b, <2>1, <2>2, InstallCalm DEF AInits
<1>5. CASE UNCHANGED vars
  BY <1>5, InstallCalm DEF vars, procVars, AInits
<1> QED
  BY <1>1, <1>1a, <1>2, <1>3, <1>4, <1>5, <1>c DEF Next, Crash, Terminating

(* Whatever ainits run side by side and are killed, one at most comes to   *)
(* its end, and it leaves a whole installation.                            *)
THEOREM OneInstall == Spec => []InstalledOnce
<1>1. Init => TypeInv /\ InstallInv
  BY InitType DEF Init, InstallInv, AInits, MadeBefore, PastMkdir
<1>2. (TypeInv /\ InstallInv) /\ [Next]_vars => (TypeInv /\ InstallInv)'
  BY TypeStep, InstallStep
<1>3. TypeInv /\ InstallInv => InstalledOnce
  <2> SUFFICES ASSUME InstallInv PROVE InstalledOnce
    OBVIOUS
  <2>1. AInits # {} => installed = DOMAIN InstallNext
    BY InstallCallsOK DEF InstallInv
  <2>2. Cardinality(AInits) <= 1
    <3>1. CASE AInits = {}
      BY <3>1, FS_EmptySet
    <3>2. CASE AInits # {}
      <4>1. PICK i : AInits = {i}
        BY <3>2 DEF InstallInv
      <4>2. Cardinality(AInits) = 1
        BY <4>1, FS_Singleton, Zenon
      <4> QED
        BY <4>2
    <3> QED
      BY <3>1, <3>2
  <2> QED
    BY <2>1, <2>2 DEF InstalledOnce, AInits
<1> QED
  BY <1>1, <1>2, <1>3, PTL DEF Spec

-----------------------------------------------------------------------------
(* What a step does to the commands, leaving the files aside: a process    *)
(* ends, or makes its next call.                                           *)
Busy(p) == pc[p] # "idle"
Ends(p) ==
    /\ Busy(p) /\ Leave(p) /\ UNCHANGED <<did, count, inTime, meddled>>
    /\ ended' = ended \/ ended' = ended \cup {job[p]}
GoesOn(p) ==
    /\ Busy(p) /\ \E c \in Labels \ {"idle"} : Goto(p, c)
    /\ UNCHANGED <<job, ended, count, inTime>> /\ meddled \subseteq meddled'
    /\ \/ did' = did
       \/ did' = did \cup {job[p]} /\ job[p].op \in {"MKDIR", "DELETE"}
Begins ==
    \E p \in Procs, line \in TypedLines, d \in Dirs : Begin(p, line, d)
Rests ==
    /\ count' \in Nat /\ count' >= count
    /\ UNCHANGED <<fsVars, procVars, history>>

LEMMA StepKinds ==
    TypeInv /\ [Next]_vars =>
      Begins \/ (\E p \in Procs : Ends(p) \/ GoesOn(p)) \/ Rests
<1> SUFFICES ASSUME TypeInv, [Next]_vars
             PROVE  Begins \/ (\E p \in Procs : Ends(p) \/ GoesOn(p)) \/ Rests
  OBVIOUS
<1> USE DEF history, fsVars
<1>0. TypeOK /\ \A p \in Procs : JobOK(p)
  BY DEF TypeInv
<1>a. ASSUME NEW p \in Procs, Busy(p), Fail(p) PROVE Ends(p)
  BY <1>a DEF Fail, Ends
<1>1. ASSUME NEW p \in Procs, Install(p) PROVE Ends(p) \/ GoesOn(p)
  <2>1. Busy(p) /\ pc[p] \in InstallCalls
    BY <1>1, InstallCallsOK DEF Install, Busy, InstallCalls
  <2>2. CASE Fail(p)
    BY <1>a, <2>1, <2>2
  <2>3. CASE Done(p) /\ UNCHANGED <<did, count, inTime, meddled>>
    BY <2>1, <2>3 DEF Ends, Done
  <2>4. CASE pc[p] # "passwd" /\ Goto(p, InstallNext[pc[p]])
             /\ UNCHANGED <<job, ended, did, count, inTime, meddled>>
    <3>1. InstallNext[pc[p]] \in Labels \ {"idle"}
      <4>1. InstallCalls \subseteq Labels \ {"idle"}
        BY InstallCallsOK DEF InstallCalls, Labels
      <4> QED
        BY <2>1, <2>4, <4>1, InstallCallsOK
    <3> QED
      BY <2>1, <2>4, <3>1 DEF GoesOn
  <2> QED
    BY <1>1, <2>2, <2>3, <2>4 DEF Install
<1>2. ASSUME NEW p \in Procs, Register(p) \/ MakeMeta(p) \/ MakeLog(p) \/ OpenLog(p)
      PROVE  Ends(p) \/ GoesOn(p)
  <2>1. Busy(p)
    BY <1>2 DEF Register, MakeMeta, MakeLog, OpenLog, Busy
  <2>2. Fail(p) \/ /\ \E c \in {"mkmeta", "mklog", "header", "append"} : Goto(p, c)
                   /\ UNCHANGED <<job, ended, count, inTime, meddled, did>>
    BY <1>2 DEF Register, MakeMeta, MakeLog, OpenLog
  <2> QED
    BY <1>a, <2>1, <2>2 DEF GoesOn, Labels
<1>3. ASSUME NEW p \in Procs, Mkdir(p) \/ Remove(p) PROVE Ends(p) \/ GoesOn(p)
  <2>1. Busy(p) /\ job[p].op \in {"MKDIR", "DELETE"}
    BY <1>0, <1>3 DEF Mkdir, Remove, Busy, JobOK
  <2>2. Fail(p) \/ /\ Goto(p, "openlog") /\ did' = did \cup {job[p]}
                   /\ UNCHANGED <<job, ended, count, inTime>> /\ meddled \subseteq meddled'
    BY <1>3 DEF Mkdir, Remove
  <2> QED
    BY <1>a, <2>1, <2>2 DEF GoesOn, Labels
<1>4. ASSUME NEW p \in Procs, WriteHeader(p) \/ AppendLine(p) PROVE Ends(p)
  BY <1>4 DEF WriteHeader, AppendLine, Done, Busy, Ends
<1>5. ASSUME NEW p \in Procs, Crash(p) PROVE Ends(p)
  BY <1>5, <1>a DEF Crash, Busy
<1>6. ASSUME UNCHANGED vars \/ \E p \in Procs, line \in TypedLines : Idle(p, line)
      PROVE  Rests
  BY <1>0, <1>6, ConstantsOK DEF Idle, Rests, vars, TypeOK
<1> QED
  BY <1>1, <1>2, <1>3, <1>4, <1>5, <1>6 DEF Next, Begins, Terminating

(* Every command has its own number, and is over when its process ends.    *)
Ids ==
    /\ \A p \in Procs : Busy(p) => job[p].id \in 1..count
    /\ \A p, q \in Procs : Busy(p) /\ Busy(q) /\ job[p].id = job[q].id => p = q
    /\ \A j \in ended : j.id <= count /\ \A p \in Procs : Busy(p) => j.id # job[p].id
    /\ \A j \in did : j.id <= count /\ j.op \in {"MKDIR", "DELETE"}
    /\ \A i \in 1..MaxCommands, r \in Dirs : <<i, r>> \in inTime => Created(r)

LEMMA IdsStep == TypeInv /\ TypeInv' /\ Ids /\ [Next]_vars => Ids'
<1> SUFFICES ASSUME TypeInv, TypeInv', Ids, [Next]_vars PROVE Ids'
  OBVIOUS
<1>0. TypeOK
  BY DEF TypeInv
<1>1. count \in Nat /\ count' \in Nat /\ (\A j \in Jobs : j.id \in Nat)
  BY <1>0, ConstantsOK DEF TypeInv, TypeOK, Jobs
<1>2. CASE Begins
  <2>1. PICK p \in Procs, line \in TypedLines, d \in Dirs : Begin(p, line, d)
    BY <1>2 DEF Begins
  <2>2. /\ ~Busy(p) /\ count' = count + 1 /\ job'[p].id = count + 1
        /\ \A q \in Procs \ {p} : pc'[q] = pc[q] /\ job'[q] = job[q]
        /\ UNCHANGED <<ended, did>>
    <3>1. PICK op \in Ops, j \in Jobs :
            /\ j.id = count + 1 /\ pc[p] = "idle" /\ count' = count + 1
            /\ job' = [job EXCEPT ![p] = j] /\ pc' = [pc EXCEPT ![p] = FirstCall[op]]
            /\ UNCHANGED <<ended, did>>
      BY <1>0, <2>1, BeginOK
    <3> QED
      BY <1>0, <3>1 DEF Busy, TypeOK
  <2>3. \A r : Created(r)' <=> Created(r)
    BY <2>2 DEF Created
  <2>4. \A i, r : <<i, r>> \in inTime' => <<i, r>> \in inTime \/ Created(r)
    BY <2>1 DEF Begin, RepoOf
  <2>5. \A i \in 1..MaxCommands, r \in Dirs : <<i, r>> \in inTime' => Created(r)'
    BY <2>3, <2>4 DEF Ids
  <2>6. \A q \in Procs : Busy(q)' => job'[q].id \in 1..count'
    BY <1>1, <2>2 DEF Ids, Busy
  <2>7. \A q, r \in Procs : Busy(q)' /\ Busy(r)' /\ job'[q].id = job'[r].id => q = r
    BY <1>1, <2>2 DEF Ids, Busy
  <2>8. \A j \in ended' : /\ j.id <= count'
                          /\ \A q \in Procs : Busy(q)' => j.id # job'[q].id
    <3>1. \A j \in ended : j.id \in Nat
      BY <1>0, <1>1 DEF TypeOK
    <3> QED
      BY <1>1, <2>2, <3>1 DEF Ids, Busy
  <2>9. \A j \in did' : j.id <= count' /\ j.op \in {"MKDIR", "DELETE"}
    <3>1. \A j \in did : j.id \in Nat
      BY <1>0, <1>1 DEF TypeOK
    <3> QED
      BY <1>1, <2>2, <3>1 DEF Ids
  <2> QED
    BY <2>5, <2>6, <2>7, <2>8, <2>9 DEF Ids
<1>3. ASSUME NEW p \in Procs, Ends(p) PROVE Ids'
  <2>1. /\ \A q \in Procs : Busy(q)' => Busy(q) /\ q # p /\ job'[q] = job[q]
        /\ UNCHANGED <<did, count, inTime>> /\ Busy(p)
        /\ \A j \in ended' : j \in ended \/ j = job[p]
        /\ ended \subseteq ended'
    BY <1>0, <1>3 DEF Ends, Leave, Goto, Busy, TypeOK
  <2>2. \A r : Created(r) => Created(r)'
    BY <2>1 DEF Created
  <2>3. job[p].id <= count
    BY <1>1, <2>1 DEF Ids
  <2> QED
    BY <2>1, <2>2, <2>3 DEF Ids
<1>4. ASSUME NEW p \in Procs, GoesOn(p) PROVE Ids'
  <2>1. /\ \A q \in Procs : Busy(q)' => Busy(q)
        /\ UNCHANGED <<job, ended, count, inTime>> /\ Busy(p)
        /\ \A j \in did' : j \in did \/ (j = job[p] /\ j.op \in {"MKDIR", "DELETE"})
    BY <1>0, <1>4 DEF GoesOn, Goto, Busy, TypeOK
  <2>2. \A r : Created(r)' <=> Created(r)
    BY <2>1 DEF Created
  <2>3. job[p].id <= count
    BY <1>1, <2>1 DEF Ids
  <2> QED
    BY <2>1, <2>2, <2>3 DEF Ids
<1>5. CASE Rests
  <2>1. \A r : Created(r)' <=> Created(r)
    BY <1>5 DEF Rests, history, Created
  <2>2. /\ UNCHANGED <<pc, job, did, ended, inTime>> /\ count' >= count
        /\ \A j \in did \cup ended : j.id \in Nat
    BY <1>0, <1>1, <1>5 DEF Rests, procVars, history, TypeOK
  <2> QED
    BY <1>1, <2>1, <2>2 DEF Ids, Busy
<1> QED
  BY <1>2, <1>3, <1>4, <1>5, StepKinds

-----------------------------------------------------------------------------
(* A command opens the log of its own directory: nothing is registered but *)
(* the registry itself, which is no directory.                             *)
OwnLog ==
    /\ repos \subseteq {ReposPath}
    /\ \A p \in Procs : pc[p] = "append" =>
         /\ fd[p] \in {job[p].dir, NoDir}
         /\ job[p].dir \notin meddled => fd[p] = job[p].dir

LEMMA OwnLogStep == TypeInv /\ OwnLog /\ [Next]_vars => OwnLog'
<1> SUFFICES ASSUME TypeInv, OwnLog, [Next]_vars PROVE OwnLog'
  OBVIOUS
<1> USE DEF history, fsVars
<1>0. TypeOK /\ \A p \in Procs : JobOK(p)
  BY DEF TypeInv
<1>a. ASSUME NEW p \in Procs, NEW c \in Labels \ {"append"}, Goto(p, c),
             \A q \in Procs \ {p} : job'[q] = job[q] /\ fd'[q] = fd[q],
             meddled' = meddled, repos' = repos \/ repos' \subseteq {ReposPath}
      PROVE  OwnLog'
  BY <1>0, <1>a DEF Goto, OwnLog, TypeOK
<1>b. ASSUME NEW p \in Procs, Leave(p), meddled' = meddled,
             repos' = repos \/ repos' \subseteq {ReposPath}
      PROVE  OwnLog'
  BY <1>0, <1>b DEF Leave, Goto, OwnLog, TypeOK
<1>c. ASSUME NEW p \in Procs, Fail(p) PROVE OwnLog'
  BY <1>b, <1>c DEF Fail
<1>1. ASSUME NEW p \in Procs, NEW line \in TypedLines, NEW d \in Dirs, Begin(p, line, d)
      PROVE  OwnLog'
  <2>1. PICK op \in Ops, j \in Jobs :
          /\ job' = [job EXCEPT ![p] = j] /\ pc' = [pc EXCEPT ![p] = FirstCall[op]]
          /\ UNCHANGED <<fsVars, fd, meddled>>
    BY <1>0, <1>1, BeginOK
  <2>2. FirstCall[op] \in Labels \ {"append"}
    BY InstallCallsOK DEF FirstCall, Labels, InstallCalls, Ops
  <2> QED
    BY <1>0, <1>a, <2>1, <2>2 DEF Goto, TypeOK
<1>1a. ASSUME NEW p \in Procs, NEW line \in TypedLines, Idle(p, line) PROVE OwnLog'
  BY <1>1a DEF Idle, procVars, OwnLog
<1>2. ASSUME NEW p \in Procs, Install(p) PROVE OwnLog'
  <2>1. CASE Fail(p)
    BY <1>c, <2>1
  <2>2. CASE ~Fail(p)
    <3>1. /\ pc[p] \in InstallCalls /\ meddled' = meddled
          /\ repos' = repos \/ repos' \subseteq {ReposPath}
      BY <1>2, <2>2, InstallCallsOK DEF Install
    <3>2. pc[p] # "passwd" => InstallNext[pc[p]] \in Labels \ {"append"}
      <4>1. InstallCalls \subseteq Labels \ {"append"}
        BY InstallCallsOK DEF InstallCalls, Labels
      <4> QED
        BY <3>1, <4>1, InstallCallsOK
    <3>3. Leave(p) \/ (/\ pc[p] # "passwd" /\ Goto(p, InstallNext[pc[p]])
                       /\ UNCHANGED <<job, fd>>)
      BY <1>2, <2>2 DEF Install, Done
    <3> QED
      BY <1>a, <1>b, <3>1, <3>2, <3>3
  <2> QED
    BY <2>1, <2>2
<1>3. ASSUME NEW p \in Procs, Register(p) \/ MakeMeta(p) \/ MakeLog(p) \/ Mkdir(p)
      PROVE  OwnLog'
  <2>1. CASE Fail(p)
    BY <1>c, <2>1
  <2>2. CASE ~Fail(p)
    <3>1. /\ \E c \in {"mkmeta", "mklog", "header", "openlog"} : Goto(p, c)
          /\ fd' = fd \/ fd' = [fd EXCEPT ![p] = job[p].dir]
          /\ UNCHANGED <<job, meddled>>
          /\ repos' = repos \/ repos' \subseteq {ReposPath}
      BY <1>3, <2>2 DEF Register, MakeMeta, MakeLog, Mkdir
    <3>2. \A q \in Procs \ {p} : job'[q] = job[q] /\ fd'[q] = fd[q]
      BY <1>0, <3>1 DEF TypeOK
    <3>3. PICK c \in Labels \ {"append"} : Goto(p, c)
      BY <3>1 DEF Labels
    <3> QED
      BY <1>a, <3>1, <3>2, <3>3
  <2> QED
    BY <2>1, <2>2
<1>4. ASSUME NEW p \in Procs, WriteHeader(p) \/ AppendLine(p) PROVE OwnLog'
  BY <1>4, <1>b DEF WriteHeader, AppendLine, Done
<1>5. ASSUME NEW p \in Procs, Remove(p) PROVE OwnLog'
  <2>1. CASE Fail(p)
    BY <1>c, <2>1
  <2>2. CASE ~Fail(p)
    <3> DEFINE e == job[p].dir
    <3>1. /\ pc' = [pc EXCEPT ![p] = "openlog"] /\ UNCHANGED <<job, repos>>
          /\ meddled \subseteq meddled'
          /\ fd' = fd \/ (/\ e \in meddled'
                          /\ fd' = [q \in Procs |-> IF fd[q] = e THEN NoDir ELSE fd[q]])
      BY <1>5, <2>2 DEF Remove, Goto
    <3> HIDE DEF e
    <3> QED
      BY <1>0, <3>1 DEF OwnLog, TypeOK
  <2> QED
    BY <2>1, <2>2
<1>6. ASSUME NEW p \in Procs, OpenLog(p) PROVE OwnLog'
  <2>1. CASE Fail(p)
    BY <1>c, <2>1
  <2>2. CASE ~Fail(p)
    <3>1. LogDir(job[p].dir) = job[p].dir
      <4>1. job[p].dir \in Dirs
        BY <1>0, <1>6 DEF OpenLog, JobOK
      <4>2. Parent[job[p].dir] \in Dirs \cup {NoDir}
        BY <4>1, ConstantsOK
      <4>3. {job[p].dir, Parent[job[p].dir]} \cap repos = {}
        BY <4>1, <4>2, ConstantsOK DEF OwnLog, ReposPath, NoDir
      <4> QED
        BY <4>3 DEF LogDir
    <3>2. /\ pc' = [pc EXCEPT ![p] = "append"] /\ fd' = [fd EXCEPT ![p] = job[p].dir]
          /\ UNCHANGED <<job, repos, meddled>>
      BY <1>6, <2>2, <3>1 DEF OpenLog, Goto
    <3> QED
      BY <1>0, <3>2 DEF OwnLog, TypeOK
  <2> QED
    BY <2>1, <2>2
<1>7. CASE UNCHANGED vars
  BY <1>7 DEF vars, procVars, OwnLog
<1> QED
  BY <1>1, <1>1a, <1>2, <1>3, <1>4, <1>5, <1>6, <1>7, <1>c DEF Next, Crash, Terminating

-----------------------------------------------------------------------------
(* What a step does to a log: nothing, add a line to it, or leave lines of *)
(* it and a header, and then it is no longer than it was.                  *)
Shrinks(d) ==
    /\ Len(log[d]) >= 1 => Len(log'[d]) <= Len(log[d])
    /\ \A k \in 1..Len(log'[d]) :
         log'[d][k] = Header \/ \E m \in 1..Len(log[d]) : log'[d][k] = log[d][m]
Adds(p, d) ==
    /\ AppendLine(p) /\ fd[p] = d /\ log'[d] = Append(log[d], job[p])

LEMMA LogChanges ==
    TypeInv /\ [Next]_vars =>
      \A d \in Dirs : log'[d] = log[d] \/ Shrinks(d) \/ \E p \in Procs : Adds(p, d)
<1> SUFFICES ASSUME TypeInv, [Next]_vars, NEW d \in Dirs
             PROVE  log'[d] = log[d] \/ Shrinks(d) \/ \E p \in Procs : Adds(p, d)
  OBVIOUS
<1> USE DEF history, fsVars
<1>0. TypeOK /\ log[d] \in Seq(LogLines)
  BY DEF TypeInv, TypeOK, LogLines
<1>a. ASSUME log'[d] = <<>> PROVE Shrinks(d)
  BY <1>0, <1>a DEF Shrinks
<1>1. ASSUME NEW p \in Procs, MakeLog(p) \/ Remove(p)
      PROVE  log'[d] = log[d] \/ Shrinks(d)
  <2>1. log' = log \/ log' = [log EXCEPT ![job[p].dir] = <<>>]
    BY <1>1 DEF MakeLog, Remove, Fail
  <2> QED
    BY <1>0, <1>a, <2>1 DEF TypeOK
<1>2. ASSUME NEW p \in Procs, WriteHeader(p) PROVE log'[d] = log[d] \/ Shrinks(d)
  <2>1. CASE log'[d] = <<Header>> \o SubSeq(log[d], 2, Len(log[d]))
    <3>1. /\ SubSeq(log[d], 2, Len(log[d])) \in Seq(LogLines) /\ Header \in LogLines
          /\ Len(SubSeq(log[d], 2, Len(log[d]))) =
               IF Len(log[d]) >= 1 THEN Len(log[d]) - 1 ELSE 0
          /\ \A m \in 1..Len(log[d]) - 1 : SubSeq(log[d], 2, Len(log[d]))[m] = log[d][m + 1]
      BY <1>0 DEF LogLines
    <3> DEFINE rest == SubSeq(log[d], 2, Len(log[d]))
    <3>2. /\ Len(log'[d]) = 1 + Len(rest) /\ log'[d][1] = Header
          /\ \A k \in 2..Len(log'[d]) : log'[d][k] = rest[k - 1]
      BY <2>1, <3>1
    <3>3. ASSUME NEW k \in 1..Len(log'[d]), k # 1
          PROVE  \E m \in 1..Len(log[d]) : log'[d][k] = log[d][m]
      BY <1>0, <3>1, <3>2, <3>3
    <3> QED
      BY <1>0, <3>1, <3>2, <3>3 DEF Shrinks
  <2> QED
    BY <1>0, <1>2, <2>1 DEF WriteHeader, TypeOK
<1>3. ASSUME NEW p \in Procs, AppendLine(p) PROVE log'[d] = log[d] \/ Adds(p, d)
  <2>1. log' = log \/ (fd[p] # NoDir /\ log' = [log EXCEPT ![fd[p]] = Append(@, job[p])])
    BY <1>3 DEF AppendLine
  <2> QED
    BY <1>0, <1>3, <2>1 DEF Adds, TypeOK
<1>4. ASSUME NEW p \in Procs, Install(p) \/ Register(p) \/ MakeMeta(p) \/ Mkdir(p)
                             \/ OpenLog(p) \/ Crash(p)
      PROVE  log' = log
  BY <1>4 DEF Install, Register, MakeMeta, Mkdir, OpenLog, Crash, Fail
<1>5. ASSUME Begins \/ UNCHANGED vars \/ \E p \in Procs, line \in TypedLines : Idle(p, line)
      PROVE  log' = log
  BY <1>5 DEF Begins, Begin, Idle, vars
<1> QED
  BY <1>1, <1>2, <1>3, <1>4, <1>5 DEF Next, Begins, Terminating

(* The line of a command that still runs is in no log yet ...              *)
NotYet ==
    \A p \in Procs : Busy(p) =>
      \A d \in Dirs : \A k \in 1..Len(log[d]) : log[d][k] # job[p]

LEMMA NotYetStep == TypeInv /\ DoneFirst /\ Ids /\ NotYet /\ [Next]_vars => NotYet'
<1> SUFFICES ASSUME TypeInv, DoneFirst, Ids, NotYet, [Next]_vars,
                    NEW q \in Procs, Busy(q)', NEW d \in Dirs,
                    NEW k \in 1..Len(log'[d]), log'[d][k] = job'[q]
             PROVE  FALSE
  BY DEF NotYet
<1>0. TypeOK /\ count \in Nat /\ log[d] \in Seq(LogLines)
  BY ConstantsOK DEF TypeInv, TypeOK, LogLines
<1>1. CASE Begins
  <2>1. PICK p \in Procs, line \in TypedLines, e \in Dirs : Begin(p, line, e)
    BY <1>1 DEF Begins
  <2>2. /\ log' = log /\ job'[p].id = count + 1
        /\ \A r \in Procs \ {p} : pc'[r] = pc[r] /\ job'[r] = job[r]
    <3>1. PICK op \in Ops, j \in Jobs :
            /\ j.id = count + 1 /\ UNCHANGED fsVars
            /\ job' = [job EXCEPT ![p] = j] /\ pc' = [pc EXCEPT ![p] = FirstCall[op]]
      BY <1>0, <2>1, BeginOK
    <3> QED
      BY <1>0, <3>1 DEF fsVars, TypeOK
  <2>3. log[d][k] \in did \cup {Header}
    BY <2>2 DEF DoneFirst, LoggedWasDone
  <2>4. log[d][k].id <= count
    BY <1>0, <2>3, NoJobOK DEF Ids
  <2>5. CASE q = p
    BY <1>0, <2>2, <2>4, <2>5
  <2>6. CASE q # p
    BY <2>2, <2>6 DEF NotYet, Busy
  <2> QED
    BY <2>5, <2>6
<1>2. ASSUME Busy(q), job'[q] = job[q], \A p \in Procs : Adds(p, d) => p # q
      PROVE  FALSE
  <2>1. job[q] # Header
    BY <1>2, NoJobOK DEF Ids
  <2>2. ASSUME NEW p \in Procs, Adds(p, d) PROVE FALSE
    <3>1. Busy(p) /\ p # q /\ log'[d] = Append(log[d], job[p])
      BY <1>2, <2>2 DEF Adds, AppendLine, Busy
    <3>2. k = Len(log[d]) + 1 => log'[d][k] = job[p]
      BY <1>0, <3>1
    <3>3. k # Len(log[d]) + 1 => k \in 1..Len(log[d]) /\ log'[d][k] = log[d][k]
      BY <1>0, <3>1
    <3> QED
      BY <1>2, <3>1, <3>2, <3>3 DEF Ids, NotYet
  <2> QED
    BY <1>2, <2>1, <2>2, LogChanges DEF Shrinks, NotYet
<1>3. ASSUME NEW p \in Procs, Ends(p) PROVE FALSE
  <2>1. Busy(q) /\ q # p /\ job'[q] = job[q]
    BY <1>0, <1>3 DEF Ends, Leave, Goto, Busy, TypeOK
  <2>2. ASSUME NEW r \in Procs, Adds(r, d) PROVE r # q
    <3>1. pc' = [pc EXCEPT ![r] = "idle"]
      BY <2>2 DEF Adds, AppendLine, Done, Leave, Goto
    <3> QED
      BY <1>0, <3>1 DEF Busy, TypeOK
  <2> QED
    BY <1>2, <2>1, <2>2
<1>4. ASSUME NEW p \in Procs, GoesOn(p) PROVE FALSE
  <2>1. Busy(q) /\ job'[q] = job[q]
    BY <1>0, <1>4 DEF GoesOn, Goto, Busy, TypeOK
  <2>2. ASSUME NEW r \in Procs, Adds(r, d) PROVE r # q
    <3>1. pc' = [pc EXCEPT ![r] = "idle"]
      BY <2>2 DEF Adds, AppendLine, Done, Leave, Goto
    <3> QED
      BY <1>0, <3>1 DEF Busy, TypeOK
  <2> QED
    BY <1>2, <2>1, <2>2
<1>5. CASE Rests
  BY <1>5 DEF Rests, procVars, fsVars, NotYet, Busy
<1> QED
  BY <1>1, <1>3, <1>4, <1>5, StepKinds

(* ... and behind the CREAT of its directory it stays there once written.  *)
OnceInv == TypeInv /\ DoneFirst /\ LogsSafe /\ Ids /\ OwnLog /\ NotYet /\ DoneIsLogged

LEMMA CreatedLogs ==
    ASSUME OnceInv, TypeInv', [Next]_vars, NEW d \in Dirs \ meddled', Created(d)
    PROVE  log'[d] = log[d] \/ \E p \in Procs : Adds(p, d)
<1>1. Keeps
  BY LogsStep DEF OnceInv
<1>2. Grows(d) /\ d \notin meddled
  BY <1>1 DEF Keeps
<1>3. log[d] # <<>>
  BY <1>2 DEF OnceInv, LogsSafe, LogInv
<1>4. log[d] \in Seq(LogLines) /\ log'[d] \in Seq(LogLines)
  BY DEF OnceInv, TypeInv, TypeOK, LogLines
<1>5. CASE Shrinks(d)
  <2>1. Len(log'[d]) = Len(log[d])
    BY <1>2, <1>3, <1>4, <1>5 DEF Grows, Shrinks
  <2>2. SubSeq(log'[d], 1, Len(log'[d])) = log'[d]
    BY <1>4
  <2> QED
    BY <1>2, <2>1, <2>2 DEF Grows
<1> QED
  BY <1>5, LogChanges DEF OnceInv

LEMMA DoneIsLoggedStep == OnceInv /\ TypeInv' /\ [Next]_vars => DoneIsLogged'
<1> SUFFICES ASSUME OnceInv, TypeInv', [Next]_vars, NEW j \in ended' \cap did',
                    <<j.id, j.dir>> \in inTime', j.dir \notin meddled'
             PROVE  Cardinality(Lines(j)') = 1
  BY DEF DoneIsLogged
<1> DEFINE d == j.dir
<1>0. /\ TypeOK /\ Ids /\ count \in Nat /\ \A i \in Jobs : i.id \in Nat
      /\ \A p \in Procs : JobOK(p)
  BY ConstantsOK DEF OnceInv, TypeInv, TypeOK, Jobs
<1>1. d \in Dirs
  BY DEF TypeInv
<1>2. log[d] \in Seq(LogLines)
  BY <1>0, <1>1 DEF TypeOK, LogLines
<1>3. d \in Dirs \ meddled'
  BY <1>1
(* An old command: its one line stays, and no line like it is added.       *)
<1>4. CASE j \in ended
  <2>1. j.id <= count /\ j.id \in Nat /\ \A p \in Procs : Busy(p) => job[p] # j
    BY <1>0, <1>4 DEF Ids, TypeOK
  <2>2. j \in did /\ <<j.id, d>> \in inTime /\ d \notin meddled
    <3>1. CASE Begins
      <4>1. count' = count + 1 /\ UNCHANGED <<did, meddled>>
            /\ \A r : <<j.id, r>> \in inTime' => <<j.id, r>> \in inTime \/ j.id = count + 1
        BY <3>1 DEF Begins, Begin, history
      <4> QED
        BY <1>0, <2>1, <4>1
    <3>2. ASSUME NEW p \in Procs, Ends(p) \/ GoesOn(p)
          PROVE  j \in did /\ <<j.id, d>> \in inTime /\ d \notin meddled
      BY <2>1, <3>2 DEF Ends, GoesOn
    <3>3. CASE Rests
      BY <3>3 DEF Rests, history
    <3> QED
      BY <3>1, <3>2, <3>3, StepKinds DEF OnceInv
  <2>3. Cardinality(Lines(j)) = 1
    BY <1>4, <2>2 DEF OnceInv, DoneIsLogged
  <2>4. Created(d)
    BY <1>0, <1>1, <2>2 DEF Ids, TypeOK
  <2>5. Lines(j)' = Lines(j)
    <3>1. CASE log'[d] = log[d]
      BY <3>1 DEF Lines
    <3>2. ASSUME NEW p \in Procs, Adds(p, d) PROVE Lines(j)' = Lines(j)
      <4>1. log'[d] = Append(log[d], job[p]) /\ job[p] # j
        BY <2>1, <3>2 DEF Adds, AppendLine, Busy
      <4>2. /\ Len(log'[d]) = Len(log[d]) + 1 /\ log'[d][Len(log[d]) + 1] = job[p]
            /\ \A k \in 1..Len(log[d]) : log'[d][k] = log[d][k]
        BY <1>2, <4>1
      <4> QED
        BY <1>2, <4>1, <4>2 DEF Lines
    <3> HIDE DEF d
    <3> QED
      BY <1>3, <2>4, <3>1, <3>2, CreatedLogs
  <2> QED
    BY <2>3, <2>5
(* A command that ends now: it had no line, and writes one.                *)
<1>5. CASE j \notin ended
  <2>1. PICK p \in Procs : Ends(p) /\ j = job[p] /\ did' = did
    <3>1. ~Begins /\ ~Rests /\ \A p \in Procs : ~GoesOn(p)
      BY <1>5 DEF Begins, Begin, Rests, history, GoesOn
    <3>2. PICK p \in Procs : Ends(p)
      BY <3>1, StepKinds DEF OnceInv
    <3> QED
      BY <1>5, <3>2 DEF Ends
  <2>2. j.op \in {"MKDIR", "DELETE"} /\ Busy(p) /\ ended' # ended
    BY <1>0, <1>5, <2>1 DEF Ids, Ends
  <2>3. pc' = [pc EXCEPT ![p] = "idle"]
    BY <2>1 DEF Ends, Leave, Goto
  <2>4. AppendLine(p)
    <3>1. PICK q \in Procs : Install(q) \/ WriteHeader(q) \/ AppendLine(q)
      BY <1>5, <2>2 DEF Next, Begin, Idle, Register, MakeMeta, MakeLog, Mkdir, Remove, OpenLog,
                        Crash, Fail, Terminating, vars, history
    <3>2. Leave(q) /\ Busy(q)
      <4>1. pc[q] \in InstallCalls \cup {"header", "append"}
        BY <3>1, InstallCallsOK DEF Install, WriteHeader, AppendLine
      <4>2. Leave(q)
        BY <2>2, <3>1 DEF Install, WriteHeader, AppendLine, Done, Fail
      <4> QED
        BY <4>1, <4>2 DEF Busy, InstallCalls
    <3>3. q = p
      BY <1>0, <2>2, <2>3, <3>2 DEF Leave, Goto, Busy, TypeOK
    <3>4. ~Install(p) /\ ~WriteHeader(p)
      BY <1>0, <2>1, <2>2, InstallCallsOK DEF Install, WriteHeader, JobOK, CreatCalls
    <3> QED
      BY <3>1, <3>3, <3>4
  <2>5. fd[p] = d
    <3>1. pc[p] = "append" /\ d \notin meddled
      BY <2>1, <2>4 DEF AppendLine, Ends
    <3> QED
      BY <2>1, <3>1 DEF OnceInv, OwnLog
  <2>6. log'[d] = Append(log[d], j)
    BY <1>0, <1>1, <2>1, <2>4, <2>5, ConstantsOK DEF AppendLine, TypeOK
  <2>7. /\ Len(log'[d]) = Len(log[d]) + 1 /\ log'[d][Len(log[d]) + 1] = j
        /\ \A k \in 1..Len(log[d]) : log'[d][k] = log[d][k] /\ log[d][k] # j
    BY <1>1, <1>2, <2>1, <2>2, <2>6 DEF OnceInv, NotYet
  <2>8. Lines(j)' = {Len(log[d]) + 1}
    <3>1. Lines(j)' = {k \in 1..Len(log'[d]) : log'[d][k] = j}
      BY DEF Lines
    <3>2. Len(log[d]) + 1 \in 1..Len(log'[d])
      BY <1>2, <2>7
    <3>3. ASSUME NEW k \in 1..Len(log'[d])
          PROVE  log'[d][k] = j <=> k = Len(log[d]) + 1
      <4>1. k \in 1..Len(log[d]) \/ k = Len(log[d]) + 1
        BY <1>2, <2>7
      <4> QED
        BY <1>2, <2>7, <4>1
    <3> QED
      BY <3>1, <3>2, <3>3
  <2> QED
    BY <2>8, FS_Singleton, Zenon
<1> QED
  BY <1>4, <1>5

(* A MKDIR or DELETE started after the CREAT of its directory and run to   *)
(* its end stands in the log exactly once, whatever races with it.         *)
THEOREM LoggedExactlyOnce == Spec => []DoneIsLogged
<1>1. Init => OnceInv
  BY InitType DEF Init, OnceInv, DoneFirst, LoggedWasDone, LogsSafe, FdOK, LogInv, Making,
                  Created, Ids, Busy, OwnLog, NotYet, DoneIsLogged
<1>2. OnceInv /\ [Next]_vars => OnceInv'
  <2> SUFFICES ASSUME OnceInv, [Next]_vars PROVE OnceInv'
    OBVIOUS
  <2>1. TypeInv' /\ DoneFirst' /\ OwnLog' /\ NotYet'
    BY TypeStep, DoneFirstStep, OwnLogStep, NotYetStep DEF OnceInv
  <2>2. Ids' /\ LogsSafe'
    BY <2>1, IdsStep, LogsStep DEF OnceInv, Keeps, LogsSafe
  <2> QED
    BY <2>1, <2>2, DoneIsLoggedStep DEF OnceInv
<1>3. OnceInv => DoneIsLogged
  BY DEF OnceInv
<1> QED
  BY <1>1, <1>2, <1>3, PTL DEF Spec
=============================================================================
