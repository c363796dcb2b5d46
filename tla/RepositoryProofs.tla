-------------------------- MODULE RepositoryProofs --------------------------
(***************************************************************************)
(* Proofs about Repository, for any number of terminals, directories and   *)
(* commands: types, and what the log is worth.                             *)
(***************************************************************************)
EXTENDS Repository, TLAPS

(* A process makes the calls of the command it runs, in its directory.     *)
InstallCalls == {"repos", "exe", "conf", "authz", "passwd"}
CreatCalls   == {"register", "mkmeta", "mklog", "header"}
JobOK(p) ==
    /\ pc[p] \in InstallCalls => job[p].op = "AINIT"
    /\ pc[p] \in CreatCalls => job[p].op = "CREAT"
    /\ pc[p] = "mkdir" => job[p].op = "MKDIR" /\ job[p].arg \in MkdirArgs
    /\ pc[p] = "remove" => job[p].op = "DELETE"
    /\ pc[p] \in {"openlog", "append"} => job[p].op \in {"MKDIR", "DELETE"}
    /\ pc[p] \in {"mkdir", "remove", "openlog", "append"} => AsTyped(job[p])
    /\ pc[p] # "idle" => job[p].dir \in Dirs
TypeInv ==
    /\ TypeOK
    /\ \A p \in Procs : JobOK(p)
    /\ \A j \in ended : j.dir \in Dirs

LogLines == {j \in Jobs : j.op \in {"MKDIR", "DELETE"}} \cup {Header}

(* The calls of ainit.                                                     *)
LEMMA InstallCallsOK ==
    /\ DOMAIN InstallNext = InstallCalls
    /\ \A c \in InstallCalls \ {"passwd"} : InstallNext[c] \in InstallCalls
  BY DEF InstallNext, InstallCalls

(* What comes to be dispatched: parse_command has set what the command     *)
(* needs, and a path is the one that was typed.                            *)
LEMMA RunOK ==
    ASSUME NEW line \in TypedLines, Run(line).op \in Ops
    PROVE  /\ Run(line).arg \in MkdirArgs \cup DeleteArgs \cup {Unset}
           /\ Run(line).cmt \in Seq(STRING)
           /\ Run(line).op = "MKDIR" => Run(line).arg \in MkdirArgs
           /\ Run(line).op \in {"MKDIR", "DELETE"} =>
                args(line, 1) = Run(line).op /\ args(line, 2) = Run(line).arg
<1>1. line \in Seq(STRING)
  BY ConstantsOK
<1>2. CASE line = Ainit
  BY <1>2 DEF Run, Died
<1>3. CASE line # Ainit
  <2>1. Run(line) = Command(line) /\ ~WordMissing(line)
    BY <1>3 DEF Run, Command, Died, Ops
  <2>2. /\ Run(line).op = lookup_cmd(args(line, 1))
        /\ Run(line).arg = parse_command(line).arg
        /\ Run(line).cmt = parse_command(line).cmt
    BY <2>1 DEF Command
  <2>3. Run(line).op = args(line, 1)
    BY <2>2 DEF lookup_cmd, Ops
  <2>4. Run(line).cmt \in Seq(STRING)
    <3> DEFINE n == argc(line) - 2 - (IF TakesPath(line) THEN 1 ELSE 0)
    <3>1. n + 1 \in Int /\ argc(line) - 3 \in Int /\ n + 1 >= argc(line) - 2
      BY <1>1 DEF argc
    <3>2. SubSeq(line, n + 1, argc(line) - 3) = <<>>
      BY <1>1, <3>1 DEF argc
    <3>3. Run(line).cmt = <<>>
      BY <2>2, <3>2 DEF parse_command
    <3>4. <<>> \in Seq(STRING)
      OBVIOUS
    <3> QED
      BY <3>3, <3>4
  <2>5. CASE TakesPath(line)
    <3>1. argc(line) >= 3 /\ Run(line).arg = args(line, 2)
      BY <1>1, <2>1, <2>2, <2>5 DEF WordMissing, parse_command, argc
    <3>2. /\ args(line, 1) = "MKDIR" => args(line, 2) \in MkdirArgs
          /\ args(line, 1) = "DELETE" => args(line, 2) \in DeleteArgs
      BY <3>1 DEF MkdirArgs, DeleteArgs, Paths
    <3> QED
      BY <2>2, <2>3, <2>4, <2>5, <3>1, <3>2 DEF TakesPath
  <2>6. CASE ~TakesPath(line)
    <3>1. Run(line).arg = Unset /\ Run(line).op \notin {"MKDIR", "DELETE"}
      BY <2>2, <2>6 DEF parse_command, TakesPath
    <3> QED
      BY <2>4, <3>1
  <2> QED
    BY <2>5, <2>6
<1> QED
  BY <1>2, <1>3

(* What stands for no command, and for a header, has its type.             *)
LEMMA NoJobOK ==
    /\ NoJob \in Jobs /\ NoJob.dir = NoDir
    /\ Header.op = "header" /\ Header.id = 0
<1>1. <<>> \in Seq(STRING)
  OBVIOUS
<1> QED
  BY <1>1, ConstantsOK DEF NoJob, Header, Entry, Died, Jobs, Unset

(* A line typed becomes a job, and the process makes its first call.       *)
LEMMA BeginOK ==
    ASSUME TypeOK, NEW p \in Procs, NEW line \in TypedLines, NEW d \in Dirs,
           Begin(p, line, d)
    PROVE  \E op \in Ops, j \in Jobs :
             /\ j.op = op /\ j.dir = d /\ j.id = count + 1 /\ count' \in 1..MaxCommands
             /\ op = "MKDIR" => j.arg \in MkdirArgs
             /\ op \in {"MKDIR", "DELETE"} => AsTyped(j)
             /\ job' = [job EXCEPT ![p] = j] /\ pc' = [pc EXCEPT ![p] = FirstCall[op]]
             /\ pc[p] = "idle" /\ count' = count + 1
             /\ UNCHANGED <<fsVars, fd, did, ended, meddled>>
<1>1. PICK op \in Ops : op = Run(line).op
  BY DEF Begin
<1>2. count' = count + 1 /\ count' \in 1..MaxCommands
  BY ConstantsOK DEF Begin, TypeOK
<1>3. PICK j : j = [op |-> op, arg |-> Run(line).arg, cmt |-> Run(line).cmt,
                    dir |-> d, id |-> count + 1, line |-> line]
  OBVIOUS
<1>4. j \in Jobs
  BY <1>1, <1>2, <1>3, RunOK DEF Jobs
<1>5. job' = [job EXCEPT ![p] = j] /\ pc' = [pc EXCEPT ![p] = FirstCall[op]]
  BY <1>1, <1>2, <1>3 DEF Begin, Goto, Entry
<1>6. /\ op = "MKDIR" => j.arg \in MkdirArgs
      /\ op \in {"MKDIR", "DELETE"} => AsTyped(j)
  BY <1>1, <1>3, RunOK DEF AsTyped
<1> QED
  BY <1>1, <1>2, <1>3, <1>4, <1>5, <1>6 DEF Begin

(* A process that ends leaves the types of its own state alone.            *)
LEMMA LeaveType ==
    ASSUME TypeInv, NEW p \in Procs, Leave(p)
    PROVE  /\ pc' \in [Procs -> Labels] /\ job' \in [Procs -> Jobs]
           /\ fd' \in [Procs -> Dirs \cup {NoDir}]
           /\ \A q \in Procs : JobOK(q)'
<1> USE DEF TypeInv, TypeOK
<1>1. NoJob \in Jobs
  BY NoJobOK
<1>2. pc' = [pc EXCEPT ![p] = "idle"] /\ job' = [job EXCEPT ![p] = NoJob]
      /\ fd' = [fd EXCEPT ![p] = NoDir]
  BY DEF Leave, Goto
<1>3. \A q \in Procs : JobOK(q)'
  <2> TAKE q \in Procs
  <2>1. CASE q = p
    BY <1>2, <2>1 DEF JobOK, InstallCalls, CreatCalls
  <2>2. CASE q # p
    BY <1>2, <2>2 DEF JobOK
  <2> QED
    BY <2>1, <2>2
<1> QED
  BY <1>1, <1>2, <1>3 DEF Labels

(* A process that goes on to a call of its own command keeps the types.    *)
LEMMA GotoType ==
    ASSUME TypeInv, NEW p \in Procs, NEW label \in Labels, Goto(p, label),
           UNCHANGED job, JobOK(p)'
    PROVE  /\ pc' \in [Procs -> Labels] /\ job' \in [Procs -> Jobs]
           /\ \A q \in Procs : JobOK(q)'
<1> USE DEF TypeInv, TypeOK
<1>1. pc' = [pc EXCEPT ![p] = label]
  BY DEF Goto
<1>2. \A q \in Procs : JobOK(q)'
  BY <1>1 DEF JobOK
<1> QED
  BY <1>1, <1>2

(* The log a command opens is that of a directory.                         *)
LEMMA LogDirType ==
    ASSUME TypeOK, NEW d \in Dirs
    PROVE  LogDir(d) \in Dirs
<1>1. ({d, Parent[d]} \cap repos) \subseteq Dirs
  BY ConstantsOK DEF TypeOK, NoDir, ReposPath
<1> QED
  BY <1>1 DEF LogDir

(* Each call keeps the types, and the call counter of its process.         *)
LEMMA TypeStep == TypeInv /\ [Next]_vars => TypeInv'
<1> SUFFICES ASSUME TypeInv, [Next]_vars PROVE TypeInv'
  OBVIOUS
<1> USE ConstantsOK DEF history, fsVars
<1>0. /\ TypeOK /\ \A p \in Procs : JobOK(p)
      /\ \A j \in ended : j.dir \in Dirs
  BY DEF TypeInv
<1>1. ASSUME NEW p \in Procs, NEW line \in TypedLines, NEW d \in Dirs, Begin(p, line, d)
      PROVE  TypeInv'
  <2>0. PICK op \in Ops, j \in Jobs :
          /\ j.op = op /\ j.dir = d /\ count' \in 1..MaxCommands
          /\ op = "MKDIR" => j.arg \in MkdirArgs
          /\ op \in {"MKDIR", "DELETE"} => AsTyped(j)
          /\ job' = [job EXCEPT ![p] = j] /\ pc' = [pc EXCEPT ![p] = FirstCall[op]]
          /\ UNCHANGED <<fsVars, fd, did, ended, meddled>>
    BY <1>0, <1>1, BeginOK
  <2>3. FirstCall[op] = (CASE op = "AINIT" -> "repos" [] op = "CREAT" -> "register"
                           [] op = "MKDIR" -> "mkdir" [] op = "DELETE" -> "remove")
    BY DEF FirstCall, Ops
  <2>4. FirstCall[op] \in Labels
    BY <2>3, InstallCallsOK DEF Labels, InstallCalls, Ops
  <2>5. RepoOf(d) \subseteq Dirs
    BY <1>0 DEF RepoOf, Created
  <2>6. inTime' \subseteq (1..MaxCommands) \X Dirs
    BY <1>0, <1>1, <2>0, <2>5 DEF Begin, TypeOK
  <2>7. \A q \in Procs : JobOK(q)'
    <3> TAKE q \in Procs
    <3>1. CASE q = p
      BY <1>0, <2>0, <2>3, <3>1 DEF JobOK, TypeOK, InstallCalls, CreatCalls, Ops
    <3>2. CASE q # p
      BY <1>0, <2>0, <3>2 DEF JobOK
    <3> QED
      BY <3>1, <3>2
  <2> QED
    BY <1>0, <2>0, <2>4, <2>6, <2>7 DEF TypeInv, TypeOK
<1>1a. ASSUME NEW p \in Procs, NEW line \in TypedLines, Idle(p, line) PROVE TypeInv'
  BY <1>0, <1>1a DEF Idle, procVars, TypeInv, TypeOK, JobOK
<1>2. ASSUME NEW p \in Procs, Fail(p) PROVE TypeInv'
  BY <1>0, <1>2, LeaveType DEF Fail, TypeInv, TypeOK
<1>3. ASSUME NEW p \in Procs, Done(p), pc[p] # "idle" PROVE
        /\ pc' \in [Procs -> Labels] /\ job' \in [Procs -> Jobs]
        /\ fd' \in [Procs -> Dirs \cup {NoDir}]
        /\ ended' \subseteq Jobs /\ \A j \in ended' : j.dir \in Dirs
        /\ \A q \in Procs : JobOK(q)'
  <2>1. job[p] \in Jobs /\ job[p].dir \in Dirs
    BY <1>0, <1>3 DEF JobOK, TypeOK
  <2> QED
    BY <1>0, <1>3, <2>1, LeaveType DEF Done, TypeInv, TypeOK
<1>4. ASSUME NEW p \in Procs, Install(p) PROVE TypeInv'
  <2>1. pc[p] \in InstallCalls
    BY <1>4, InstallCallsOK DEF Install
  <2>2. CASE Fail(p)
    BY <1>2, <2>2
  <2>3. CASE ~Fail(p)
    <3>1. /\ installed' \subseteq DOMAIN InstallNext
          /\ repos' \subseteq {ReposPath} \cup Dirs
          /\ UNCHANGED <<paths, log, count, did, inTime, meddled>>
      BY <1>0, <1>4, <2>3 DEF Install, TypeOK
    <3>2. CASE pc[p] = "passwd" /\ Done(p)
      BY <1>0, <1>3, <3>1, <3>2 DEF TypeInv, TypeOK
    <3>3. CASE pc[p] # "passwd" /\ Goto(p, InstallNext[pc[p]]) /\ UNCHANGED <<job, fd, ended>>
      <4>1. InstallNext[pc[p]] \in InstallCalls
        BY <2>1, <3>3, InstallCallsOK
      <4>2. JobOK(p)'
        BY <1>0, <2>1, <3>3, <4>1 DEF JobOK, Goto, TypeOK, InstallCalls, CreatCalls
      <4>3. InstallNext[pc[p]] \in Labels
        BY <4>1, InstallCallsOK DEF Labels
      <4>4. /\ pc' \in [Procs -> Labels] /\ job' \in [Procs -> Jobs]
            /\ \A q \in Procs : JobOK(q)'
        BY <3>3, <4>2, <4>3, GotoType
      <4> QED
        BY <1>0, <3>1, <3>3, <4>4 DEF TypeInv, TypeOK
    <3> QED
      BY <1>4, <2>3, <3>2, <3>3 DEF Install
  <2> QED
    BY <2>2, <2>3
<1>5. ASSUME NEW p \in Procs, Register(p) PROVE TypeInv'
  <2>1. CASE Fail(p)
    BY <1>2, <2>1
  <2>2. CASE Goto(p, "mkmeta") /\ repos' = {ReposPath} /\ UNCHANGED <<installed, paths,
              log, job, fd, count, history>>
    <3>1. JobOK(p)'
      BY <1>0, <1>5, <2>2 DEF Register, JobOK, Goto, TypeOK, InstallCalls, CreatCalls
    <3> QED
      BY <1>0, <2>2, <3>1, GotoType DEF TypeInv, TypeOK, Labels
  <2> QED
    BY <1>5, <2>1, <2>2 DEF Register
<1>6. ASSUME NEW p \in Procs, MakeMeta(p) PROVE TypeInv'
  <2>1. CASE Fail(p)
    BY <1>2, <2>1
  <2>2. CASE ~Fail(p)
    <3>1. /\ Goto(p, "mklog") /\ UNCHANGED <<installed, repos, log, job, fd, count, history>>
          /\ paths' = [paths EXCEPT ![job[p].dir] = @ \cup {Meta}]
      BY <1>6, <2>2 DEF MakeMeta
    <3>2. JobOK(p)'
      BY <1>0, <1>6, <3>1 DEF MakeMeta, JobOK, Goto, TypeOK, InstallCalls, CreatCalls
    <3> QED
      BY <1>0, <3>1, <3>2, GotoType DEF TypeInv, TypeOK, Labels
  <2> QED
    BY <2>1, <2>2
<1>7. ASSUME NEW p \in Procs, MakeLog(p) PROVE TypeInv'
  <2>1. CASE Fail(p)
    BY <1>2, <2>1
  <2>2. CASE ~Fail(p)
    <3>1. /\ Goto(p, "header") /\ UNCHANGED <<installed, repos, job, count, history>>
          /\ paths' = [paths EXCEPT ![job[p].dir] = @ \cup {MetaLog}]
          /\ log' = [log EXCEPT ![job[p].dir] = <<>>]
          /\ fd' = [fd EXCEPT ![p] = job[p].dir]
      BY <1>7, <2>2 DEF MakeLog
    <3>2. JobOK(p)' /\ job[p].dir \in Dirs
      BY <1>0, <1>7, <3>1 DEF MakeLog, JobOK, Goto, TypeOK, InstallCalls, CreatCalls
    <3> QED
      BY <1>0, <3>1, <3>2, GotoType DEF TypeInv, TypeOK, Labels
  <2> QED
    BY <2>1, <2>2
<1>8. ASSUME NEW p \in Procs, WriteHeader(p) PROVE TypeInv'
  <2>1. log' \in [Dirs -> Seq(LogLines)]
    <3>1. ASSUME NEW q \in Seq(LogLines)
          PROVE  <<Header>> \o SubSeq(q, 2, Len(q)) \in Seq(LogLines)
      <4>1. <<Header>> \in Seq(LogLines) /\ SubSeq(q, 2, Len(q)) \in Seq(LogLines)
        BY DEF LogLines
      <4> QED
        BY <4>1
    <3> QED
      BY <1>0, <1>8, <3>1 DEF WriteHeader, TypeOK, LogLines
  <2> QED
    BY <1>0, <1>3, <1>8, <2>1 DEF WriteHeader, TypeInv, TypeOK, LogLines
<1>9. ASSUME NEW p \in Procs, Mkdir(p) PROVE TypeInv'
  <2>1. CASE Fail(p)
    BY <1>2, <2>1
  <2>2. CASE ~Fail(p)
    <3>1. /\ Goto(p, "openlog")
          /\ paths' = [paths EXCEPT ![job[p].dir] = @ \cup {job[p].arg}]
          /\ did' = did \cup {job[p]}
          /\ UNCHANGED <<installed, repos, log, job, fd, count, ended, inTime, meddled>>
      BY <1>9, <2>2 DEF Mkdir
    <3>2. JobOK(p)' /\ job[p].arg \in MkdirArgs
      BY <1>0, <1>9, <3>1 DEF Mkdir, JobOK, Goto, TypeOK, InstallCalls, CreatCalls
    <3>3. did' \subseteq Jobs
      <4>1. job[p] \in Jobs /\ did \subseteq Jobs
        BY <1>0 DEF TypeOK
      <4> QED
        BY <3>1, <4>1
    <3>4. paths' \in [Dirs -> SUBSET (MkdirArgs \cup DeleteArgs \cup {Meta, MetaLog})]
      BY <1>0, <3>1, <3>2 DEF TypeOK
    <3>5. /\ pc' \in [Procs -> Labels] /\ job' \in [Procs -> Jobs]
          /\ \A q \in Procs : JobOK(q)'
      BY <3>1, <3>2, GotoType DEF Labels
    <3> QED
      BY <1>0, <3>1, <3>3, <3>4, <3>5 DEF TypeInv, TypeOK
  <2> QED
    BY <2>1, <2>2
<1>10. ASSUME NEW p \in Procs, Remove(p) PROVE TypeInv'
  <2>1. CASE Fail(p)
    BY <1>2, <2>1
  <2>2. CASE ~Fail(p)
    <3>1. /\ Goto(p, "openlog")
          /\ paths' = [paths EXCEPT ![job[p].dir] = @ \ {job[p].arg}]
          /\ did' = did \cup {job[p]}
          /\ UNCHANGED <<installed, repos, job, count, ended, inTime>>
      BY <1>10, <2>2 DEF Remove
    <3>2. JobOK(p)' /\ job[p].dir \in Dirs
      BY <1>0, <1>10, <3>1 DEF Remove, JobOK, Goto, TypeOK, InstallCalls, CreatCalls
    <3>3. /\ log' \in [Dirs -> Seq(LogLines)]
          /\ fd' \in [Procs -> Dirs \cup {NoDir}] /\ meddled' \subseteq Dirs
      <4>1. /\ log' \in [Dirs -> Seq(LogLines)]
            /\ fd' \in [Procs -> Dirs \cup {NoDir}]
        <5>1. CASE job[p].arg = MetaLog
          <6>1. /\ log' = [log EXCEPT ![job[p].dir] = <<>>]
                /\ fd' = [q \in Procs |-> IF fd[q] = job[p].dir THEN NoDir ELSE fd[q]]
            BY <1>10, <2>2, <5>1 DEF Remove
          <6>2. <<>> \in Seq(LogLines)
            OBVIOUS
          <6> QED
            BY <1>0, <3>2, <6>1, <6>2 DEF TypeOK, LogLines
        <5>2. CASE job[p].arg # MetaLog
          BY <1>0, <1>10, <2>2, <5>2 DEF Remove, TypeOK, LogLines
        <5> QED
          BY <5>1, <5>2
      <4>2. meddled' = meddled \/ meddled' = meddled \cup {job[p].dir}
        BY <1>10, <2>2 DEF Remove
      <4> QED
        BY <1>0, <3>2, <4>1, <4>2 DEF TypeOK
    <3>4. /\ pc' \in [Procs -> Labels] /\ job' \in [Procs -> Jobs]
          /\ \A q \in Procs : JobOK(q)'
      BY <3>1, <3>2, GotoType DEF Labels
    <3> QED
      BY <1>0, <3>1, <3>3, <3>4 DEF TypeInv, TypeOK, LogLines
  <2> QED
    BY <2>1, <2>2
<1>11. ASSUME NEW p \in Procs, OpenLog(p) PROVE TypeInv'
  <2>1. CASE Fail(p)
    BY <1>2, <2>1
  <2>2. CASE ~Fail(p)
    <3> DEFINE d == LogDir(job[p].dir)
    <3>1. job[p].dir \in Dirs
      BY <1>0, <1>11 DEF OpenLog, JobOK
    <3>2. d \in Dirs
      BY <1>0, <3>1, LogDirType
    <3>3. /\ Goto(p, "append")
          /\ paths' = [paths EXCEPT ![d] = @ \cup {MetaLog}]
          /\ fd' = [fd EXCEPT ![p] = d]
          /\ UNCHANGED <<installed, repos, log, job, count, history>>
      BY <1>11, <2>2 DEF OpenLog
    <3> HIDE DEF d
    <3>4. JobOK(p)'
      BY <1>0, <1>11, <3>3 DEF OpenLog, JobOK, Goto, TypeOK, InstallCalls, CreatCalls
    <3> QED
      BY <1>0, <3>2, <3>3, <3>4, GotoType DEF TypeInv, TypeOK, Labels
  <2> QED
    BY <2>1, <2>2
<1>12. ASSUME NEW p \in Procs, AppendLine(p) PROVE TypeInv'
  <2>1. job[p] \in LogLines
    BY <1>0, <1>12 DEF AppendLine, JobOK, TypeOK, LogLines
  <2>2. log' \in [Dirs -> Seq(LogLines)]
    <3>1. \A q \in Seq(LogLines) : Append(q, job[p]) \in Seq(LogLines)
      BY <2>1
    <3> QED
      BY <1>0, <1>12, <3>1 DEF AppendLine, TypeOK, LogLines
  <2> QED
    BY <1>0, <1>3, <1>12, <2>2 DEF AppendLine, TypeInv, TypeOK, LogLines
<1>13. CASE UNCHANGED vars
  BY <1>0, <1>13 DEF vars, procVars, TypeInv, TypeOK, JobOK
<1> QED
  BY <1>1, <1>1a, <1>2, <1>4, <1>5, <1>6, <1>7, <1>8, <1>9, <1>10, <1>11, <1>12, <1>13
  DEF Next, Crash, Terminating

(* The empty machine has its types.                                        *)
LEMMA InitType == Init => TypeInv
<1> SUFFICES ASSUME Init PROVE TypeInv
  OBVIOUS
<1>1. NoJob \in Jobs
  BY NoJobOK
<1> QED
  BY <1>1, ConstantsOK
  DEF Init, TypeInv, TypeOK, JobOK, Labels, InstallCalls, CreatCalls

(* Every reachable state has its types.                                    *)
THEOREM RepositoryTypeCorrect == Spec => []TypeOK
<1>1. Init => TypeInv
  BY InitType
<1>2. TypeInv /\ [Next]_vars => TypeInv'
  BY TypeStep
<1>3. TypeInv => TypeOK
  BY DEF TypeInv
<1> QED
  BY <1>1, <1>2, <1>3, PTL DEF Spec

-----------------------------------------------------------------------------
(* What a log says was done: a process comes to the log only behind a call *)
(* that succeeded.                                                         *)
DoneFirst ==
    /\ \A p \in Procs : pc[p] \in {"openlog", "append"} => job[p] \in did
    /\ LoggedWasDone

LogSeq(q) ==
    \A k \in 1..Len(q) : q[k] \in did \cup {Header} /\ (q[k] = Header \/ AsTyped(q[k]))

(* Over one call, the logs hold what they held, with a line that was done  *)
(* added, a header written, or nothing left.                               *)
LEMMA DoneFirstStep == TypeInv /\ DoneFirst /\ [Next]_vars => DoneFirst'
<1> SUFFICES ASSUME TypeInv, DoneFirst, [Next]_vars PROVE DoneFirst'
  OBVIOUS
<1> USE DEF history, fsVars
<1>0. TypeOK /\ \A p \in Procs : JobOK(p)
  BY DEF TypeInv
<1>a. \A d \in Dirs : LogSeq(log[d]) /\ log[d] \in Seq(LogLines)
  BY <1>0 DEF DoneFirst, LoggedWasDone, LogSeq, TypeOK, LogLines
<1>b. ASSUME did \subseteq did', \A d \in Dirs : LogSeq(log'[d])
      PROVE  LoggedWasDone'
  BY <1>b DEF LoggedWasDone, LogSeq
<1>c. LogSeq(<<>>)
  BY DEF LogSeq
<1>d. ASSUME NEW p \in Procs, Leave(p), did' = did
      PROVE  \A q \in Procs : pc'[q] \in {"openlog", "append"} => job'[q] \in did'
  BY <1>0, <1>d DEF Leave, Goto, DoneFirst, TypeOK
<1>e. ASSUME NEW p \in Procs, Fail(p) PROVE DoneFirst'
  BY <1>a, <1>b, <1>d, <1>e DEF Fail, DoneFirst
<1>1. ASSUME NEW p \in Procs, NEW line \in TypedLines, NEW d \in Dirs, Begin(p, line, d)
      PROVE  DoneFirst'
  <2>1. PICK op \in Ops, j \in Jobs :
          /\ job' = [job EXCEPT ![p] = j] /\ pc' = [pc EXCEPT ![p] = FirstCall[op]]
          /\ UNCHANGED <<log, did>>
    BY <1>0, <1>1, BeginOK
  <2>2. FirstCall[op] \notin {"openlog", "append"}
    BY DEF FirstCall, Ops
  <2> QED
    BY <1>0, <1>a, <1>b, <2>1, <2>2 DEF DoneFirst, TypeOK
<1>1a. ASSUME NEW p \in Procs, NEW line \in TypedLines, Idle(p, line) PROVE DoneFirst'
  BY <1>a, <1>b, <1>1a DEF Idle, procVars, DoneFirst
<1>2. ASSUME NEW p \in Procs, Install(p) \/ Register(p) PROVE DoneFirst'
  <2>1. CASE Fail(p)
    BY <1>e, <2>1
  <2>2. CASE Leave(p) /\ UNCHANGED <<log, did>>
    BY <1>a, <1>b, <1>d, <2>2 DEF DoneFirst
  <2>3. CASE /\ \E c \in InstallCalls \cup {"mkmeta"} : Goto(p, c)
             /\ UNCHANGED <<log, job, did>>
    BY <1>0, <1>a, <1>b, <2>3 DEF Goto, DoneFirst, TypeOK, InstallCalls
  <2>4. pc[p] \in InstallCalls /\ pc[p] # "passwd" => InstallNext[pc[p]] \in InstallCalls
    BY InstallCallsOK
  <2> QED
    BY <1>2, <2>1, <2>2, <2>3, <2>4, InstallCallsOK DEF Install, Register, Done
<1>3. ASSUME NEW p \in Procs, MakeMeta(p) \/ MakeLog(p) PROVE DoneFirst'
  <2>1. CASE Fail(p)
    BY <1>e, <2>1
  <2>2. CASE ~Fail(p)
    <3>1. /\ Goto(p, "mklog") \/ Goto(p, "header")
          /\ log' = log \/ log' = [log EXCEPT ![job[p].dir] = <<>>]
          /\ UNCHANGED <<job, did>>
      BY <1>3, <2>2 DEF MakeMeta, MakeLog
    <3>2. \A d \in Dirs : LogSeq(log'[d])
      BY <1>0, <1>a, <1>c, <3>1 DEF TypeOK
    <3> QED
      BY <1>0, <1>b, <3>1, <3>2 DEF Goto, DoneFirst, TypeOK
  <2> QED
    BY <2>1, <2>2
<1>4. ASSUME NEW p \in Procs, WriteHeader(p) PROVE DoneFirst'
  <2>1. ASSUME NEW q \in Seq(LogLines), LogSeq(q)
        PROVE  LogSeq(<<Header>> \o SubSeq(q, 2, Len(q)))
    BY <2>1 DEF LogSeq, LogLines
  <2>2. \A d \in Dirs : LogSeq(log'[d])
    BY <1>0, <1>4, <1>a, <2>1 DEF WriteHeader, TypeOK
  <2> QED
    BY <1>4, <1>b, <1>d, <2>2 DEF WriteHeader, Done, DoneFirst
<1>5. ASSUME NEW p \in Procs, Mkdir(p) \/ Remove(p) PROVE DoneFirst'
  <2>1. CASE Fail(p)
    BY <1>e, <2>1
  <2>2. CASE ~Fail(p)
    <3>1. /\ Goto(p, "openlog") /\ did' = did \cup {job[p]} /\ job' = job
          /\ log' = log \/ log' = [log EXCEPT ![job[p].dir] = <<>>]
      BY <1>5, <2>2 DEF Mkdir, Remove
    <3>2. \A d \in Dirs : LogSeq(log'[d])
      BY <1>0, <1>a, <1>c, <3>1 DEF TypeOK
    <3> QED
      BY <1>0, <1>b, <3>1, <3>2 DEF Goto, DoneFirst, TypeOK
  <2> QED
    BY <2>1, <2>2
<1>6. ASSUME NEW p \in Procs, OpenLog(p) PROVE DoneFirst'
  <2>1. CASE Fail(p)
    BY <1>e, <2>1
  <2>2. CASE ~Fail(p)
    <3>1. Goto(p, "append") /\ pc[p] = "openlog" /\ UNCHANGED <<log, job, did>>
      BY <1>6, <2>2 DEF OpenLog
    <3> QED
      BY <1>0, <1>a, <1>b, <3>1 DEF Goto, DoneFirst, TypeOK
  <2> QED
    BY <2>1, <2>2
<1>7. ASSUME NEW p \in Procs, AppendLine(p) PROVE DoneFirst'
  <2>1. job[p] \in did /\ job[p] \in LogLines /\ AsTyped(job[p])
    BY <1>0, <1>7 DEF AppendLine, DoneFirst, JobOK, TypeOK, LogLines
  <2>2. ASSUME NEW q \in Seq(LogLines), LogSeq(q) PROVE LogSeq(Append(q, job[p]))
    BY <2>1, <2>2 DEF LogSeq
  <2>3. \A d \in Dirs : LogSeq(log'[d])
    BY <1>0, <1>7, <1>a, <2>2 DEF AppendLine, TypeOK
  <2> QED
    BY <1>7, <1>b, <1>d, <2>3 DEF AppendLine, Done, DoneFirst
<1>8. CASE UNCHANGED vars
  BY <1>8 DEF vars, procVars, DoneFirst, LoggedWasDone
<1> QED
  BY <1>1, <1>1a, <1>2, <1>3, <1>4, <1>5, <1>6, <1>7, <1>8, <1>e DEF Next, Crash, Terminating

(* No log ever tells of a MKDIR or DELETE that was not made, whatever      *)
(* commands run side by side and whatever is killed.                       *)
THEOREM LogTellsTheTruth == Spec => []LoggedWasDone
<1>1. Init => TypeInv /\ DoneFirst
  BY InitType DEF Init, DoneFirst, LoggedWasDone
<1>2. (TypeInv /\ DoneFirst) /\ [Next]_vars => (TypeInv /\ DoneFirst)'
  BY TypeStep, DoneFirstStep
<1>3. TypeInv /\ DoneFirst => LoggedWasDone
  BY DEF DoneFirst
<1> QED
  BY <1>1, <1>2, <1>3, PTL DEF Spec

-----------------------------------------------------------------------------
(* Why a log survives the CREATs that come after it: mkdir lets one CREAT  *)
(* through in each directory, and none once .asvn is there, so a process   *)
(* that may empty d's log or write its header is alone and ahead of the    *)
(* CREAT that ends.  Only a DELETE of .asvn or the log lets another in.    *)
Making(p, d) == pc[p] \in {"mklog", "header"} /\ job[p].dir = d
LogInv(d) ==
    /\ \A p \in Procs : Making(p, d) => Meta \in paths[d] /\ ~Created(d)
    /\ \A p, q \in Procs : Making(p, d) /\ Making(q, d) => p = q
    /\ \A p \in Procs : pc[p] = "header" /\ job[p].dir = d =>
                          fd[p] = d /\ MetaLog \in paths[d]
    /\ Created(d) => {Meta, MetaLog} \subseteq paths[d] /\ log[d] # <<>> /\ log[d][1] = Header
FdOK == \A p \in Procs : pc[p] = "header" => fd[p] \in {job[p].dir, NoDir}
LogsSafe == FdOK /\ \A d \in Dirs \ meddled : LogInv(d)

Grows(d) == Len(log'[d]) >= Len(log[d]) /\ SubSeq(log'[d], 1, Len(log[d])) = log[d]

(* d keeps what it has if no process starts to make its log, and d loses   *)
(* neither path nor line.                                                  *)
Calm(d) ==
    /\ \A p \in Procs : Making(p, d)' => Making(p, d)
    /\ \A p \in Procs : pc'[p] = "header" => pc[p] = "header" /\ job'[p] = job[p]
                                            /\ (fd[p] = d => fd'[p] = d)
    /\ Created(d)' => Created(d)
    /\ {Meta, MetaLog} \cap paths[d] \subseteq paths'[d]
    /\ Grows(d)

LEMMA CalmKeeps ==
    ASSUME TypeInv, TypeInv', NEW d \in Dirs, LogInv(d), Calm(d)
    PROVE  LogInv(d)'
<1>1. \A p \in Procs : Making(p, d)' => Making(p, d)
  BY DEF Calm
<1>2. \A p \in Procs : Making(p, d)' => Meta \in paths'[d] /\ ~Created(d)'
  BY <1>1 DEF Calm, LogInv
<1>3. \A p, q \in Procs : Making(p, d)' /\ Making(q, d)' => p = q
  BY <1>1 DEF LogInv
<1>4. \A p \in Procs : pc'[p] = "header" /\ job'[p].dir = d =>
                        fd'[p] = d /\ MetaLog \in paths'[d]
  BY DEF Calm, LogInv
<1>5. Created(d)' => /\ {Meta, MetaLog} \subseteq paths'[d]
                     /\ log'[d] # <<>> /\ log'[d][1] = Header
  <2> SUFFICES ASSUME Created(d)'
               PROVE  /\ {Meta, MetaLog} \subseteq paths'[d]
                      /\ log'[d] # <<>> /\ log'[d][1] = Header
    OBVIOUS
  <2>1. /\ {Meta, MetaLog} \subseteq paths[d] /\ log[d] # <<>> /\ log[d][1] = Header
    BY DEF Calm, LogInv
  <2>2. log[d] \in Seq(LogLines) /\ log'[d] \in Seq(LogLines)
    BY DEF TypeInv, TypeOK, LogLines
  <2>3. log'[d] # <<>> /\ log'[d][1] = log[d][1]
    <3> DEFINE l == log[d]
               m == log'[d]
    <3>1. l \in Seq(LogLines) /\ m \in Seq(LogLines) /\ Len(l) >= 1
      BY <2>1, <2>2
    <3>2. Len(m) >= Len(l) /\ SubSeq(m, 1, Len(l)) = l
      BY DEF Calm, Grows
    <3> HIDE DEF l, m
    <3>3. m # <<>> /\ SubSeq(m, 1, Len(l))[1] = m[1]
      BY <3>1, <3>2
    <3> QED
      BY <3>2, <3>3 DEF l, m
  <2> QED
    BY <2>1, <2>3 DEF Calm
<1> QED
  BY <1>2, <1>3, <1>4, <1>5 DEF LogInv

(* No process comes to make a log, and one that does keeps its handle      *)
(* unless the file is taken away.                                          *)
Quiet ==
    \A q \in Procs : pc'[q] \in {"mklog", "header"} =>
        /\ pc'[q] = pc[q] /\ job'[q] = job[q]
        /\ fd'[q] = fd[q] \/ (fd'[q] = NoDir /\ fd[q] \in meddled')
Keeps ==
    /\ FdOK' /\ meddled \subseteq meddled'
    /\ \A d \in Dirs \ meddled' : LogInv(d)' /\ (Created(d) => Grows(d))

LEMMA QuietKeeps ==
    ASSUME TypeInv, TypeInv', LogsSafe, Quiet, meddled \subseteq meddled',
           \A d \in Dirs \ meddled' :
             /\ Created(d)' => Created(d)
             /\ {Meta, MetaLog} \cap paths[d] \subseteq paths'[d]
             /\ Grows(d)
    PROVE  Keeps
<1>1. FdOK'
  BY DEF Quiet, LogsSafe, FdOK
<1>2. ASSUME NEW d \in Dirs \ meddled' PROVE Calm(d) /\ LogInv(d)
  BY <1>2 DEF Quiet, Calm, Making, LogsSafe
<1> QED
  BY <1>1, <1>2, CalmKeeps DEF Keeps

LEMMA LogsStep == TypeInv /\ TypeInv' /\ LogsSafe /\ [Next]_vars => Keeps
<1> SUFFICES ASSUME TypeInv, TypeInv', LogsSafe, [Next]_vars PROVE Keeps
  OBVIOUS
<1> USE DEF history, fsVars
<1>0. TypeOK /\ \A p \in Procs : JobOK(p)
  BY DEF TypeInv
<1>a. ASSUME NEW d \in Dirs, log'[d] = log[d] PROVE Grows(d)
  <2>1. log[d] \in Seq(LogLines)
    BY <1>0 DEF TypeOK, LogLines
  <2> QED
    BY <1>a, <2>1 DEF Grows
<1>b. ASSUME NEW p \in Procs, Leave(p) PROVE Quiet
  BY <1>0, <1>b DEF Leave, Goto, Quiet, TypeOK
<1>c. ASSUME NEW p \in Procs, NEW c \in Labels \ {"mklog", "header"}, Goto(p, c),
             \A q \in Procs \ {p} : job'[q] = job[q] /\ fd'[q] = fd[q]
      PROVE  Quiet
  BY <1>0, <1>c DEF Goto, Quiet, TypeOK
<1>d. ASSUME UNCHANGED <<paths, log, meddled>>, Quiet,
             \A d \in Dirs : Created(d)' => Created(d)
      PROVE  Keeps
  BY <1>a, <1>d, QuietKeeps
<1>e. ASSUME NEW p \in Procs, Done(p), job[p].op # "CREAT", NEW d \in Dirs
      PROVE  Created(d)' => Created(d)
  BY <1>e DEF Done, Created
<1>f. ASSUME NEW p \in Procs, Fail(p) PROVE Keeps
  BY <1>b, <1>d, <1>f DEF Fail, Created
<1>1. ASSUME NEW p \in Procs, NEW line \in TypedLines, NEW e \in Dirs, Begin(p, line, e)
      PROVE  Keeps
  <2>1. PICK op \in Ops, j \in Jobs :
          /\ job' = [job EXCEPT ![p] = j] /\ pc' = [pc EXCEPT ![p] = FirstCall[op]]
          /\ UNCHANGED <<fsVars, fd, ended, meddled>>
    BY <1>0, <1>1, BeginOK
  <2>2. FirstCall[op] \in Labels \ {"mklog", "header"}
    BY InstallCallsOK DEF FirstCall, Labels, InstallCalls, Ops
  <2>3. Quiet
    BY <1>0, <1>c, <2>1, <2>2 DEF Goto, TypeOK
  <2> QED
    BY <1>d, <2>1, <2>3 DEF Created
<1>1a. ASSUME NEW p \in Procs, NEW line \in TypedLines, Idle(p, line) PROVE Keeps
  BY <1>d, <1>1a DEF Idle, procVars, Quiet, Created
<1>2. ASSUME NEW p \in Procs, Install(p) PROVE Keeps
  <2>1. CASE Fail(p)
    BY <1>f, <2>1
  <2>2. CASE Done(p) /\ UNCHANGED <<paths, log, meddled>>
    <3>1. job[p].op # "CREAT"
      BY <1>0, <1>2, InstallCallsOK DEF Install, JobOK
    <3> QED
      BY <1>b, <1>d, <1>e, <2>2, <3>1 DEF Done
  <2>3. CASE /\ \E c \in InstallCalls : Goto(p, c)
             /\ UNCHANGED <<job, fd, ended, paths, log, meddled>>
    <3>1. InstallCalls \subseteq Labels \ {"mklog", "header"}
      BY InstallCallsOK DEF InstallCalls, Labels
    <3>2. Quiet
      BY <1>c, <2>3, <3>1
    <3> QED
      BY <1>d, <2>3, <3>2 DEF Created
  <2> QED
    BY <1>2, <2>1, <2>2, <2>3, InstallCallsOK DEF Install
<1>3. ASSUME NEW p \in Procs, Register(p) PROVE Keeps
  <2>1. CASE Fail(p)
    BY <1>f, <2>1
  <2>2. CASE Goto(p, "mkmeta") /\ UNCHANGED <<job, fd, ended, paths, log, meddled>>
    BY <1>c, <1>d, <2>2 DEF Labels, Created
  <2> QED
    BY <1>3, <2>1, <2>2 DEF Register
<1>4. ASSUME NEW p \in Procs, Mkdir(p) PROVE Keeps
  <2>1. CASE Fail(p)
    BY <1>f, <2>1
  <2>2. CASE ~Fail(p)
    <3>1. /\ Goto(p, "openlog") /\ UNCHANGED <<job, fd, ended, log, meddled>>
          /\ paths' = [paths EXCEPT ![job[p].dir] = @ \cup {job[p].arg}]
      BY <1>4, <2>2 DEF Mkdir
    <3>2. Quiet
      BY <1>c, <3>1 DEF Labels
    <3>3. \A d \in Dirs : paths[d] \subseteq paths'[d]
      BY <1>0, <3>1 DEF TypeOK
    <3> QED
      BY <1>a, <3>1, <3>2, <3>3, QuietKeeps DEF Created
  <2> QED
    BY <2>1, <2>2
<1>5. ASSUME NEW p \in Procs, OpenLog(p) PROVE Keeps
  <2>1. CASE Fail(p)
    BY <1>f, <2>1
  <2>2. CASE ~Fail(p)
    <3> DEFINE e == LogDir(job[p].dir)
    <3>1. /\ Goto(p, "append") /\ UNCHANGED <<job, ended, log, meddled>>
          /\ paths' = [paths EXCEPT ![e] = @ \cup {MetaLog}] /\ fd' = [fd EXCEPT ![p] = e]
      BY <1>5, <2>2 DEF OpenLog
    <3> HIDE DEF e
    <3>2. Quiet
      BY <1>0, <1>c, <3>1 DEF Labels, TypeOK
    <3>3. \A d \in Dirs : paths[d] \subseteq paths'[d]
      BY <1>0, <3>1 DEF TypeOK
    <3> QED
      BY <1>a, <3>1, <3>2, <3>3, QuietKeeps DEF Created
  <2> QED
    BY <2>1, <2>2
<1>6. ASSUME NEW p \in Procs, Remove(p) PROVE Keeps
  <2>1. CASE Fail(p)
    BY <1>f, <2>1
  <2>2. CASE ~Fail(p)
    <3> DEFINE e == job[p].dir
               arg == job[p].arg
    <3>1. /\ Goto(p, "openlog") /\ UNCHANGED <<job, ended>> /\ e \in Dirs
          /\ paths' = [paths EXCEPT ![e] = @ \ {arg}]
          /\ meddled' = IF arg \in {Meta, MetaLog} THEN meddled \cup {e} ELSE meddled
          /\ \/ /\ arg = MetaLog /\ log' = [log EXCEPT ![e] = <<>>]
                /\ fd' = [q \in Procs |-> IF fd[q] = e THEN NoDir ELSE fd[q]]
             \/ UNCHANGED <<log, fd>>
      BY <1>0, <1>6, <2>2 DEF Remove, JobOK
    <3> HIDE DEF e, arg
    <3>2. meddled \subseteq meddled' /\ (arg = MetaLog => e \in meddled')
      BY <3>1
    <3>3. pc' = [pc EXCEPT ![p] = "openlog"]
      BY <3>1 DEF Goto
    <3>4. Quiet
      BY <1>0, <3>1, <3>2, <3>3 DEF Quiet, TypeOK
    <3>5. ASSUME NEW d \in Dirs \ meddled'
          PROVE  {Meta, MetaLog} \cap paths[d] \subseteq paths'[d] /\ log'[d] = log[d]
      BY <1>0, <3>1, <3>5 DEF TypeOK
    <3> QED
      BY <1>a, <3>1, <3>2, <3>4, <3>5, QuietKeeps DEF Created
  <2> QED
    BY <2>1, <2>2
<1>7. ASSUME NEW p \in Procs, AppendLine(p) PROVE Keeps
  <2>1. /\ Done(p) /\ job[p].op # "CREAT" /\ UNCHANGED <<paths, meddled>>
        /\ job[p] \in LogLines
    BY <1>0, <1>7 DEF AppendLine, JobOK, TypeOK, LogLines
  <2>2. Quiet
    BY <1>b, <2>1 DEF Done
  <2>3. ASSUME NEW d \in Dirs PROVE Grows(d)
    <3>1. log[d] \in Seq(LogLines)
      BY <1>0 DEF TypeOK, LogLines
    <3>2. CASE log'[d] = log[d]
      BY <1>a, <3>2
    <3>3. CASE log'[d] = Append(log[d], job[p])
      BY <2>1, <3>1, <3>3 DEF Grows
    <3>4. log'[d] = log[d] \/ log'[d] = Append(log[d], job[p])
      BY <1>0, <1>7 DEF AppendLine, TypeOK
    <3> QED
      BY <3>2, <3>3, <3>4
  <2> QED
    BY <1>e, <2>1, <2>2, <2>3, QuietKeeps
<1>8. ASSUME NEW p \in Procs, MakeMeta(p) PROVE Keeps
  <2>1. CASE Fail(p)
    BY <1>f, <2>1
  <2>2. CASE ~Fail(p)
    <3>0. PICK e \in Dirs : e = job[p].dir
      BY <1>0, <1>8 DEF MakeMeta, JobOK
    <3>1. /\ pc' = [pc EXCEPT ![p] = "mklog"] /\ Meta \notin paths[e]
          /\ paths' = [paths EXCEPT ![e] = @ \cup {Meta}]
          /\ UNCHANGED <<log, job, fd, ended, meddled>>
      BY <1>8, <2>2, <3>0 DEF MakeMeta, Goto
    <3>2. FdOK'
      BY <1>0, <3>0, <3>1 DEF LogsSafe, FdOK, TypeOK
    <3>3. ASSUME NEW d \in Dirs \ meddled, d # e PROVE LogInv(d)'
      <4>1. \A q \in Procs : Making(q, d)' => Making(q, d)
        BY <1>0, <3>0, <3>1, <3>3 DEF Making, TypeOK
      <4>2. Calm(d)
        BY <1>0, <1>a, <3>1, <3>3, <4>1 DEF Calm, Created, TypeOK
      <4> QED
        BY <3>3, <4>2, CalmKeeps DEF LogsSafe
    <3>4. CASE e \notin meddled
      <4>1. LogInv(e)
        BY <3>1, <3>4 DEF LogsSafe
      <4>2. ~Created(e) /\ \A q \in Procs : ~Making(q, e)
        BY <3>1, <4>1 DEF LogInv
      <4>3. \A q \in Procs : Making(q, e)' => q = p /\ pc'[q] # "header"
        BY <1>0, <3>1, <4>2 DEF Making, TypeOK
      <4>4. Meta \in paths'[e] /\ ~Created(e)'
        BY <1>0, <3>1, <4>2 DEF Created, TypeOK
      <4> QED
        <5>1. LogInv(e)'
          BY <4>3, <4>4 DEF LogInv, Making
        <5> QED
          BY <1>a, <3>1, <3>2, <3>3, <5>1 DEF Keeps
    <3>5. CASE e \in meddled
      BY <1>a, <3>1, <3>2, <3>3, <3>5 DEF Keeps
    <3> QED
      BY <3>4, <3>5
  <2> QED
    BY <2>1, <2>2
<1>9. ASSUME NEW p \in Procs, MakeLog(p) PROVE Keeps
  <2>1. CASE Fail(p)
    BY <1>f, <2>1
  <2>2. CASE ~Fail(p)
    <3>0. PICK e \in Dirs : e = job[p].dir
      BY <1>0, <1>9 DEF MakeLog, JobOK
    <3>1. /\ pc[p] = "mklog" /\ pc' = [pc EXCEPT ![p] = "header"]
          /\ paths' = [paths EXCEPT ![e] = @ \cup {MetaLog}]
          /\ log' = [log EXCEPT ![e] = <<>>] /\ fd' = [fd EXCEPT ![p] = e]
          /\ UNCHANGED <<job, ended, meddled>>
      BY <1>9, <2>2, <3>0 DEF MakeLog, Goto
    <3>2. FdOK'
      BY <1>0, <3>0, <3>1 DEF LogsSafe, FdOK, TypeOK
    <3>3. ASSUME NEW d \in Dirs \ meddled, d # e PROVE LogInv(d)' /\ Grows(d)
      <4>1. \A q \in Procs : Making(q, d)' => Making(q, d)
        BY <1>0, <3>0, <3>1, <3>3 DEF Making, TypeOK
      <4>2. \A q \in Procs : pc'[q] = "header" /\ job'[q].dir = d =>
                              pc[q] = "header" /\ fd'[q] = fd[q]
        BY <1>0, <3>0, <3>1, <3>3 DEF TypeOK
      <4>3. Grows(d) /\ paths'[d] = paths[d] /\ (Created(d)' <=> Created(d)) /\ log'[d] = log[d]
        BY <1>0, <1>a, <3>1, <3>3 DEF Created, TypeOK
      <4>4. LogInv(d)
        BY <3>3 DEF LogsSafe
      <4> QED
        BY <3>1, <4>1, <4>2, <4>3, <4>4 DEF LogInv
    <3>4. CASE e \notin meddled
      <4>1. LogInv(e) /\ Making(p, e)
        BY <3>0, <3>1, <3>4 DEF LogsSafe, Making
      <4>2. ~Created(e) /\ Meta \in paths[e] /\ \A q \in Procs : Making(q, e) => q = p
        BY <4>1 DEF LogInv
      <4>3. \A q \in Procs : Making(q, e)' => q = p
        BY <1>0, <3>1, <4>1, <4>2 DEF Making, TypeOK
      <4>4. {Meta, MetaLog} \subseteq paths'[e] /\ ~Created(e)' /\ fd'[p] = e
        BY <1>0, <3>1, <4>2 DEF Created, TypeOK
      <4>5. LogInv(e)'
        BY <4>3, <4>4 DEF LogInv, Making
      <4> QED
        BY <3>1, <3>2, <3>3, <4>2, <4>5 DEF Keeps
    <3>5. CASE e \in meddled
      BY <3>1, <3>2, <3>3, <3>5 DEF Keeps
    <3> QED
      BY <3>4, <3>5
  <2> QED
    BY <2>1, <2>2
<1>10. ASSUME NEW p \in Procs, WriteHeader(p) PROVE Keeps
  <2>0. PICK e \in Dirs : e = job[p].dir
    BY <1>0, <1>10 DEF WriteHeader, JobOK
  <2>1. /\ pc[p] = "header" /\ Done(p) /\ fd[p] \in {e, NoDir}
        /\ log' = IF fd[p] = NoDir THEN log
                  ELSE [log EXCEPT ![e] = <<Header>> \o SubSeq(@, 2, Len(@))]
        /\ UNCHANGED <<paths, meddled>>
    BY <1>10, <2>0 DEF WriteHeader, LogsSafe, FdOK
  <2>2. Quiet
    BY <1>b, <2>1 DEF Done
  <2>3. FdOK'
    BY <2>2 DEF Quiet, LogsSafe, FdOK
  <2>4. ASSUME NEW d \in Dirs \ meddled, d # e PROVE LogInv(d)' /\ Grows(d)
    <3>1. log'[d] = log[d] /\ Grows(d)
      BY <1>0, <1>a, <2>1, <2>4 DEF TypeOK
    <3>2. Created(d)' => Created(d)
      BY <2>0, <2>1, <2>4 DEF Done, Created
    <3>3. Calm(d)
      BY <2>1, <2>2, <2>4, <3>1, <3>2 DEF Quiet, Calm, Making
    <3> QED
      BY <2>4, <3>1, <3>3, CalmKeeps DEF LogsSafe
  <2>5. CASE e \notin meddled
    <3>1. LogInv(e) /\ Making(p, e)
      BY <2>0, <2>1, <2>5 DEF LogsSafe, Making
    <3>2. /\ ~Created(e) /\ {Meta, MetaLog} \subseteq paths[e] /\ fd[p] = e
          /\ \A q \in Procs : Making(q, e) => q = p
      BY <2>0, <2>1, <3>1 DEF LogInv
    <3>3. \A q \in Procs : ~Making(q, e)'
      <4>1. pc'[p] = "idle"
        BY <1>0, <2>1 DEF Done, Leave, Goto, TypeOK
      <4>2. \A q \in Procs : Making(q, e)' => Making(q, e)
        BY <2>2 DEF Quiet, Making
      <4> QED
        BY <3>2, <4>1, <4>2 DEF Making
    <3>4. log'[e] # <<>> /\ log'[e][1] = Header
      <4>1. log'[e] = <<Header>> \o SubSeq(log[e], 2, Len(log[e]))
        BY <1>0, <2>1, <3>2, ConstantsOK DEF TypeOK
      <4>2. log[e] \in Seq(LogLines)
        BY <1>0, <2>1 DEF TypeOK, LogLines
      <4>3. SubSeq(log[e], 2, Len(log[e])) \in Seq(LogLines) /\ Header \in LogLines
        BY <4>2 DEF LogLines
      <4> QED
        BY <4>1, <4>3
    <3>5. LogInv(e)'
      BY <2>1, <3>2, <3>3, <3>4 DEF LogInv, Making
    <3> QED
      BY <2>1, <2>3, <2>4, <3>2, <3>5 DEF Keeps
  <2>6. CASE e \in meddled
    BY <2>1, <2>3, <2>4, <2>6 DEF Keeps
  <2> QED
    BY <2>5, <2>6
<1>11. CASE UNCHANGED vars
  BY <1>d, <1>11 DEF vars, procVars, Quiet, Created
<1> QED
  BY <1>1, <1>1a, <1>2, <1>3, <1>4, <1>5, <1>6, <1>7, <1>8, <1>9, <1>10, <1>11, <1>f
  DEF Next, Crash, Terminating

(* LogsSafe holds from the start, and always.                              *)
LEMMA LogsAreSafe == Spec => [](TypeInv /\ LogsSafe)
<1>1. Init => TypeInv /\ LogsSafe
  BY InitType DEF Init, LogsSafe, FdOK, LogInv, Making, Created
<1>2. (TypeInv /\ LogsSafe) /\ [Next]_vars => (TypeInv /\ LogsSafe)'
  BY TypeStep, LogsStep DEF Keeps, LogsSafe
<1> QED
  BY <1>1, <1>2, PTL DEF Spec

(* The log of a repository begins with its header, however many CREATs     *)
(* race for the directory and wherever they are killed, until a user       *)
(* DELETEs .asvn or the log.                                               *)
THEOREM HeaderComesFirst == Spec => []HeaderFirst
<1>1. TypeInv /\ LogsSafe => HeaderFirst
  BY DEF LogsSafe, LogInv, HeaderFirst
<1> QED
  BY <1>1, LogsAreSafe, PTL

(* ... and no line of it is ever lost, moved or changed.                   *)
THEOREM LogsOnlyGrow == Spec => LogOnlyGrows
<1>1. TypeInv /\ LogsSafe /\ TypeInv' /\ [Next]_vars =>
        [\A d \in Dirs : Created(d) /\ d \notin meddled' =>
           /\ Len(log'[d]) >= Len(log[d])
           /\ SubSeq(log'[d], 1, Len(log[d])) = log[d]]_vars
  BY LogsStep DEF Keeps, Grows
<1> QED
  BY <1>1, LogsAreSafe, PTL DEF Spec, LogOnlyGrows
=============================================================================
