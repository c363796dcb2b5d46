----------------------------- MODULE Repository -----------------------------
(***************************************************************************)
(* The local commands of asvn and the installer ainit, run by several      *)
(* users on one file system.                                               *)
(*                                                                         *)
(* Every command is a process that makes a few system calls and exits; a   *)
(* step is one system call that other processes can see, so commands       *)
(* interleave between any two of them.  LOG, PWD and QUIT change nothing;  *)
(* UP belongs to the transfer.  ainit is run in HOME/asvn, so the registry *)
(* it creates is the one asvn opens.  What a typed line becomes is said in *)
(* CommandLine.                                                            *)
(***************************************************************************)
EXTENDS CommandLine, FiniteSets

CONSTANTS
    Procs,         \* users' terminals: each runs one command at a time
    Dirs,          \* directories a command can be started in
    Parent,        \* Parent[d]: the directory around d, or NoDir
    TypedLines,    \* the lines users type
    MaxCommands,   \* bound: commands run in all
    Crashes        \* may a process be killed between two of its calls?

NoDir   == "nodir"
Meta    == ".asvn"           \* the two paths that matter to the log
MetaLog == ".asvn/log"
ReposPath == "HOME/asvn/repos"   \* the registry: a file

Ainit == <<"ainit">>         \* the line that runs the installer

(* The commands that make calls of their own here, and the paths typed.    *)
Ops        == {"AINIT", "CREAT", "MKDIR", "DELETE"}
Paths(cmd) == {args(l, 2) : l \in {t \in TypedLines : argc(t) >= 3 /\ args(t, 1) = cmd}}
MkdirArgs  == Paths("MKDIR")
DeleteArgs == Paths("DELETE")

ASSUME ConstantsOK ==
    /\ NoDir \notin Dirs /\ ReposPath \notin Dirs
    /\ Parent \in [Dirs -> Dirs \cup {NoDir}]
    /\ TypedLines \subseteq Seq(STRING)
    /\ MetaLog \notin MkdirArgs
    /\ MaxCommands \in Nat /\ Crashes \in BOOLEAN

VARIABLES
    installed,  \* what ainit has made in HOME/asvn
    repos,      \* the lines of HOME/asvn/repos
    paths,      \* paths[d]: what exists in d, of the paths commands name
    log,        \* log[d]: the lines of d/.asvn/log, if that exists
    pc,         \* pc[p]: the next call of p's process
    job,        \* job[p]: the command p's process runs, and where
    fd,         \* fd[p]: the directory whose log p has open, or NoDir
    count,      \* commands started so far
    did,        \* history: commands whose mkdir or remove has succeeded
    ended,      \* history: commands that came to the end of main
    inTime,     \* history: commands started inside a repository, with it
    meddled     \* history: directories whose .asvn or log was DELETEd

fsVars   == <<installed, repos, paths, log>>
procVars == <<pc, job, fd>>
history  == <<did, ended, inTime, meddled>>
vars     == <<fsVars, procVars, count, history>>

(* A line of a log, and the job of a process: the command, its path and    *)
(* comment; and, for the properties, where it was run, which it was of all *)
(* the commands run, and the line typed.                                   *)
Entry(cmd, d, k, line) ==
    [op |-> cmd.op, arg |-> cmd.arg, cmt |-> cmd.cmt,
     dir |-> d, id |-> k, line |-> line]
NoJob     == Entry(Died, NoDir, 0, <<>>)
Header    == [NoJob EXCEPT !.op = "header"]

Init ==
    /\ installed = {} /\ repos = {}
    /\ paths = [d \in Dirs |-> {}] /\ log = [d \in Dirs |-> <<>>]
    /\ pc = [p \in Procs |-> "idle"] /\ job = [p \in Procs |-> NoJob]
    /\ fd = [p \in Procs |-> NoDir]
    /\ count = 0
    /\ did = {} /\ ended = {} /\ inTime = {} /\ meddled = {}

-----------------------------------------------------------------------------
Created(d) == \E j \in ended : j.op = "CREAT" /\ j.dir = d

(* The repository a directory lies in now: itself, the one around it, or    *)
(* none.                                                                   *)
RepoOf(d) == {r \in {d} : Created(d)}
               \cup {r \in {Parent[d]} : Created(r) /\ ~Created(d)}

Goto(p, label) == pc' = [pc EXCEPT ![p] = label]

(* The process ends: by exit(1), killed, or ("done") at the end of main.   *)
Leave(p) ==
    /\ Goto(p, "idle")
    /\ job' = [job EXCEPT ![p] = NoJob] /\ fd' = [fd EXCEPT ![p] = NoDir]
Fail(p) == Leave(p) /\ UNCHANGED <<fsVars, count, history>>
Done(p) == Leave(p) /\ ended' = ended \cup {job[p]}

FirstCall == [AINIT |-> "repos", CREAT |-> "register",
              MKDIR |-> "mkdir", DELETE |-> "remove"]

(* What a typed line runs: ainit, or main of asvn.                         *)
Run(line) ==
    IF line = Ainit THEN [Died EXCEPT !.op = "AINIT"] ELSE Command(line)

(* A user types a line in a directory, and response passes on to the       *)
(* command ...                                                             *)
Begin(p, line, d) ==
    /\ pc[p] = "idle" /\ count < MaxCommands
    /\ Run(line).op \in Ops
    /\ count' = count + 1
    /\ job' = [job EXCEPT ![p] = Entry(Run(line), d, count', line)]
    /\ inTime' = inTime \cup {<<count', r>> : r \in RepoOf(d)}
    /\ Goto(p, FirstCall[Run(line).op])
    /\ UNCHANGED <<fsVars, fd, did, ended, meddled>>

(* ... or nothing here changes: another command, an unknown one, or a      *)
(* process that dies over a missing word.                                  *)
Idle(p, line) ==
    /\ pc[p] = "idle" /\ count < MaxCommands
    /\ Run(line).op \notin Ops
    /\ count' = count + 1
    /\ UNCHANGED <<fsVars, procVars, history>>

InstallNext == [repos |-> "exe", exe |-> "conf", conf |-> "authz",
                authz |-> "passwd", passwd |-> "idle"]

InstallUnchecked(p) ==         \* mutant: the results of mkdir are not looked at
    /\ pc[p] \in DOMAIN InstallNext
    /\ installed' = installed \cup {pc[p]}
    /\ repos' = IF pc[p] = "repos" THEN {} ELSE repos
    /\ \/ pc[p] = "passwd" /\ Done(p)
       \/ /\ pc[p] # "passwd" /\ Goto(p, InstallNext[pc[p]])
          /\ UNCHANGED <<job, fd, ended>>
    /\ UNCHANGED <<paths, log, count, did, inTime, meddled>>

(* ainit: the registry, emptied if it was there, then two directories that *)
(* must not be there yet, and two files in the second.                     *)
Install(p) ==
    /\ pc[p] \in DOMAIN InstallNext
    /\ \/ /\ pc[p] \in {"exe", "conf"} /\ pc[p] \in installed
          /\ Fail(p)
       \/ /\ ~(pc[p] \in {"exe", "conf"} /\ pc[p] \in installed)
          /\ installed' = installed \cup {pc[p]}
          /\ repos' = IF pc[p] = "repos" THEN {} ELSE repos
          /\ \/ pc[p] = "passwd" /\ Done(p)
             \/ /\ pc[p] # "passwd" /\ Goto(p, InstallNext[pc[p]])
                /\ UNCHANGED <<job, fd, ended>>
          /\ UNCHANGED <<paths, log, count, did, inTime, meddled>>

-----------------------------------------------------------------------------
(* CREAT writes the registry's own path over its beginning, which nothing  *)
(* but ainit ever truncates ...                                            *)
Register(p) ==
    /\ pc[p] = "register"
    /\ \/ "repos" \notin installed /\ Fail(p)
       \/ /\ "repos" \in installed
          /\ repos' = {ReposPath} /\ Goto(p, "mkmeta")
          /\ UNCHANGED <<installed, paths, log, job, fd, count, history>>

MakeMetaAgain(p) ==            \* mutant: an existing .asvn is accepted
    /\ pc[p] = "mkmeta"
    /\ paths' = [paths EXCEPT ![job[p].dir] = @ \cup {Meta}] /\ Goto(p, "mklog")
    /\ UNCHANGED <<installed, repos, log, job, fd, count, history>>

(* ... makes .asvn, which must not be there yet, ...                       *)
MakeMeta(p) ==
    /\ pc[p] = "mkmeta"
    /\ LET d == job[p].dir IN
       \/ Meta \in paths[d] /\ Fail(p)
       \/ /\ Meta \notin paths[d]
          /\ paths' = [paths EXCEPT ![d] = @ \cup {Meta}] /\ Goto(p, "mklog")
          /\ UNCHANGED <<installed, repos, log, job, fd, count, history>>

(* ... creates or empties the log, ...                                     *)
MakeLog(p) ==
    /\ pc[p] = "mklog"
    /\ LET d == job[p].dir IN
       \/ Meta \notin paths[d] /\ Fail(p)
       \/ /\ Meta \in paths[d]
          /\ paths' = [paths EXCEPT ![d] = @ \cup {MetaLog}]
          /\ log' = [log EXCEPT ![d] = <<>>]
          /\ fd' = [fd EXCEPT ![p] = d] /\ Goto(p, "header")
          /\ UNCHANGED <<installed, repos, job, count, history>>

(* ... and writes the header at offset 0: over the first line, if another  *)
(* process has added one (no line is shorter than the header; what is left *)
(* of a longer one is no line any more).                                   *)
WriteHeader(p) ==
    /\ pc[p] = "header"
    /\ log' = IF fd[p] = NoDir THEN log
              ELSE [log EXCEPT ![fd[p]] =
                      <<Header>> \o SubSeq(@, 2, Len(@))]
    /\ Done(p)
    /\ UNCHANGED <<installed, repos, paths, count, did, inTime, meddled>>

-----------------------------------------------------------------------------
MkdirUnchecked(p) ==           \* mutant: a failed mkdir is logged too
    /\ pc[p] = "mkdir"
    /\ LET d == job[p].dir IN
       /\ paths' = [paths EXCEPT ![d] = @ \cup {job[p].arg}]
       /\ did' = IF job[p].arg \in paths[d] THEN did ELSE did \cup {job[p]}
    /\ Goto(p, "openlog")
    /\ UNCHANGED <<installed, repos, log, job, fd, count, ended, inTime, meddled>>

(* MKDIR and DELETE act first and open the log afterwards.                 *)
Mkdir(p) ==
    /\ pc[p] = "mkdir"
    /\ LET d == job[p].dir IN
       \/ job[p].arg \in paths[d] /\ Fail(p)
       \/ /\ job[p].arg \notin paths[d]
          /\ paths' = [paths EXCEPT ![d] = @ \cup {job[p].arg}]
          /\ did' = did \cup {job[p]} /\ Goto(p, "openlog")
          /\ UNCHANGED <<installed, repos, log, job, fd, count, ended, inTime, meddled>>

(* remove takes files and empty directories; a process that has a removed  *)
(* log open goes on writing to a file nobody can see.                      *)
Removable(d, arg) == arg \in paths[d] /\ (arg = Meta => MetaLog \notin paths[d])

Remove(p) ==
    /\ pc[p] = "remove"
    /\ LET d == job[p].dir
           arg == job[p].arg
       IN
       \/ ~Removable(d, arg) /\ Fail(p)
       \/ /\ Removable(d, arg)
          /\ paths' = [paths EXCEPT ![d] = @ \ {arg}]
          /\ did' = did \cup {job[p]} /\ Goto(p, "openlog")
          /\ \/ /\ arg = MetaLog
                /\ log' = [log EXCEPT ![d] = <<>>]
                /\ fd' = [q \in Procs |-> IF fd[q] = d THEN NoDir ELSE fd[q]]
             \/ arg # MetaLog /\ UNCHANGED <<log, fd>>
          /\ meddled' = IF arg \in {Meta, MetaLog} THEN meddled \cup {d} ELSE meddled
          /\ UNCHANGED <<installed, repos, job, count, ended, inTime>>

(* logfile: the log of the registered directory the current one lies in,   *)
(* or else of the current one.                                             *)
LogDir(d) ==
    LET hits == {d, Parent[d]} \cap repos
    IN  IF hits = {} THEN d ELSE CHOOSE h \in hits : TRUE

OpenLogEmptied(p) ==           \* mutant: the log is opened with "w"
    /\ pc[p] = "openlog"
    /\ LET d == LogDir(job[p].dir) IN
       \/ ("repos" \notin installed \/ Meta \notin paths[d]) /\ Fail(p)
       \/ /\ "repos" \in installed /\ Meta \in paths[d]
          /\ paths' = [paths EXCEPT ![d] = @ \cup {MetaLog}]
          /\ log' = [log EXCEPT ![d] = <<>>]
          /\ fd' = [fd EXCEPT ![p] = d] /\ Goto(p, "append")
          /\ UNCHANGED <<installed, repos, job, count, history>>

OpenLog(p) ==
    /\ pc[p] = "openlog"
    /\ LET d == LogDir(job[p].dir) IN
       \/ ("repos" \notin installed \/ Meta \notin paths[d]) /\ Fail(p)
       \/ /\ "repos" \in installed /\ Meta \in paths[d]
          /\ paths' = [paths EXCEPT ![d] = @ \cup {MetaLog}]
          /\ fd' = [fd EXCEPT ![p] = d] /\ Goto(p, "append")
          /\ UNCHANGED <<installed, repos, log, job, count, history>>

AppendLineAtStart(p) ==        \* mutant: the log is not opened for appending
    /\ pc[p] = "append"
    /\ log' = IF fd[p] = NoDir THEN log
              ELSE [log EXCEPT ![fd[p]] = <<job[p]>> \o SubSeq(@, 2, Len(@))]
    /\ Done(p)
    /\ UNCHANGED <<installed, repos, paths, count, did, inTime, meddled>>

AppendLineEarly(p) ==          \* mutant: the line is put together before the
    /\ pc[p] = "append"        \* command is parsed
    /\ log' = IF fd[p] = NoDir THEN log
              ELSE [log EXCEPT ![fd[p]] = Append(@, NoJob)]
    /\ Done(p)
    /\ UNCHANGED <<installed, repos, paths, count, did, inTime, meddled>>

(* fclose writes the line, behind whatever the file holds by then.         *)
AppendLine(p) ==
    /\ pc[p] = "append"
    /\ log' = IF fd[p] = NoDir THEN log
              ELSE [log EXCEPT ![fd[p]] = Append(@, job[p])]
    /\ Done(p)
    /\ UNCHANGED <<installed, repos, paths, count, did, inTime, meddled>>

-----------------------------------------------------------------------------
Crash(p) == Crashes /\ pc[p] # "idle" /\ Fail(p)

(* Every terminal is idle and the bound on commands is reached.            *)
Terminating ==
    /\ count = MaxCommands /\ \A p \in Procs : pc[p] = "idle"
    /\ UNCHANGED vars

Next ==
    \/ \E p \in Procs :
         \/ \E line \in TypedLines, d \in Dirs : Begin(p, line, d)
         \/ \E line \in TypedLines : Idle(p, line)
         \/ Install(p)
         \/ Register(p) \/ MakeMeta(p) \/ MakeLog(p) \/ WriteHeader(p)
         \/ Mkdir(p) \/ Remove(p) \/ OpenLog(p) \/ AppendLine(p)
         \/ Crash(p)
    \/ Terminating

Spec == Init /\ [][Next]_vars

-----------------------------------------------------------------------------
Jobs == [op : Ops \cup {"none"}, arg : MkdirArgs \cup DeleteArgs \cup {Unset},
         cmt : Seq(STRING), dir : Dirs \cup {NoDir}, id : 0..MaxCommands,
         line : TypedLines \cup {<<>>}]
Labels == {"idle", "register", "mkmeta", "mklog", "header", "mkdir", "remove",
           "openlog", "append"} \cup DOMAIN InstallNext

(* Every variable has its type.                                            *)
TypeOK ==
    /\ installed \subseteq DOMAIN InstallNext
    /\ repos \subseteq {ReposPath} \cup Dirs
    /\ paths \in [Dirs -> SUBSET (MkdirArgs \cup DeleteArgs \cup {Meta, MetaLog})]
    /\ log \in [Dirs -> Seq({j \in Jobs : j.op \in {"MKDIR", "DELETE"}} \cup {Header})]
    /\ pc \in [Procs -> Labels] /\ job \in [Procs -> Jobs]
    /\ fd \in [Procs -> Dirs \cup {NoDir}]
    /\ count \in 0..MaxCommands
    /\ did \subseteq Jobs /\ ended \subseteq Jobs
    /\ inTime \subseteq (1..MaxCommands) \X Dirs /\ meddled \subseteq Dirs

(* Once CREAT has ended somewhere, that log only ever grows at its end,    *)
(* whatever other CREATs, crashes and half-finished commands are still     *)
(* about, until a user DELETEs the log itself.                             *)
LogOnlyGrows ==
    [][\A d \in Dirs : Created(d) /\ d \notin meddled' =>
         /\ Len(log'[d]) >= Len(log[d])
         /\ SubSeq(log'[d], 1, Len(log[d])) = log[d]]_vars

(* ... and it begins with the header line.                                 *)
HeaderFirst ==
    \A d \in Dirs : Created(d) /\ d \notin meddled =>
      /\ MetaLog \in paths[d] /\ log[d] # <<>> /\ log[d][1] = Header

(* A line of a log tells of a change that was really made, by the command  *)
(* and on the path that a user typed.                                      *)
AsTyped(j) == args(j.line, 1) = j.op /\ args(j.line, 2) = j.arg
LoggedWasDone ==
    \A d \in Dirs : \A k \in 1..Len(log[d]) :
      log[d][k] # Header => log[d][k] \in did /\ AsTyped(log[d][k])

(* A MKDIR or DELETE started after the CREAT of its directory and run to   *)
(* its end stands in the log exactly once.                                 *)
Lines(j) == {k \in 1..Len(log[j.dir]) : log[j.dir][k] = j}
DoneIsLogged ==
    \A j \in ended \cap did :
      <<j.id, j.dir>> \in inTime /\ j.dir \notin meddled => Cardinality(Lines(j)) = 1

(* Of all the ainits ever run, at most one comes to its end, and then the  *)
(* whole installation is there.                                            *)
InstalledOnce ==
    LET inits == {j \in ended : j.op = "AINIT"} IN
      /\ Cardinality(inits) <= 1
      /\ inits # {} => installed = DOMAIN InstallNext

(* "Makes the directory and records it in the log" (asvn.c:53), of every   *)
(* MKDIR and DELETE that came to its end.                                  *)
EndedIsLogged ==
    \A j \in ended \cap did : j.dir \notin meddled => Lines(j) # {}

(* ... and of every one that was started and made inside a repository: it  *)
(* stands in the log of "the current repository" (handles.c:174) once its  *)
(* process is gone.                                                        *)
DoneIsInRepoLog ==
    \A j \in did : \A r \in Dirs \ meddled :
      <<j.id, r>> \in inTime /\ (\A p \in Procs : job[p] # j)
        => \E k \in 1..Len(log[r]) : log[r][k] = j

(* "The comment in the command the user typed" (handles.c:61) stands in    *)
(* the log, behind command and path.                                       *)
CommentIsLogged ==
    \A d \in Dirs : \A k \in 1..Len(log[d]) :
      LET j == log[d][k] IN
      j # Header => j.cmt = SubSeq(j.line, 4, Len(j.line))
=============================================================================
