------------------------------ MODULE Session ------------------------------
(***************************************************************************)
(* Clients running UP against the server process.                          *)
(*                                                                         *)
(* UP takes the one local port all clients share, connects, and enters     *)
(* doftp; the server accepts, forks, and its child enters dostr and then   *)
(* asvn_retr.  Both are the sender of Transfer, and both begin with rnum,  *)
(* which reads before it writes.  Only the first reads of the sender       *)
(* matter here: with a sender at the other end the name that is read can   *)
(* only be "" or "400", which no fopen finds.                              *)
(***************************************************************************)
EXTENDS Integers, Sequences, FiniteSets

CONSTANTS
    Clients,     \* processes started with the command UP
    NoClient,    \* not one of them
    Sockids,     \* what the uninitialised sockid of the server's main may
                 \* name: "none" (no socket) or an inherited "listener"
    MaxProcs,    \* children the system lets the server have, zombies included
    Kills        \* may processes be killed?

ASSUME ConstantsOK ==
    /\ NoClient \notin Clients
    /\ Sockids \subseteq {"none", "listener"}
    /\ MaxProcs \in Nat /\ Kills \in BOOLEAN

VARIABLES
    sockid,      \* what the server's sockid happens to name
    server,      \* the server's parent process: accepting, exited or killed
    backlog,     \* connections nobody has accepted yet
    port,        \* who has the local port CLIENT_PORT_ID, or NoClient
    client,      \* client[c]: what the process does next, or how it ended
    child,       \* child[c]: the same of the server's child for c
    toClient,    \* toClient[c]: answers in flight to the client
    toChild,     \* toChild[c]: answers in flight to the child
    reset        \* connections that were reset

wireVars == <<toClient, toChild, reset>>
vars     == <<sockid, server, backlog, port, client, child, wireVars>>

Ended   == {"exited", "killed"}
Reading == {"dostr", "retr", "name"}     \* the reads of a child, in order

CliOpen(c) == client[c] \in {"rnum", "name"}
SrvOpen(c) == child[c] \in Reading \/ \E k \in 1..Len(backlog) : backlog[k] = c

Init ==
    /\ sockid \in Sockids /\ server = "accepting" /\ backlog = <<>>
    /\ port = NoClient
    /\ client = [c \in Clients |-> "new"] /\ child = [c \in Clients |-> "none"]
    /\ toClient = [c \in Clients |-> <<>>] /\ toChild = [c \in Clients |-> <<>>]
    /\ reset = {}

-----------------------------------------------------------------------------
(* The connection: what a read may return, and a write of rnum's answer.   *)
Arrived(c, q, peerOpen) ==
    (IF q # <<>> THEN {Head(q)} ELSE IF peerOpen THEN {} ELSE {"EOF"})
      \cup (IF c \in reset THEN {"ERR"} ELSE {})

Rest(q, got) == IF got \in {"EOF", "ERR"} THEN q ELSE Tail(q)

(* rnum's answer: a write to a closed end resets the connection, one after *)
(* that may kill the writer by SIGPIPE; rnum goes on after a failed write. *)
Sent(q, peerOpen)      == IF peerOpen THEN Append(q, "400") ELSE q
ResetBy(c, peerOpen)   == IF peerOpen THEN reset ELSE reset \cup {c}
AfterSend(c, next, peerOpen) ==
    {next} \cup (IF ~peerOpen /\ c \in reset THEN {"killed"} ELSE {})

-----------------------------------------------------------------------------
BindShared(c) ==               \* mutant: the result of bind is not looked at
    /\ client[c] = "new"
    /\ port' = c /\ client' = [client EXCEPT ![c] = "bound"]
    /\ UNCHANGED <<sockid, server, backlog, child, wireVars>>

(* sock: without SO_REUSEADDR the port is refused while another process,   *)
(* or the connection it left behind, has it.                               *)
Bind(c) ==
    /\ client[c] = "new"
    /\ \/ /\ port = NoClient
          /\ port' = c /\ client' = [client EXCEPT ![c] = "bound"]
       \/ /\ port # NoClient
          /\ client' = [client EXCEPT ![c] = "exited"] /\ UNCHANGED port
    /\ UNCHANGED <<sockid, server, backlog, child, wireVars>>

Connect(c) ==
    /\ client[c] = "bound"
    /\ \/ /\ sockid = "listener" /\ server = "accepting"
          /\ client' = [client EXCEPT ![c] = "rnum"]
          /\ backlog' = Append(backlog, c) /\ UNCHANGED port
       \/ /\ ~(sockid = "listener" /\ server = "accepting")
          /\ client' = [client EXCEPT ![c] = "exited"]
          /\ port' = NoClient /\ UNCHANGED backlog
    /\ UNCHANGED <<sockid, server, child, wireVars>>

ClientRnumEager(c) ==          \* mutant: rnum answers before it reads
    /\ client[c] = "rnum"
    /\ toChild' = [toChild EXCEPT ![c] = Sent(@, SrvOpen(c))]
    /\ reset' = ResetBy(c, SrvOpen(c))
    /\ \E s \in AfterSend(c, "name", SrvOpen(c)) : client' = [client EXCEPT ![c] = s]
    /\ UNCHANGED <<sockid, server, backlog, port, child, toClient>>

ClientRnumRetries(c) ==        \* mutant: rnum reads on after an end of file
    /\ client[c] = "rnum"
    /\ \E got \in Arrived(c, toClient[c], SrvOpen(c)) \ {"EOF"} :
         /\ toClient' = [toClient EXCEPT ![c] = Rest(@, got)]
         /\ client' = [client EXCEPT ![c] = IF got = "ERR" THEN "exited" ELSE "name"]
         /\ toChild' = [toChild EXCEPT ![c] = Sent(@, got # "ERR" /\ SrvOpen(c))]
    /\ UNCHANGED <<sockid, server, backlog, port, child, reset>>

(* rnum, called by doftp.                                                  *)
ClientRnum(c) ==
    /\ client[c] = "rnum"
    /\ \E got \in Arrived(c, toClient[c], SrvOpen(c)) :
         /\ toClient' = [toClient EXCEPT ![c] = Rest(@, got)]
         /\ \/ /\ got = "ERR" /\ client' = [client EXCEPT ![c] = "exited"]
               /\ UNCHANGED <<toChild, reset>>
            \/ /\ got # "ERR"
               /\ toChild' = [toChild EXCEPT ![c] = Sent(@, SrvOpen(c))]
               /\ reset' = ResetBy(c, SrvOpen(c))
               /\ \E s \in AfterSend(c, "name", SrvOpen(c)) :
                    client' = [client EXCEPT ![c] = s]
    /\ UNCHANGED <<sockid, server, backlog, port, child>>

(* doftp reads a name no file has and exits, or fails to read and then     *)
(* dies of the failed write or of the file pointer it never set.           *)
ClientName(c) ==
    /\ client[c] = "name"
    /\ \E got \in Arrived(c, toClient[c], SrvOpen(c)) :
         /\ toClient' = [toClient EXCEPT ![c] = Rest(@, got)]
         /\ \E end \in {"exited"} \cup (IF got = "ERR" THEN {"killed"} ELSE {}) :
              client' = [client EXCEPT ![c] = end]
    /\ UNCHANGED <<sockid, server, backlog, port, child, toChild, reset>>

(* The port comes back when the process is gone and the kernel has let go  *)
(* of its connection: on a reset, or after a timeout.                      *)
PortFree ==
    /\ port # NoClient /\ client[port] \in Ended
    /\ port' = NoClient
    /\ UNCHANGED <<sockid, server, backlog, client, child, wireVars>>

-----------------------------------------------------------------------------
(* Children are never waited for.                                          *)
Procs == {c \in Clients : child[c] \notin {"none", "dropped"}}

(* The server's loop: accept fails on what is no socket; a failed fork     *)
(* looks like the parent's return, and the connection is closed.           *)
Accept ==
    /\ server = "accepting"
    /\ \/ /\ sockid # "listener"
          /\ server' = "exited" /\ UNCHANGED <<backlog, child>>
       \/ /\ sockid = "listener" /\ backlog # <<>>
          /\ backlog' = Tail(backlog)
          /\ child' = [child EXCEPT ![Head(backlog)] =
                IF Cardinality(Procs) < MaxProcs THEN "dostr" ELSE "dropped"]
          /\ UNCHANGED server
    /\ UNCHANGED <<sockid, port, client, wireVars>>

ChildRnumRetries(c) ==         \* mutant: rnum reads on after an end of file
    /\ child[c] \in {"dostr", "retr"}
    /\ \E got \in Arrived(c, toChild[c], CliOpen(c)) \ {"EOF"} :
         /\ toChild' = [toChild EXCEPT ![c] = Rest(@, got)]
         /\ child' = [child EXCEPT ![c] = IF got = "ERR" THEN "exited"
                                          ELSE IF @ = "dostr" THEN "retr" ELSE "name"]
         /\ toClient' = [toClient EXCEPT ![c] = Sent(@, got # "ERR" /\ CliOpen(c))]
    /\ UNCHANGED <<sockid, server, backlog, port, client, reset>>

(* rnum, called by dostr and again by asvn_retr.                           *)
ChildRnum(c) ==
    /\ child[c] \in {"dostr", "retr"}
    /\ \E got \in Arrived(c, toChild[c], CliOpen(c)) :
         /\ toChild' = [toChild EXCEPT ![c] = Rest(@, got)]
         /\ \/ /\ got = "ERR" /\ child' = [child EXCEPT ![c] = "exited"]
               /\ UNCHANGED <<toClient, reset>>
            \/ /\ got # "ERR"
               /\ toClient' = [toClient EXCEPT ![c] = Sent(@, CliOpen(c))]
               /\ reset' = ResetBy(c, CliOpen(c))
               /\ LET next == IF child[c] = "dostr" THEN "retr" ELSE "name" IN
                  \E s \in AfterSend(c, next, CliOpen(c)) :
                    child' = [child EXCEPT ![c] = s]
    /\ UNCHANGED <<sockid, server, backlog, port, client>>

ChildNameUnchecked(c) ==       \* mutant: the result of fopen is not looked at
    /\ child[c] = "name"
    /\ \E got \in Arrived(c, toChild[c], CliOpen(c)) :
         toChild' = [toChild EXCEPT ![c] = Rest(@, got)]
    /\ child' = [child EXCEPT ![c] = "start"]
    /\ UNCHANGED <<sockid, server, backlog, port, client, toClient, reset>>

(* asvn_retr reads a name no file has, as doftp does.                      *)
ChildName(c) ==
    /\ child[c] = "name"
    /\ \E got \in Arrived(c, toChild[c], CliOpen(c)) :
         /\ toChild' = [toChild EXCEPT ![c] = Rest(@, got)]
         /\ \E end \in {"exited"} \cup (IF got = "ERR" THEN {"killed"} ELSE {}) :
              child' = [child EXCEPT ![c] = end]
    /\ UNCHANGED <<sockid, server, backlog, port, client, toClient, reset>>

-----------------------------------------------------------------------------
(* Somebody kills a client, a child, or the server's parent process, with  *)
(* which the listener and what waits in its backlog go.                    *)
KillClient(c) ==
    /\ Kills /\ client[c] \notin Ended \cup {"new"}
    /\ client' = [client EXCEPT ![c] = "killed"]
    /\ port' = IF client[c] = "bound" THEN NoClient ELSE port
    /\ UNCHANGED <<sockid, server, backlog, child, wireVars>>

KillChild(c) ==
    /\ Kills /\ child[c] \in Reading
    /\ child' = [child EXCEPT ![c] = "killed"]
    /\ UNCHANGED <<sockid, server, backlog, port, client, wireVars>>

KillServer ==
    /\ Kills /\ server = "accepting"
    /\ server' = "killed" /\ backlog' = <<>>
    /\ reset' = reset \cup {backlog[k] : k \in 1..Len(backlog)}
    /\ UNCHANGED <<sockid, port, client, child, toClient, toChild>>

(* Every client has ended and is forgotten: not a deadlock.                *)
Idle ==
    /\ \A c \in Clients : client[c] \in Ended /\ ~SrvOpen(c)
    /\ UNCHANGED vars

Client(c) == Connect(c) \/ ClientRnum(c) \/ ClientName(c)
Child(c)  == ChildRnum(c) \/ ChildName(c)

Next ==
    \/ \E c \in Clients : \/ Bind(c) \/ Client(c) \/ Child(c)
                          \/ KillClient(c) \/ KillChild(c)
    \/ Accept \/ PortFree \/ KillServer \/ Idle

Spec == Init /\ [][Next]_vars

(* Every process runs on while its calls return, and the kernel's timeout  *)
(* expires; that a user ever starts UP is not assumed.                     *)
FairSpec ==
    /\ Spec /\ WF_vars(Accept) /\ WF_vars(PortFree)
    /\ \A c \in Clients : WF_vars(Client(c)) /\ WF_vars(Child(c))

-----------------------------------------------------------------------------
(* Every variable has its type.                                            *)
TypeOK ==
    /\ sockid \in Sockids /\ server \in {"accepting"} \cup Ended
    /\ backlog \in Seq(Clients) /\ port \in Clients \cup {NoClient}
    /\ client \in [Clients -> {"new", "bound", "rnum", "name"} \cup Ended]
    /\ child \in [Clients -> {"none", "dropped"} \cup Reading \cup Ended]
    /\ toClient \in [Clients -> Seq({"400"})] /\ toChild \in [Clients -> Seq({"400"})]
    /\ reset \subseteq Clients

(* At most one client at a time is past bind, and it has the port: while   *)
(* one UP hangs, every other one is turned away, however clients, children *)
(* and the server are killed and ports come back.                          *)
OneConversation ==
    {c \in Clients : client[c] = "bound" \/ CliOpen(c)} \subseteq {port}

(* Nothing is ever said between two live ends: each of the two senders     *)
(* speaks only after the other one has gone.                               *)
Mute ==
    \A c \in Clients : CliOpen(c) /\ SrvOpen(c) =>
      toClient[c] = <<>> /\ toChild[c] = <<>>

(* Whoever loses the other end of its connection comes to an end: no child *)
(* is left behind by its client, no client by a child that was killed or   *)
(* never forked, or by a server that was killed over its backlog.          *)
PeerFollows ==
    \A c \in Clients :
      /\ (SrvOpen(c) /\ ~CliOpen(c)) ~> ~SrvOpen(c)
      /\ (CliOpen(c) /\ ~SrvOpen(c)) ~> ~CliOpen(c)

(* The local port comes back from everyone who has it, unless a client and *)
(* a child sit reading each other.                                         *)
PortComesBack ==
    \A c \in Clients :
      port = c ~> (port # c \/ (client[c] = "rnum" /\ child[c] = "dostr"))

(* "send to server" (common.h:128): a client that has been connected sends *)
(* something, or is told why not and ends.                                 *)
UpSends ==
    \A c \in Clients : CliOpen(c) ~> (toChild[c] # <<>> \/ client[c] \in Ended)
=============================================================================
