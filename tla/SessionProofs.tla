--------------------------- MODULE SessionProofs ---------------------------
(***************************************************************************)
(* Proofs about Session, for any number of clients and children: types,    *)
(* one conversation at a time, and silence between live ends.              *)
(***************************************************************************)
EXTENDS Session, TLAPS

(* A backlog entry is a client, and taking the first leaves a backlog.     *)
LEMMA BacklogType ==
    ASSUME NEW q \in Seq(Clients), q # <<>>
    PROVE  Head(q) \in Clients /\ Tail(q) \in Seq(Clients)
  OBVIOUS

(* What a read leaves is still a stream of answers.                        *)
LEMMA StreamType ==
    ASSUME NEW q \in Seq({"400"}), NEW c, NEW open, NEW got \in Arrived(c, q, open)
    PROVE  Rest(q, got) \in Seq({"400"})
<1>1. CASE got \in {"EOF", "ERR"}
  BY <1>1 DEF Rest
<1>2. CASE got \notin {"EOF", "ERR"}
  <2>1. q # <<>>
    BY <1>2 DEF Arrived
  <2> QED
    BY <1>2, <2>1 DEF Rest
<1> QED
  BY <1>1, <1>2

(* Each step of a client, of a child and of the rest keeps the types.      *)
LEMMA TypeStep == TypeOK /\ [Next]_vars => TypeOK'
<1> SUFFICES ASSUME TypeOK, [Next]_vars PROVE TypeOK'
  OBVIOUS
<1> USE ConstantsOK DEF TypeOK, Ended, Reading
<1>1. ASSUME NEW c \in Clients, Bind(c) PROVE TypeOK'
  BY <1>1 DEF Bind, wireVars
<1>2. ASSUME NEW c \in Clients, Connect(c) PROVE TypeOK'
  <2>1. Append(backlog, c) \in Seq(Clients)
    OBVIOUS
  <2> QED
    BY <1>2, <2>1 DEF Connect, wireVars
<1>3. ASSUME NEW c \in Clients, ClientRnum(c) PROVE TypeOK'
  <2>1. toClient' \in [Clients -> Seq({"400"})]
    BY <1>3, StreamType DEF ClientRnum
  <2>2. toChild' \in [Clients -> Seq({"400"})]
    <3>1. Sent(toChild[c], SrvOpen(c)) \in Seq({"400"})
      BY DEF Sent
    <3>2. toChild' = toChild \/ toChild' = [toChild EXCEPT ![c] = Sent(toChild[c], SrvOpen(c))]
      BY <1>3, Zenon DEF ClientRnum
    <3> QED
      BY <3>1, <3>2
  <2>3. client' \in [Clients -> {"new", "bound", "rnum", "name"} \cup Ended]
    BY <1>3 DEF ClientRnum, AfterSend
  <2>4. reset' \subseteq Clients
    BY <1>3 DEF ClientRnum, ResetBy
  <2> QED
    BY <1>3, <2>1, <2>2, <2>3, <2>4 DEF ClientRnum
<1>4. ASSUME NEW c \in Clients, ClientName(c) PROVE TypeOK'
  <2>1. toClient' \in [Clients -> Seq({"400"})]
    BY <1>4, StreamType DEF ClientName
  <2>2. client' \in [Clients -> {"new", "bound", "rnum", "name"} \cup Ended]
    BY <1>4 DEF ClientName
  <2> QED
    BY <1>4, <2>1, <2>2 DEF ClientName
<1>5. ASSUME NEW c \in Clients, ChildRnum(c) PROVE TypeOK'
  <2>1. toChild' \in [Clients -> Seq({"400"})]
    BY <1>5, StreamType DEF ChildRnum
  <2>2. toClient' \in [Clients -> Seq({"400"})]
    <3>1. Sent(toClient[c], CliOpen(c)) \in Seq({"400"})
      BY DEF Sent
    <3>2. toClient' = toClient \/ toClient' = [toClient EXCEPT ![c] = Sent(toClient[c], CliOpen(c))]
      BY <1>5, Zenon DEF ChildRnum
    <3> QED
      BY <3>1, <3>2
  <2>3. child' \in [Clients -> {"none", "dropped"} \cup Reading \cup Ended]
    <3>1. \E s \in Reading \cup Ended : child' = [child EXCEPT ![c] = s]
      BY <1>5 DEF ChildRnum, AfterSend
    <3> QED
      BY <3>1
  <2>4. reset' \subseteq Clients
    BY <1>5 DEF ChildRnum, ResetBy
  <2> QED
    BY <1>5, <2>1, <2>2, <2>3, <2>4 DEF ChildRnum
<1>6. ASSUME NEW c \in Clients, ChildName(c) PROVE TypeOK'
  <2>1. toChild' \in [Clients -> Seq({"400"})]
    BY <1>6, StreamType DEF ChildName
  <2>2. child' \in [Clients -> {"none", "dropped"} \cup Reading \cup Ended]
    BY <1>6 DEF ChildName
  <2> QED
    BY <1>6, <2>1, <2>2 DEF ChildName
<1>7. CASE Accept
  <2>1. CASE sockid # "listener"
    BY <1>7, <2>1 DEF Accept, wireVars
  <2>2. CASE backlog # <<>>
    <3>1. Head(backlog) \in Clients /\ Tail(backlog) \in Seq(Clients)
      BY <2>2, BacklogType
    <3> QED
      BY <1>7, <3>1 DEF Accept, wireVars
  <2> QED
    BY <1>7, <2>1, <2>2 DEF Accept
<1>8. CASE PortFree
  BY <1>8 DEF PortFree, wireVars
<1>9. ASSUME NEW c \in Clients, KillClient(c) PROVE TypeOK'
  BY <1>9 DEF KillClient, wireVars
<1>10. ASSUME NEW c \in Clients, KillChild(c) PROVE TypeOK'
  BY <1>10 DEF KillChild, wireVars
<1>11. CASE KillServer
  <2>1. \A k \in 1..Len(backlog) : backlog[k] \in Clients
    OBVIOUS
  <2> QED
    BY <1>11, <2>1 DEF KillServer
<1>12. CASE UNCHANGED vars
  BY <1>12 DEF vars, wireVars
<1> QED
  BY <1>1, <1>2, <1>3, <1>4, <1>5, <1>6, <1>7, <1>8, <1>9, <1>10, <1>11, <1>12
  DEF Next, Client, Child, Idle

(* Every reachable state has its types, for any number of clients.         *)
THEOREM SessionTypeCorrect == Spec => []TypeOK
<1>1. Init => TypeOK
  BY ConstantsOK DEF Init, TypeOK, Ended, Reading
<1> QED
  BY <1>1, TypeStep, PTL DEF Spec

-----------------------------------------------------------------------------
(* One UP at a time is past bind, whatever is killed and whenever the port *)
(* comes back.  The invariant is inductive given the types: PortFree finds *)
(* nobody past bind because whoever has the port has ended.                *)
THEOREM OnlyOneConversation == Spec => []OneConversation
<1>1. Init => OneConversation
  BY DEF Init, OneConversation, CliOpen
<1>2. TypeOK /\ OneConversation /\ [Next]_vars => OneConversation'
  <2> SUFFICES ASSUME TypeOK, OneConversation, [Next]_vars,
                      NEW d \in Clients, client'[d] \in {"bound", "rnum", "name"}
               PROVE  d = port'
    BY DEF OneConversation, CliOpen
  <2> USE ConstantsOK DEF OneConversation, CliOpen
  <2>0. client \in [Clients -> {"new", "bound", "rnum", "name"} \cup Ended]
    BY DEF TypeOK
  <2>1. ASSUME NEW c \in Clients, Bind(c) PROVE d = port'
    BY <2>0, <2>1 DEF Bind
  <2>2. ASSUME NEW c \in Clients, Connect(c) PROVE d = port'
    BY <2>0, <2>2 DEF Connect
  <2>3. ASSUME NEW c \in Clients, ClientRnum(c) PROVE d = port'
    BY <2>0, <2>3 DEF ClientRnum
  <2>4. ASSUME NEW c \in Clients, ClientName(c) PROVE d = port'
    BY <2>0, <2>4 DEF ClientName, Ended
  <2>5. ASSUME NEW c \in Clients, KillClient(c) PROVE d = port'
    BY <2>0, <2>5 DEF KillClient, Ended
  <2>6. CASE PortFree
    BY <2>0, <2>6 DEF PortFree, Ended
  <2>7. CASE UNCHANGED <<client, port>>
    BY <2>7
  <2> QED
    BY <2>1, <2>2, <2>3, <2>4, <2>5, <2>6, <2>7
    DEF Next, Client, Child, ChildRnum, ChildName, Accept, KillChild, KillServer,
        Idle, vars
<1> QED
  BY <1>1, <1>2, SessionTypeCorrect, PTL DEF Spec

-----------------------------------------------------------------------------
(* Mute is not inductive alone: a connection must begin with nothing on it.*)
Silent(c) == toClient[c] = <<>> /\ toChild[c] = <<>>
MuteInv ==
    \A c \in Clients :
      client[c] \in {"new", "bound"} \/ (CliOpen(c) /\ SrvOpen(c)) => Silent(c)

(* Only Connect opens a connection: no other step makes a live pair out of *)
(* what was none, and none takes a process back before its bind.           *)
LEMMA MuteStep ==
    ASSUME TypeOK, MuteInv, [Next]_vars
    PROVE  MuteInv'
<1> SUFFICES ASSUME NEW d \in Clients,
                    client'[d] \in {"new", "bound"} \/ (CliOpen(d) /\ SrvOpen(d))'
             PROVE  Silent(d)'
  BY DEF MuteInv
<1> USE ConstantsOK DEF Silent, CliOpen
<1>0. /\ client \in [Clients -> {"new", "bound", "rnum", "name"} \cup Ended]
      /\ child \in [Clients -> {"none", "dropped"} \cup Reading \cup Ended]
      /\ toClient \in [Clients -> Seq({"400"})]
      /\ toChild \in [Clients -> Seq({"400"})]
      /\ backlog \in Seq(Clients)
  BY DEF TypeOK
<1>1. ASSUME NEW c \in Clients, Bind(c) PROVE Silent(d)'
  <2>1. client[d] \in {"new", "bound"} \/ (CliOpen(d) /\ SrvOpen(d))
    BY <1>0, <1>1 DEF Bind, SrvOpen, Ended
  <2> QED
    BY <1>1, <2>1 DEF Bind, MuteInv, wireVars
<1>2. ASSUME NEW c \in Clients, Connect(c) PROVE Silent(d)'
  <2>1. CASE d = c
    BY <1>0, <1>2, <2>1 DEF Connect, MuteInv, wireVars
  <2>2. CASE d # c
    <3>1. SrvOpen(d)' => SrvOpen(d)
      <4>1. CASE backlog' = backlog
        BY <1>2, <4>1 DEF Connect, SrvOpen
      <4>2. CASE backlog' = Append(backlog, c)
        <5>1. \A k \in 1..Len(backlog') : backlog'[k] = d =>
                k \in 1..Len(backlog) /\ backlog[k] = d
          BY <1>0, <2>2, <4>2
        <5> QED
          BY <1>2, <5>1 DEF Connect, SrvOpen
      <4> QED
        BY <1>2, <4>1, <4>2 DEF Connect
    <3>2. client'[d] = client[d]
      BY <1>0, <1>2, <2>2 DEF Connect
    <3> QED
      BY <1>0, <1>2, <3>1, <3>2 DEF Connect, MuteInv, wireVars
  <2> QED
    BY <2>1, <2>2
<1>3. ASSUME NEW c \in Clients, Client(c), ~Connect(c) PROVE Silent(d)'
  <2>1. UNCHANGED <<child, backlog>>
    BY <1>3 DEF Client, ClientRnum, ClientName
  <2>2. CASE d # c
    <3>1. /\ client'[d] = client[d] /\ toClient'[d] = toClient[d]
          /\ toChild'[d] = toChild[d]
      BY <1>0, <1>3, <2>2 DEF Client, ClientRnum, ClientName
    <3>2. SrvOpen(d)' => SrvOpen(d)
      BY <2>1 DEF SrvOpen
    <3> QED
      BY <3>1, <3>2 DEF MuteInv
  <2>3. CASE d = c
    <3>1. CliOpen(c) /\ client'[c] \notin {"new", "bound"}
      BY <1>0, <1>3 DEF Client, ClientRnum, ClientName, AfterSend
    <3>2. SrvOpen(c)
      BY <2>1, <2>3, <3>1 DEF SrvOpen
    <3>3. Silent(c)
      BY <3>1, <3>2 DEF MuteInv
    <3>4. \A got \in Arrived(c, toClient[c], SrvOpen(c)) : got = "ERR"
      BY <3>2, <3>3 DEF Arrived
    <3>5. client'[c] \in Ended
      BY <1>0, <1>3, <3>4 DEF Client, ClientRnum, ClientName, Ended
    <3> QED
      BY <2>3, <3>1, <3>5 DEF Ended
  <2> QED
    BY <2>2, <2>3
<1>4. ASSUME NEW c \in Clients, Child(c) PROVE Silent(d)'
  <2>1. UNCHANGED <<client, backlog>>
    BY <1>4 DEF Child, ChildRnum, ChildName
  <2>2. CASE d # c
    <3>1. /\ child'[d] = child[d] /\ toClient'[d] = toClient[d]
          /\ toChild'[d] = toChild[d]
      BY <1>0, <1>4, <2>2 DEF Child, ChildRnum, ChildName
    <3>2. SrvOpen(d)' => SrvOpen(d)
      BY <2>1, <3>1 DEF SrvOpen
    <3> QED
      BY <2>1, <3>1, <3>2 DEF MuteInv
  <2>3. CASE d = c
    <3>1. SrvOpen(c)
      BY <1>4 DEF Child, ChildRnum, ChildName, SrvOpen, Reading
    <3>2. Silent(c)
      BY <2>1, <2>3, <3>1 DEF MuteInv
    <3>3. CASE CliOpen(c)
      <4>1. \A got \in Arrived(c, toChild[c], CliOpen(c)) : got = "ERR"
        BY <3>2, <3>3 DEF Arrived
      <4>2. UNCHANGED toClient
        BY <1>4, <4>1 DEF Child, ChildRnum, ChildName
      <4>3. toChild'[c] = toChild[c]
        BY <1>0, <1>4, <4>1 DEF Child, ChildRnum, ChildName, Rest
      <4> QED
        BY <2>3, <3>2, <4>2, <4>3
    <3>4. CASE ~CliOpen(c)
      <4>1. toClient'[c] = toClient[c]
        BY <1>0, <1>4, <3>4 DEF Child, ChildRnum, ChildName, Sent
      <4>2. \A got \in Arrived(c, toChild[c], CliOpen(c)) : got \in {"EOF", "ERR"}
        BY <3>2 DEF Arrived
      <4>3. toChild'[c] = toChild[c]
        BY <1>0, <1>4, <4>2 DEF Child, ChildRnum, ChildName, Rest
      <4> QED
        BY <2>3, <3>2, <4>1, <4>3
    <3> QED
      BY <3>3, <3>4
  <2> QED
    BY <2>2, <2>3
<1>5. CASE Accept
  <2>1. SrvOpen(d)' => SrvOpen(d)
    <3>1. CASE sockid # "listener"
      BY <1>5, <3>1 DEF Accept, SrvOpen
    <3>2. CASE sockid = "listener" /\ backlog # <<>>
      <4>1. Head(backlog) = backlog[1] /\ 1 \in 1..Len(backlog)
        BY <1>0, <3>2
      <4>2. \A k \in 1..Len(Tail(backlog)) :
              k + 1 \in 1..Len(backlog) /\ Tail(backlog)[k] = backlog[k + 1]
        BY <1>0, <3>2
      <4>3. CASE d = Head(backlog)
        BY <4>1, <4>3 DEF SrvOpen
      <4>4. CASE d # Head(backlog)
        <5>1. child'[d] = child[d] /\ backlog' = Tail(backlog)
          BY <1>0, <1>5, <3>2, <4>4 DEF Accept
        <5> QED
          BY <4>2, <5>1 DEF SrvOpen
      <4> QED
        BY <4>3, <4>4
    <3> QED
      BY <1>5, <3>1, <3>2 DEF Accept
  <2>2. UNCHANGED <<client, toClient, toChild>>
    BY <1>5 DEF Accept, wireVars
  <2> QED
    BY <2>1, <2>2 DEF MuteInv
<1>6. ASSUME NEW c \in Clients, KillClient(c) \/ KillChild(c) PROVE Silent(d)'
  <2>1. client[d] \in {"new", "bound"} \/ (CliOpen(d) /\ SrvOpen(d))
    BY <1>0, <1>6 DEF KillClient, KillChild, SrvOpen, Ended, Reading
  <2> QED
    BY <1>6, <2>1 DEF KillClient, KillChild, MuteInv, wireVars
<1>7. CASE KillServer
  <2>1. client[d] \in {"new", "bound"} \/ (CliOpen(d) /\ SrvOpen(d))
    BY <1>7 DEF KillServer, SrvOpen
  <2> QED
    BY <1>7, <2>1 DEF KillServer, MuteInv
<1>8. CASE PortFree \/ UNCHANGED vars
  <2>1. UNCHANGED <<client, child, backlog, toClient, toChild>>
    BY <1>8 DEF PortFree, vars, wireVars
  <2> QED
    BY <2>1 DEF MuteInv, SrvOpen
<1> QED
  BY <1>1, <1>2, <1>3, <1>4, <1>5, <1>6, <1>7, <1>8 DEF Next, Idle, Client

(* Two senders at the two ends of a connection never say a word to each    *)
(* other, for any number of clients, children and kills.                   *)
THEOREM SendersAreMute == Spec => []Mute
<1>1. Init => MuteInv
  BY DEF Init, MuteInv, Silent
<1>2. TypeOK /\ MuteInv /\ [Next]_vars => MuteInv'
  BY MuteStep
<1>3. MuteInv => Mute
  BY DEF MuteInv, Mute, Silent
<1> QED
  BY <1>1, <1>2, <1>3, SessionTypeCorrect, PTL DEF Spec
=============================================================================
