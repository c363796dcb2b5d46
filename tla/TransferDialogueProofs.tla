----------------------- MODULE TransferDialogueProofs -----------------------
(***************************************************************************)
(* What sender and receiver know of each other: while both run they move   *)
(* in step, and once one of them is gone what it has left behind still     *)
(* means what it meant.  For every block size, file, entry and fault.      *)
(***************************************************************************)
EXTENDS TransferProofs

InFlight(r, s) == toRcv = r /\ toSnd = s

Blocks == count \div MAXSIZE
Last   == count % MAXSIZE

(***************************************************************************)
(* The dialogue while both processes run: where each of them can be and    *)
(* the one message that is on its way.                                     *)
(***************************************************************************)
Greeting ==
    \/ /\ spc \in {"access", "rnum"} /\ rpc = "len"
       /\ InFlight(<<>>, <<>>)
    \/ /\ spc \in {"access", "rnum"} /\ rpc = "nameok"
       /\ InFlight(<<>>, <<Num(NameLen)>>)
    \/ /\ spc \in {"rnum", "name"} /\ rpc = "nameok"
       /\ InFlight(<<Num(FILENAMEOK)>>, <<>>)

Asking ==
    /\ rpc = "info"
    /\ \/ spc \in {"rnum", "name"} /\ InFlight(<<>>, <<Txt("name")>>)
       \/ spc \in {"rnum", "name"} /\ InFlight(<<Num(FILENAMEOK)>>, <<>>)
       \/ spc = "start" /\ InFlight(<<Num(STARTTRANSFER)>>, <<>>)

Opening ==
    /\ rpc \in {"open", "size"}
    /\ \/ spc = "start" /\ InFlight(<<>>, <<Txt("start")>>)
       \/ spc = "size" /\ InFlight(<<>>, <<>>)
       \/ spc = "size_ok" /\ InFlight(<<Num(count)>>, <<>>)

Sizing ==
    /\ spc = "size_ok" /\ fsize = count
    /\ \/ rpc = "blks" /\ count # 0 /\ InFlight(<<>>, <<Txt("size_ok")>>)
       \/ rpc = "close" /\ count = 0 /\ InFlight(<<>>, <<>>)

Counting ==
    /\ spc = "blks_ok" /\ fsize = count /\ count # 0
    /\ \/ rpc = "blks" /\ InFlight(<<Num(Blocks)>>, <<>>)
       \/ /\ rpc = "last" /\ num_blks = Blocks /\ num_blks # 0
          /\ InFlight(<<>>, <<Txt("num_blks_ok")>>)
       \/ rpc = "close" /\ InFlight(<<>>, <<>>)

Resting ==
    /\ spc = "last_ok" /\ fsize = count /\ count # 0
    /\ num_blks = Blocks /\ num_blks # 0
    /\ \/ rpc = "last" /\ InFlight(<<Num(Last)>>, <<>>)
       \/ /\ rpc = "data" /\ num_last = Last /\ num_last # 0 /\ ri = 0
          /\ InFlight(<<>>, <<Txt("num_last_ok")>>)
       \/ /\ rpc = "data" /\ num_last = Last /\ num_last = 0 /\ ri = 0
          /\ InFlight(<<>>, <<>>)

(* How many bytes the sender has sent.                                     *)
Sent == IF spc = "blocks" THEN MAXSIZE * si ELSE count

Sending ==
    /\ spc \in {"blocks", "confirm"} /\ rpc \in {"data", "close"}
    /\ toSnd = <<>>
    /\ rpc = "data" => Sent <= Len(toRcv) + MAXSIZE * ri

Lockstep ==
    SndUp /\ RcvUp =>
      /\ conn = "ok"
      /\ Greeting \/ Asking \/ Opening \/ Sizing \/ Counting \/ Resting \/ Sending

(***************************************************************************)
(* What the receiver knows by itself.                                      *)
(***************************************************************************)
Receiving ==
    /\ rpc \in {"len", "nameok", "info", "open"} => fp = "none"
    /\ rpc \in {"size", "blks", "last"} /\ fp = "open" => dst = <<>>
    /\ rpc \in {"len", "nameok", "info", "open", "size", "blks"} => num_blks = 0
    /\ rpc \in {"len", "nameok", "info", "open", "size", "blks", "last"} =>
         num_last = 0 /\ ri = 0
    /\ rpc = "data" => ri <= num_blks
    /\ rpc = "data" /\ fp = "open" => Len(dst) = MAXSIZE * ri
    /\ rpc \in {"close", "closed"} /\ fp = "open" /\ num_blks # 0 =>
         Len(dst) = MAXSIZE * num_blks + num_last
    /\ rpc = "closed" => fp = "open"
    /\ said = "all" => rpc \in {"close"} \cup RcvEnds

(***************************************************************************)
(* What the last words of a process that may be gone still mean.           *)
(***************************************************************************)
Settled ==
    /\ rpc \in {"data", "close"} \cup RcvEnds
    /\ fsize = count /\ num_blks = Blocks /\ num_last = Last
    /\ num_blks # 0 /\ num_last # 0

Meant ==
    spc \in {"blocks", "confirm", "complete"} => Settled /\ si <= Blocks
LastWord ==
    toSnd = <<Txt("num_last_ok")>> =>
      /\ Settled /\ spc \in {"last_ok"} \cup SndEnds
      /\ SndUp => rpc \in {"data", "killed"}
Farewell ==
    toSnd = <<Txt("file_recv")>> \/ spc = "complete" => rpc = "closed"
Unsent ==
    spc \in {"access", "rnum", "name", "nofp", "start", "size", "size_ok", "blks_ok",
             "last_ok"} => si = 0

Heard == Meant /\ LastWord /\ Farewell /\ Unsent

(***************************************************************************)
(* Framing, made inductive: what waits for a receiver that expects a       *)
(* control message is one number.                                          *)
(***************************************************************************)
Numbers ==
    rpc \in {"len", "nameok", "info", "open", "size", "blks", "last"} =>
      Len(toRcv) <= 1 /\ (toRcv # <<>> => toRcv[1].txt = "number")
FileData ==
    rpc = "data" => \A k \in 1..Len(toRcv) : toRcv[k].txt = "byte"
Streams == Len(toSnd) <= 1 /\ Numbers /\ FileData

DialogueInv == TypeInv /\ Lockstep /\ Streams /\ Receiving /\ Heard

-----------------------------------------------------------------------------
(* The cells of the control messages, without their records.               *)
LEMMA Messages ==
    /\ \A n : Num(n).txt = "number" /\ Num(n).num = n
    /\ \A w : Txt(w).txt = w /\ Txt(w).num = 0
    /\ EOF.txt = "EOF" /\ ERR.txt = "ERR"
BY DEF Num, Txt, EOF, ERR

(* A stream with one message in it.                                        *)
LEMMA OneMessage ==
    \A c : /\ <<c>> # <<>> /\ Head(<<c>>) = c /\ Tail(<<c>>) = <<>>
           /\ <<>> \o <<c>> = <<c>> /\ Append(<<>>, c) = <<c>>
OBVIOUS

(* While the peer is up and nothing was reset, a read takes the message    *)
(* that is on its way and blocks without one.                              *)
LEMMA ReadTogether ==
    ASSUME conn = "ok", NEW q, NEW got \in Arrived(q, TRUE)
    PROVE  /\ q # <<>>
           /\ \A c : q = <<c>> /\ c.txt \notin {"EOF", "ERR"} =>
                got = c /\ got \notin {EOF, ERR} /\ Rest(q, got) = <<>>
<1>1. q # <<>> /\ got = Head(q)
  BY SMT DEF Arrived
<1>2. \A c : c.txt \notin {"EOF", "ERR"} => c \notin {EOF, ERR}
  BY Messages
<1> QED
  BY <1>1, <1>2, OneMessage DEF Rest

(* While the receiver is up what the sender writes arrives.                *)
LEMMA SndWritesTogether ==
    ASSUME RcvUp, NEW cells, NEW next, NEW lost, SndWrites(cells, next, lost)
    PROVE  toRcv' = toRcv \o cells /\ spc' = next /\ conn' = conn
BY DEF SndWrites

(* A block the sender writes stands behind what was on its way.            *)
LEMMA SndWritesBytes ==
    ASSUME TypeInv, RcvUp, NEW k \in 0..MAXSIZE, NEW t \in [1..MAXSIZE -> Nat],
           NEW next, NEW lost, SndWrites([j \in 1..k |-> Byte(t[j])], next, lost)
    PROVE  /\ Len(toRcv') = Len(toRcv) + k /\ spc' = next /\ conn' = conn
           /\ \A j \in 1..Len(toRcv') :
                toRcv'[j] = IF j <= Len(toRcv) THEN toRcv[j] ELSE Byte(t[j - Len(toRcv)])
<1>1. toRcv \in Seq(Cells) /\ k \in Nat
  BY ConstantsOK DEF TypeInv, TypeOK
<1>2. PICK bytes \in Seq(Cells) :
        /\ bytes = [j \in 1..k |-> Byte(t[j])]
        /\ Len(bytes) = k /\ \A j \in 1..k : bytes[j] = Byte(t[j])
  <2>1. \A j \in 1..k : Byte(t[j]) \in Cells
    BY ConstantsOK, CellType
  <2>2. [j \in 1..k |-> Byte(t[j])] \in Seq(Cells)
    BY <1>1, <2>1
  <2> QED
    BY <1>1, <2>2
<1>3. toRcv' = toRcv \o bytes /\ spc' = next /\ conn' = conn
  BY <1>2, SndWritesTogether
<1> QED
  BY <1>1, <1>2, <1>3

(* The arithmetic of whole blocks.                                         *)
LEMMA WholeBlocks ==
    ASSUME NEW m \in Nat \ {0}, NEW a \in Nat
    PROVE  /\ m * a \in Nat /\ m * 0 = 0 /\ m * (a + 1) = m * a + m
           /\ a = m * (a \div m) + (a % m)
           /\ a \div m \in Nat /\ a % m \in 0..(m - 1)
           /\ \A b \in Nat : a < b => m * a + m <= m * b
<1>1. m * a \in Nat /\ m * 0 = 0 /\ m * (a + 1) = m * a + m
  OBVIOUS
<1>2. a = m * (a \div m) + (a % m)
  OBVIOUS
<1>3. a \div m \in Nat /\ a % m \in 0..(m - 1)
  BY BlockArithmetic
<1>4. ASSUME NEW b \in Nat, a < b PROVE m * a + m <= m * b
  <2>1. PICK d \in Nat : b = a + 1 + d
    <3>1. b - a - 1 \in Nat /\ b = a + 1 + (b - a - 1)
      BY <1>4
    <3> QED
      BY <3>1
  <2>2. m * b = m * a + m + m * d /\ m * d \in Nat
    BY <2>1
  <2> QED
    BY <1>1, <2>2
<1> QED
  BY <1>1, <1>2, <1>4, <1>3

(* While the sender is up what the receiver writes arrives.                *)
LEMMA RcvWritesTogether ==
    ASSUME SndUp, NEW cell, NEW next, RcvWrites(cell, next)
    PROVE  toSnd' = Append(toSnd, cell) /\ rpc' = next /\ conn' = conn
BY DEF RcvWrites

(* A process that has ended takes no step.                                 *)
LEMMA EndsStay ==
    ASSUME [Next]_vars
    PROVE  /\ ~SndUp => UNCHANGED sndVars
           /\ ~RcvUp => UNCHANGED rcvVars
<1> USE DEF sndVars, rcvVars
<1>1. Sender => SndUp /\ UNCHANGED rcvVars
  BY DEF Sender, SndUp, SndEnds, SndAccess, SndRnum, SndName, SndStart, SndSize,
     SndSizeOk, SndBlksOk, SndAwaits, SndLastOk, SndBlock, SndLast, SndNoFread,
     SndConfirm
<1>2. Receiver => RcvUp /\ UNCHANGED sndVars
  BY DEF Receiver, RcvUp, RcvEnds, RcvLen, RcvNameOk, RcvInfo, RcvOpen, RcvSize,
     RcvBlks, RcvLast, RcvBlock, RcvTail, RcvNoTail, RcvClose
<1>3. CrashSnd => SndUp /\ UNCHANGED rcvVars
  BY DEF CrashSnd
<1>4. CrashRcv => RcvUp /\ UNCHANGED sndVars
  BY DEF CrashRcv
<1>5. Edit \/ Terminating \/ UNCHANGED vars => UNCHANGED <<sndVars, rcvVars>>
  BY DEF Edit, Terminating, vars
<1> QED
  BY <1>1, <1>2, <1>3, <1>4, <1>5 DEF Next

(* While both run, each step of the sender answers the message it has read *)
(* and leaves the dialogue in one of its phases.                           *)
LEMMA LockstepSender ==
    ASSUME TypeInv, Lockstep, Heard, SndUp, RcvUp, SndUp', Sender
    PROVE  Lockstep'
<1> DEFINE Phases == Greeting \/ Asking \/ Opening \/ Sizing \/ Counting \/ Resting \/ Sending
<1>0. conn = "ok" /\ Phases
  BY DEF Lockstep
<1>a. ASSUME NEW got \in Arrived(toSnd, RcvUp)
      PROVE  /\ toSnd # <<>>
             /\ \A c : toSnd = <<c>> /\ c.txt \notin {"EOF", "ERR"} =>
                  got = c /\ got \notin {EOF, ERR} /\ Rest(toSnd, got) = <<>>
  <2>1. RcvUp = TRUE
    BY DEF RcvUp
  <2>2. conn = "ok" /\ got \in Arrived(toSnd, TRUE)
    BY <1>0, <2>1
  <2> QED
    BY <2>2, ReadTogether
<1>c. /\ MAXSIZE \in Nat \ {0} /\ count \in Nat /\ si \in Nat /\ ri \in Nat
      /\ temp' \in [1..MAXSIZE -> Nat] /\ toRcv \in Seq(Cells)
  BY TypeSender, ConstantsOK DEF TypeInv, TypeOK
<1>d. Len(toRcv) \in Nat /\ MAXSIZE \in 0..MAXSIZE
  BY <1>c
<1>e. ASSUME NEW k \in 0..MAXSIZE, NEW next, NEW lost,
             SndWrites([j \in 1..k |-> Byte(temp'[j])], next, lost)
      PROVE  Len(toRcv') = Len(toRcv) + k /\ spc' = next /\ conn' = conn
  BY <1>c, <1>e, SndWritesBytes
<1> USE ConstantsOK, Messages, OneMessage
<1>b. rpc' = rpc /\ fsize' = fsize /\ num_blks' = num_blks /\ num_last' = num_last
      /\ ri' = ri
  BY EndsStay DEF Sender, SndUp, SndEnds, SndAccess, SndRnum, SndName, SndStart, SndSize,
     SndSizeOk, SndBlksOk, SndAwaits, SndLastOk, SndBlock, SndLast, SndNoFread,
     SndConfirm, rcvVars
<1> SUFFICES conn' = "ok" /\ Phases'
  BY DEF Lockstep
<1>1. CASE SndRnum
  <2>1. PICK got \in Arrived(toSnd, RcvUp), next \in {"name", "rnum"} :
          /\ toSnd' = Rest(toSnd, got)
          /\ \/ got = ERR
             \/ SndWrites(<<Num(FILENAMEOK)>>, next, next)
    BY <1>1 DEF SndRnum
  <2>2. spc = "rnum"
    BY <1>1 DEF SndRnum
  <2>3. \/ rpc = "nameok" /\ InFlight(<<>>, <<Num(NameLen)>>)
        \/ rpc = "info" /\ InFlight(<<>>, <<Txt("name")>>)
    BY <1>0, <1>a, <2>1, <2>2 DEF Greeting, Asking, Opening, Sizing, Counting, Resting, Sending, InFlight
  <2>4. toSnd' = <<>> /\ SndWrites(<<Num(FILENAMEOK)>>, next, next)
    <3>1. PICK c : toSnd = <<c>> /\ c.txt \notin {"EOF", "ERR"}
      BY <2>3 DEF InFlight
    <3> QED
      BY <1>a, <2>1, <3>1
  <2>5. toRcv' = <<Num(FILENAMEOK)>> /\ spc' = next /\ conn' = conn
    BY <2>3, <2>4, SndWritesTogether DEF InFlight
  <2> QED
    BY <1>0, <1>b, <2>3, <2>4, <2>5 DEF Greeting, Asking, InFlight
<1>2. CASE SndName
  <2>1. PICK got \in Arrived(toSnd, RcvUp) :
          /\ toSnd' = Rest(toSnd, got)
          /\ \/ got = ERR
             \/ SndWrites(<<Num(STARTTRANSFER)>>, "start", "exited")
             \/ spc' = "exited"
    BY <1>2 DEF SndName
  <2>2. spc = "name"
    BY <1>2 DEF SndName
  <2>3. rpc = "info" /\ InFlight(<<>>, <<Txt("name")>>)
    BY <1>0, <1>a, <2>1, <2>2 DEF Greeting, Asking, Opening, Sizing, Counting, Resting, Sending, InFlight
  <2>4. toSnd' = <<>> /\ got # ERR
    <3>1. PICK c : toSnd = <<c>> /\ c.txt \notin {"EOF", "ERR"}
      BY <2>3 DEF InFlight
    <3> QED
      BY <1>a, <2>1, <3>1
  <2>5. SndWrites(<<Num(STARTTRANSFER)>>, "start", "exited")
    BY <2>1, <2>4 DEF SndUp, SndEnds
  <2>6. toRcv' = <<Num(STARTTRANSFER)>> /\ spc' = "start" /\ conn' = conn
    BY <2>3, <2>5, SndWritesTogether DEF InFlight
  <2> QED
    BY <1>0, <1>b, <2>3, <2>4, <2>6 DEF Asking, InFlight
<1>3. CASE SndStart
  <2>1. PICK got \in Arrived(toSnd, RcvUp) : toSnd' = Rest(toSnd, got)
    BY <1>3 DEF SndStart
  <2>2. spc \in {"start", "nofp"} /\ spc' = "size" /\ UNCHANGED <<toRcv, conn>>
    BY <1>3 DEF SndStart, SndUp, SndEnds
  <2>3. rpc \in {"open", "size"} /\ InFlight(<<>>, <<Txt("start")>>)
    BY <1>0, <1>a, <2>1, <2>2 DEF Greeting, Asking, Opening, Sizing, Counting, Resting, Sending, InFlight
  <2>4. toSnd' = <<>>
    <3>1. PICK c : toSnd = <<c>> /\ c.txt \notin {"EOF", "ERR"}
      BY <2>3 DEF InFlight
    <3> QED
      BY <1>a, <2>1, <3>1
  <2> QED
    BY <1>0, <1>b, <2>2, <2>3, <2>4 DEF Opening, InFlight
<1>4. CASE SndSize
  <2>1. /\ spc = "size" /\ SndWrites(<<Num(count)>>, "size_ok", "size_ok")
        /\ count' = count /\ toSnd' = toSnd
    BY <1>4 DEF SndSize
  <2>2. rpc \in {"open", "size"} /\ InFlight(<<>>, <<>>)
    BY <1>0, <2>1 DEF Greeting, Asking, Opening, Sizing, Counting, Resting, Sending, InFlight
  <2>3. toRcv' = <<Num(count)>> /\ spc' = "size_ok" /\ conn' = conn
    BY <2>1, <2>2, SndWritesTogether DEF InFlight
  <2> QED
    BY <1>0, <1>b, <2>1, <2>2, <2>3 DEF Opening, InFlight
<1>5. ASSUME NEW word, NEW c, NEW next, SndAwaits(word, <<c>>, next),
             NEW m, InFlight(<<>>, <<m>>), m.txt \notin {"EOF", "ERR"}
      PROVE  /\ toRcv' = <<c>> /\ toSnd' = <<>> /\ spc' = next
             /\ UNCHANGED <<count, si, conn>>
  <2>1. PICK got \in Arrived(toSnd, RcvUp) :
          /\ toSnd' = Rest(toSnd, got)
          /\ SndWrites(<<c>>, next, next)
    BY <1>5 DEF SndAwaits, SndUp, SndEnds
  <2>2. toSnd' = <<>>
    BY <1>a, <1>5, <2>1 DEF InFlight
  <2> QED
    BY <1>5, <2>1, <2>2, SndWritesTogether DEF InFlight, SndAwaits
<1>6. CASE SndSizeOk
  <2>1. /\ spc = "size_ok"
        /\ SndAwaits("size_ok", <<Num(count \div MAXSIZE)>>, "blks_ok")
    BY <1>6 DEF SndSizeOk
  <2>2. toSnd # <<>>
    BY <1>a, <2>1 DEF SndAwaits
  <2>3. rpc = "blks" /\ fsize = count /\ count # 0 /\ InFlight(<<>>, <<Txt("size_ok")>>)
    BY <1>0, <2>1, <2>2 DEF Greeting, Asking, Opening, Sizing, Counting, Resting, Sending, InFlight
  <2>4. /\ toRcv' = <<Num(count \div MAXSIZE)>> /\ toSnd' = <<>> /\ spc' = "blks_ok"
        /\ UNCHANGED <<count, conn>>
    BY <1>5, <2>1, <2>3
  <2> QED
    BY <1>0, <1>b, <2>3, <2>4 DEF Counting, InFlight, Blocks
<1>7. CASE SndBlksOk
  <2>1. /\ spc = "blks_ok"
        /\ SndAwaits("num_blks_ok", <<Num(count % MAXSIZE)>>, "last_ok")
    BY <1>7 DEF SndBlksOk
  <2>2. toSnd # <<>>
    BY <1>a, <2>1 DEF SndAwaits
  <2>3. /\ rpc = "last" /\ fsize = count /\ count # 0 /\ num_blks = Blocks /\ num_blks # 0
        /\ InFlight(<<>>, <<Txt("num_blks_ok")>>)
    BY <1>0, <2>1, <2>2 DEF Greeting, Asking, Opening, Sizing, Counting, Resting, Sending, InFlight
  <2>4. /\ toRcv' = <<Num(count % MAXSIZE)>> /\ toSnd' = <<>> /\ spc' = "last_ok"
        /\ UNCHANGED <<count, conn>>
    BY <1>5, <2>1, <2>3
  <2> QED
    BY <1>0, <1>b, <2>3, <2>4 DEF Resting, InFlight, Blocks, Last
<1>8. CASE SndLastOk
  <2>1. PICK got \in Arrived(toSnd, RcvUp) : toSnd' = Rest(toSnd, got)
    BY <1>8 DEF SndLastOk
  <2>2. /\ spc = "last_ok" /\ spc' = "blocks"
        /\ UNCHANGED <<si, toRcv, conn>>
    BY <1>8 DEF SndLastOk, SndUp, SndEnds
  <2>3. rpc = "data" /\ ri = 0 /\ InFlight(<<>>, <<Txt("num_last_ok")>>)
    BY <1>0, <1>a, <2>1, <2>2 DEF Greeting, Asking, Opening, Sizing, Counting, Resting, Sending, InFlight
  <2>4. toSnd' = <<>>
    BY <1>a, <2>1, <2>3 DEF InFlight
  <2>5. si = 0 /\ MAXSIZE * 0 = 0
    BY <2>2 DEF Heard, Unsent
  <2>6. Sent' <= Len(toRcv') + MAXSIZE * ri'
    BY <1>b, <2>2, <2>3, <2>5 DEF Sent, InFlight
  <2> QED
    BY <1>0, <1>b, <2>2, <2>3, <2>4, <2>6 DEF Sending
<1>9. CASE SndBlock
  <2>1. /\ spc = "blocks" /\ si' = si + 1 /\ count' = count /\ toSnd' = toSnd
        /\ SndWrites([j \in 1..MAXSIZE |-> Byte(temp'[j])], "blocks", "blocks")
    BY <1>9 DEF SndBlock
  <2>2. Len(toRcv') = Len(toRcv) + MAXSIZE /\ spc' = "blocks" /\ conn' = conn
    BY <1>d, <1>e, <2>1
  <2>3. Sending
    BY <1>0, <2>1 DEF Greeting, Asking, Opening, Sizing, Counting, Resting
  <2>4. MAXSIZE * si' = MAXSIZE * si + MAXSIZE
    BY <1>c, <2>1, WholeBlocks
  <2>5. PICK a, b, d, l \in Int : a = MAXSIZE * si /\ d = MAXSIZE * ri /\ b = MAXSIZE * si' /\ l = Len(toRcv)
    BY <1>c, <2>1
  <2>6. rpc = "data" => b <= Len(toRcv') + d
    BY <1>c, <1>d, <2>1, <2>2, <2>3, <2>4, <2>5 DEF Sending, Sent
  <2> QED
    BY <1>0, <1>b, <2>1, <2>2, <2>3, <2>5, <2>6 DEF Sending, Sent
<1>10. CASE SndLast
  <2>1. /\ spc = "blocks" /\ si = count \div MAXSIZE /\ count' = count /\ toSnd' = toSnd
        /\ SndWrites([j \in 1..count % MAXSIZE |-> Byte(temp'[j])], "confirm", "exited")
    BY <1>10 DEF SndLast, SndUp, SndEnds
  <2>2. count % MAXSIZE \in 0..(MAXSIZE - 1) /\ count = MAXSIZE * si + (count % MAXSIZE)
    BY <1>c, <2>1, WholeBlocks
  <2>3. count % MAXSIZE \in 0..MAXSIZE
    BY <1>c, <2>2
  <2>4. PICK r \in 0..MAXSIZE : r = count % MAXSIZE
    BY <2>3
  <2>5. r = count % MAXSIZE /\ count = MAXSIZE * si + r
    BY <2>2, <2>4
  <2>6. Len(toRcv') = Len(toRcv) + r /\ spc' = "confirm" /\ conn' = conn
    <3>1. SndWrites([j \in 1..r |-> Byte(temp'[j])], "confirm", "exited")
      BY <2>1, <2>5
    <3> QED
      BY <1>e, <3>1
  <2>7. Sending
    BY <1>0, <2>1 DEF Greeting, Asking, Opening, Sizing, Counting, Resting
  <2>8. PICK a, d \in Int : a = MAXSIZE * si /\ d = MAXSIZE * ri
    BY <1>c
  <2>9. rpc = "data" => count <= Len(toRcv') + d
    BY <1>c, <1>d, <2>1, <2>5, <2>6, <2>7, <2>8 DEF Sending, Sent
  <2> QED
    BY <1>0, <1>b, <2>1, <2>6, <2>7, <2>8, <2>9 DEF Sending, Sent
<1>11. CASE SndConfirm
  <2>1. toSnd # <<>> /\ spc = "confirm"
    BY <1>11, <1>a DEF SndConfirm
  <2> QED
    BY <1>0, <2>1 DEF Greeting, Asking, Opening, Sizing, Counting, Resting, Sending
<1>12. ~SndAccess /\ ~SndNoFread
  BY DEF SndAccess, SndNoFread, SndUp, SndEnds
<1> QED
  BY <1>1, <1>2, <1>3, <1>4, <1>6, <1>7, <1>8, <1>9, <1>10, <1>11, <1>12 DEF Sender

(* And so does each step of the receiver.                                  *)
LEMMA LockstepReceiver ==
    ASSUME TypeInv, Lockstep, Receiving, Heard, SndUp, RcvUp, RcvUp', Receiver
    PROVE  Lockstep'
<1> DEFINE Phases == Greeting \/ Asking \/ Opening \/ Sizing \/ Counting \/ Resting \/ Sending
<1>0. conn = "ok" /\ Phases
  BY DEF Lockstep
<1>a. ASSUME NEW got \in Arrived(toRcv, SndUp)
      PROVE  /\ toRcv # <<>>
             /\ \A c : toRcv = <<c>> /\ c.txt \notin {"EOF", "ERR"} =>
                  got = c /\ got \notin {EOF, ERR} /\ Rest(toRcv, got) = <<>>
  <2>1. SndUp = TRUE
    BY DEF SndUp
  <2>2. conn = "ok" /\ got \in Arrived(toRcv, TRUE)
    BY <1>0, <2>1
  <2> QED
    BY <2>2, ReadTogether
<1> USE ConstantsOK, Messages, OneMessage
<1>b. spc' = spc /\ count' = count /\ si' = si
  BY EndsStay DEF Receiver, RcvUp, RcvEnds, RcvLen, RcvNameOk, RcvInfo, RcvOpen, RcvSize,
     RcvBlks, RcvLast, RcvBlock, RcvTail, RcvNoTail, RcvClose, sndVars
<1>c. /\ MAXSIZE \in Nat \ {0} /\ count \in Nat /\ si \in Nat /\ ri \in Nat
      /\ toRcv \in Seq(Cells)
  BY DEF TypeInv, TypeOK
<1>d. Len(toRcv) \in Nat
  BY <1>c
<1> SUFFICES conn' = "ok" /\ Phases'
  BY DEF Lockstep
<1>1. CASE RcvLen
  <2>1. rpc = "len" /\ RcvWrites(Num(NameLen), "nameok") /\ toRcv' = toRcv
    BY <1>1 DEF RcvLen
  <2>2. spc \in {"access", "rnum"} /\ InFlight(<<>>, <<>>)
    BY <1>0, <2>1 DEF Greeting, Asking, Opening, Sizing, Counting, Resting, Sending
  <2>3. toSnd' = <<Num(NameLen)>> /\ rpc' = "nameok" /\ conn' = conn
    BY <2>1, <2>2, RcvWritesTogether DEF InFlight
  <2> QED
    BY <1>0, <1>b, <2>1, <2>2, <2>3 DEF Greeting, InFlight
<1>2. CASE RcvNameOk
  <2>1. PICK got \in Arrived(toRcv, SndUp) :
          /\ toRcv' = Rest(toRcv, got)
          /\ \/ Kept(got) = Num(FILENAMEOK) /\ RcvWrites(Txt("name"), "info")
             \/ Kept(got) # Num(FILENAMEOK)
    BY <1>2 DEF RcvNameOk
  <2>2. rpc = "nameok"
    BY <1>2 DEF RcvNameOk
  <2>3. spc \in {"rnum", "name"} /\ InFlight(<<Num(FILENAMEOK)>>, <<>>)
    BY <1>0, <1>a, <2>1, <2>2 DEF Greeting, Asking, Opening, Sizing, Counting, Resting, Sending, InFlight
  <2>4. toRcv' = <<>> /\ Kept(got) = Num(FILENAMEOK)
    BY <1>a, <2>1, <2>3 DEF InFlight, Kept
  <2>5. toSnd' = <<Txt("name")>> /\ rpc' = "info" /\ conn' = conn
    BY <2>1, <2>3, <2>4, RcvWritesTogether DEF InFlight
  <2> QED
    BY <1>0, <1>b, <2>3, <2>4, <2>5 DEF Asking, InFlight
<1>3. CASE RcvInfo
  <2>1. PICK got \in Arrived(toRcv, SndUp) :
          /\ toRcv' = Rest(toRcv, got)
          /\ Kept(got).num = STARTTRANSFER /\ RcvWrites(Txt("start"), "open")
    BY <1>3 DEF RcvInfo, RcvVerdict, RcvUp, RcvEnds
  <2>2. rpc = "info"
    BY <1>3 DEF RcvInfo
  <2>3. \/ InFlight(<<Num(FILENAMEOK)>>, <<>>)
        \/ spc = "start" /\ InFlight(<<Num(STARTTRANSFER)>>, <<>>)
    BY <1>0, <1>a, <2>1, <2>2 DEF Greeting, Asking, Opening, Sizing, Counting, Resting, Sending, InFlight
  <2>4. PICK n : toRcv = <<Num(n)>> /\ toSnd = <<>>
    BY <2>3 DEF InFlight
  <2>5. toRcv' = <<>> /\ Kept(got) = Num(n)
    BY <1>a, <2>1, <2>4 DEF Kept
  <2>6. n = STARTTRANSFER
    BY <2>1, <2>5
  <2>7. spc = "start"
    BY <2>3, <2>4, <2>6 DEF InFlight, FILENAMEOK, STARTTRANSFER
  <2>8. toSnd' = <<Txt("start")>> /\ rpc' = "open" /\ conn' = conn
    BY <2>1, <2>4, RcvWritesTogether
  <2> QED
    BY <1>0, <1>b, <2>5, <2>7, <2>8 DEF Opening, InFlight
<1>4. CASE RcvOpen
  <2>1. rpc = "open" /\ rpc' = "size" /\ UNCHANGED <<toRcv, toSnd, conn>>
    BY <1>4 DEF RcvOpen, connVars
  <2>2. Opening
    BY <1>0, <2>1 DEF Greeting, Asking, Opening, Sizing, Counting, Resting, Sending
  <2> QED
    BY <1>0, <1>b, <2>1, <2>2 DEF Opening, InFlight
<1>5. CASE RcvSize
  <2>1. PICK got \in Arrived(toRcv, SndUp) :
          toRcv' = Rest(toRcv, got) /\ fsize' = Kept(got).num
    BY <1>5 DEF RcvSize
  <2>2. rpc = "size"
    BY <1>5 DEF RcvSize
  <2>3. spc = "size_ok" /\ InFlight(<<Num(count)>>, <<>>)
    BY <1>0, <1>a, <2>1, <2>2 DEF Greeting, Asking, Opening, Sizing, Counting, Resting, Sending, InFlight
  <2>4. toRcv' = <<>> /\ fsize' = count
    <3>1. Num(count).txt \notin {"EOF", "ERR"}
      OBVIOUS
    <3>2. toRcv' = <<>> /\ got = Num(count) /\ Kept(got) = got
      BY <1>a, <2>1, <2>3, <3>1 DEF InFlight, Kept
    <3> QED
      BY <2>1, <3>2
  <2>5. \/ count # 0 /\ RcvWrites(Txt("size_ok"), "blks")
        \/ count = 0 /\ rpc' = "close" /\ UNCHANGED <<toSnd, conn>>
    BY <1>5, <2>4 DEF RcvSize
  <2>6. \/ count # 0 /\ toSnd' = <<Txt("size_ok")>> /\ rpc' = "blks" /\ conn' = conn
        \/ count = 0 /\ toSnd' = <<>> /\ rpc' = "close" /\ conn' = conn
    BY <2>3, <2>5, RcvWritesTogether DEF InFlight
  <2> QED
    BY <1>0, <1>b, <2>3, <2>4, <2>6 DEF Sizing, InFlight
<1>6. CASE RcvBlks
  <2>1. PICK got \in Arrived(toRcv, SndUp) :
          /\ toRcv' = Rest(toRcv, got)
          /\ \/ got = ERR
             \/ /\ num_blks' = Kept(got).num
                /\ \/ num_blks' # 0 /\ RcvWrites(Txt("num_blks_ok"), "last")
                   \/ num_blks' = 0 /\ rpc' = "close" /\ UNCHANGED <<toSnd, conn>>
    BY <1>6, Zenon DEF RcvBlks
  <2>2. rpc = "blks" /\ fsize' = fsize
    BY <1>6 DEF RcvBlks
  <2>3. spc = "blks_ok" /\ fsize = count /\ count # 0 /\ InFlight(<<Num(Blocks)>>, <<>>)
    BY <1>0, <1>a, <2>1, <2>2 DEF Greeting, Asking, Opening, Sizing, Counting, Resting, Sending, InFlight
  <2>4. toRcv' = <<>> /\ got = Num(Blocks) /\ got # ERR /\ Kept(got) = got
    BY <1>a, <2>1, <2>3 DEF InFlight, Kept
  <2>5. num_blks' = Blocks
    BY <2>1, <2>4
  <2>6. \/ num_blks' # 0 /\ toSnd' = <<Txt("num_blks_ok")>> /\ rpc' = "last" /\ conn' = conn
        \/ num_blks' = 0 /\ toSnd' = <<>> /\ rpc' = "close" /\ conn' = conn
    BY <2>1, <2>3, <2>4, RcvWritesTogether DEF InFlight
  <2> QED
    BY <1>0, <1>b, <2>2, <2>3, <2>4, <2>5, <2>6 DEF Counting, InFlight, Blocks
<1>7. CASE RcvLast
  <2>1. PICK got \in Arrived(toRcv, SndUp) :
          /\ toRcv' = Rest(toRcv, got)
          /\ rbuf' = Kept(got)
          /\ num_last' = IF got = ERR THEN num_last ELSE rbuf'.num
          /\ \/ got = ERR
             \/ /\ rbuf' = Txt("none") \/ num_last' # 0
                /\ RcvWrites(Txt("num_last_ok"), "data")
             \/ /\ ~(rbuf' = Txt("none") \/ num_last' # 0)
                /\ rpc' = "data" /\ UNCHANGED <<toSnd, conn>>
    BY <1>7 DEF RcvLast
  <2>2. rpc = "last" /\ UNCHANGED <<fsize, num_blks, ri>>
    BY <1>7 DEF RcvLast
  <2>3. /\ spc = "last_ok" /\ fsize = count /\ count # 0 /\ num_blks = Blocks /\ num_blks # 0
        /\ InFlight(<<Num(Last)>>, <<>>)
    BY <1>0, <1>a, <2>1, <2>2 DEF Greeting, Asking, Opening, Sizing, Counting, Resting, Sending, InFlight
  <2>4. toRcv' = <<>> /\ got = Num(Last) /\ got # ERR /\ Kept(got) = got
    BY <1>a, <2>1, <2>3 DEF InFlight, Kept
  <2>5. num_last' = Last /\ rbuf' # Txt("none")
    BY <2>1, <2>4
  <2>6. \/ num_last' # 0 /\ toSnd' = <<Txt("num_last_ok")>> /\ rpc' = "data" /\ conn' = conn
        \/ num_last' = 0 /\ toSnd' = <<>> /\ rpc' = "data" /\ conn' = conn
    BY <2>1, <2>3, <2>4, <2>5, RcvWritesTogether DEF InFlight
  <2>7. ri = 0
    BY <2>2 DEF Receiving
  <2> QED
    BY <1>0, <1>b, <2>2, <2>3, <2>4, <2>5, <2>6, <2>7 DEF Resting, InFlight, Blocks, Last
<1>8. CASE RcvBlock
  <2>1. PICK n \in Delivered(MAXSIZE) : RcvStores(MAXSIZE, n, "data") /\ ri' = ri + 1
    BY <1>0, <1>8 DEF RcvBlock
  <2>2. rpc = "data" /\ toSnd' = toSnd
    BY <1>8 DEF RcvBlock
  <2>3. toRcv # <<>>
    BY <2>1 DEF Delivered
  <2>4. Sending
    BY <1>0, <2>2, <2>3 DEF Greeting, Asking, Opening, Sizing, Counting, Resting, InFlight
  <2>5. /\ toRcv' = SubSeq(toRcv, n + 1, Len(toRcv)) /\ rpc' = "data" /\ conn' = conn
    BY <2>1 DEF RcvStores, RcvUp, RcvEnds
  <2>6. n \in 0..Len(toRcv) /\ n <= MAXSIZE
    BY <1>c, <2>1, DeliveredType DEF TypeInv
  <2>7. Len(toRcv') = Len(toRcv) - n
    BY <1>c, <2>5, <2>6
  <2>8. MAXSIZE * ri' = MAXSIZE * ri + MAXSIZE /\ Sent' = Sent
    BY <1>b, <1>c, <2>1, WholeBlocks DEF Sent
  <2>9. Sent \in Nat /\ MAXSIZE * ri \in Nat
    BY <1>c, WholeBlocks DEF Sent
  <2>10. PICK d \in Nat : d = MAXSIZE * ri
    BY <2>9
  <2>11. Sent' <= Len(toRcv') + MAXSIZE * ri'
    BY <1>c, <1>d, <2>2, <2>4, <2>6, <2>7, <2>8, <2>9, <2>10 DEF Sending
  <2> QED
    BY <1>0, <1>b, <2>2, <2>4, <2>5, <2>11 DEF Sending
<1>9. CASE RcvTail
  <2>1. /\ rpc = "data" /\ ri = num_blks /\ num_last # 0 /\ toSnd' = toSnd
        /\ rpc' = "close" /\ conn' = conn
    BY <1>9 DEF RcvTail, RcvStores, RcvUp, RcvEnds
  <2>2. Sending
    BY <1>0, <2>1 DEF Greeting, Asking, Opening, Sizing, Counting, Resting
  <2> QED
    BY <1>0, <1>b, <2>1, <2>2 DEF Sending
<1>10. CASE RcvNoTail
  <2>1. rpc = "data" /\ ri = num_blks /\ num_last = 0
    BY <1>10 DEF RcvNoTail
  <2> QED
    BY <1>0, <2>1 DEF Greeting, Asking, Opening, Sizing, Counting, Resting, Sending, Heard, Meant, Settled
<1>11. ~RcvClose
  BY DEF RcvClose, RcvWrites, RcvUp, RcvEnds
<1> QED
  BY <1>1, <1>2, <1>3, <1>4, <1>5, <1>6, <1>7, <1>8, <1>9, <1>10, <1>11 DEF Receiver

(* While both run they stay in step.                                       *)
LEMMA LockstepStep ==
    ASSUME TypeInv, Lockstep, Receiving, Heard, [Next]_vars
    PROVE  Lockstep'
<1> SUFFICES ASSUME SndUp', RcvUp' PROVE Lockstep'
  BY DEF Lockstep
<1>1. SndUp /\ RcvUp
  BY EndsStay DEF SndUp, RcvUp, sndVars, rcvVars
<1>2. ~CrashSnd /\ ~CrashRcv
  BY DEF CrashSnd, CrashRcv, SndUp, SndEnds, RcvUp, RcvEnds
<1>3. CASE Edit \/ UNCHANGED vars
  <2>1. UNCHANGED <<sndVars, rcvVars, connVars>>
    BY <1>3 DEF Edit, vars
  <2> QED
    BY <2>1 DEF Lockstep, Greeting, Asking, Opening, Sizing, Counting, Resting, Sending,
       InFlight, Blocks, Last, Sent, SndUp, RcvUp, sndVars, rcvVars, connVars
<1> QED
  BY <1>1, <1>2, <1>3, LockstepSender, LockstepReceiver DEF Next, Terminating

-----------------------------------------------------------------------------
(* A read, whoever is up: it takes the oldest message, or nothing.         *)
LEMMA ReadAny ==
    ASSUME NEW q \in Seq(Cells), NEW up, NEW got \in Arrived(q, up)
    PROVE  \/ got \in {EOF, ERR} /\ Rest(q, got) = q
           \/ got \notin {EOF, ERR} /\ q # <<>> /\ got = Head(q) /\ Rest(q, got) = Tail(q)
<1>1. got \notin {EOF, ERR} => q # <<>> /\ got = Head(q)
  BY SMT DEF Arrived
<1> QED
  BY <1>1 DEF Rest

(* From a stream of at most one message, a read leaves it or nothing.      *)
LEMMA ReadShort ==
    ASSUME NEW q \in Seq(Cells), Len(q) <= 1, NEW up, NEW got \in Arrived(q, up)
    PROVE  Rest(q, got) \in {q, <<>>}
<1>1. q # <<>> => Tail(q) = <<>>
  OBVIOUS
<1> QED
  BY <1>1, ReadAny

(* A stream of at most one message that is not empty is its head.          *)
LEMMA ShortStream ==
    ASSUME NEW q \in Seq(Cells), Len(q) <= 1, q # <<>>
    PROVE  q = <<Head(q)>>
<1>1. Len(q) = 1 /\ Head(q) = q[1] /\ q[1] \in Cells
  <2>1. Len(q) \in Nat \ {0}
    OBVIOUS
  <2>2. Len(q) = 1
    BY <2>1
  <2> QED
    BY <2>2
<1>2. q \in [1..1 -> Cells] /\ <<Head(q)>> \in [1..1 -> Cells]
  BY <1>1
<1>3. \A k \in 1..1 : q[k] = <<Head(q)>>[k]
  BY <1>1
<1> QED
  BY <1>2, <1>3

(* How the stream to the sender changes: it is left alone or read, or both *)
(* processes stay up, or the receiver says its last word.                  *)
LEMMA ToSenderStep ==
    ASSUME TypeInv, Streams, [Next]_vars
    PROVE  \/ toSnd' \in {toSnd, <<>>}
           \/ SndUp /\ SndUp' /\ RcvUp /\ RcvUp'
           \/ /\ SndUp /\ rpc = "close" /\ rpc' = "closed"
              /\ toSnd' = Append(toSnd, Txt("file_recv"))
<1>0. toSnd \in Seq(Cells) /\ Len(toSnd) <= 1
  BY DEF TypeInv, TypeOK, Streams
<1>1. \A up : \A got \in Arrived(toSnd, up) : Rest(toSnd, got) \in {toSnd, <<>>}
  BY <1>0, ReadShort
<1>2. ASSUME Sender PROVE toSnd' \in {toSnd, <<>>}
  BY <1>1, <1>2 DEF Sender, SndAccess, SndRnum, SndName, SndStart, SndSize, SndSizeOk, SndBlksOk,
     SndAwaits, SndLastOk, SndBlock, SndLast, SndNoFread, SndConfirm
<1>3. ASSUME NEW cell, NEW next, next \notin RcvEnds, RcvWrites(cell, next)
      PROVE  toSnd' = toSnd \/ (SndUp /\ RcvUp')
  BY <1>3 DEF RcvWrites, RcvUp, RcvEnds
<1>4. ASSUME Receiver, ~RcvClose PROVE toSnd' = toSnd \/ (SndUp /\ RcvUp')
  <2>1. CASE RcvLen
    BY <1>3, <2>1 DEF RcvLen, RcvEnds
  <2>2. ASSUME NEW msg, RcvVerdict(msg) PROVE toSnd' = toSnd \/ (SndUp /\ RcvUp')
    BY <1>3, <2>2 DEF RcvVerdict, RcvEnds
  <2>3. CASE RcvNameOk \/ RcvInfo
    BY <1>3, <2>2, <2>3 DEF RcvNameOk, RcvInfo, RcvEnds
  <2>4. CASE RcvSize \/ RcvBlks \/ RcvLast
    BY <1>3, <2>4 DEF RcvSize, RcvBlks, RcvLast, RcvEnds
  <2>5. CASE RcvOpen \/ RcvBlock \/ RcvTail \/ RcvNoTail
    BY <2>5 DEF RcvOpen, RcvBlock, RcvTail, RcvNoTail, connVars
  <2> QED
    BY <1>4, <2>1, <2>3, <2>4, <2>5 DEF Receiver
<1>5. ASSUME RcvClose
      PROVE  \/ toSnd' = toSnd
             \/ /\ SndUp /\ rpc = "close" /\ rpc' = "closed"
                /\ toSnd' = Append(toSnd, Txt("file_recv"))
  BY <1>5 DEF RcvClose, RcvWrites
<1>6. ASSUME Receiver PROVE RcvUp /\ SndUp' = SndUp
  <2>1. RcvUp /\ spc' = spc
    BY <1>6 DEF Receiver, RcvUp, RcvEnds, RcvLen, RcvNameOk, RcvInfo, RcvOpen, RcvSize,
     RcvBlks, RcvLast, RcvBlock, RcvTail, RcvNoTail, RcvClose, sndVars
  <2> QED
    BY <2>1 DEF SndUp
<1>7. CASE CrashSnd \/ CrashRcv \/ Edit \/ UNCHANGED vars
  BY <1>7 DEF CrashSnd, CrashRcv, Edit, vars, connVars
<1> QED
  BY <1>2, <1>4, <1>5, <1>6, <1>7 DEF Next, Terminating

(* The messages to the sender never pile up.                               *)
LEMMA ToSenderShort ==
    ASSUME TypeInv, Lockstep, Lockstep', Streams, [Next]_vars
    PROVE  Len(toSnd') <= 1
<1>0. /\ Len(toSnd) <= 1 /\ Len(<<>>) = 0
      /\ \A c : Len(<<c>>) = 1 /\ Append(<<>>, c) = <<c>>
  BY DEF Streams
<1>1. CASE toSnd' \in {toSnd, <<>>}
  BY <1>0, <1>1
<1>2. CASE SndUp' /\ RcvUp'
  <2>1. toSnd' = <<>> \/ \E c : toSnd' = <<c>>
    BY <1>2 DEF Lockstep, Greeting, Asking, Opening, Sizing, Counting, Resting, Sending, InFlight
  <2>2. CASE toSnd' = <<>>
    BY <1>0, <2>2
  <2>3. ASSUME NEW c, toSnd' = <<c>> PROVE Len(toSnd') <= 1
    BY <1>0, <2>3
  <2> QED
    BY <2>1, <2>2, <2>3
<1>3. CASE SndUp /\ rpc = "close" /\ toSnd' = Append(toSnd, Txt("file_recv"))
  <2>1. RcvUp
    BY <1>3 DEF RcvUp, RcvEnds
  <2>2. toSnd = <<>>
    BY <1>3, <2>1 DEF Lockstep, Greeting, Asking, Opening, Sizing, Counting, Resting, Sending, InFlight
  <2> QED
    BY <1>0, <1>3, <2>2
<1> QED
  BY <1>1, <1>2, <1>3, ToSenderStep

(* The receiver only reads its stream, and has read its last number before *)
(* it turns to file data.                                                  *)
LEMMA StreamsReceiver ==
    ASSUME TypeInv, Streams, Receiver
    PROVE  Numbers' /\ FileData'
<1>0. toRcv \in Seq(Cells) /\ toRcv' \in Seq(Cells)
  BY TypeReceiver DEF TypeInv, TypeOK
<1>1. CASE RcvLen
  BY <1>1 DEF RcvLen, RcvWrites, Streams, Numbers, FileData
<1>2. ASSUME NEW got \in Arrived(toRcv, SndUp), toRcv' = Rest(toRcv, got),
             rpc \in {"nameok", "info", "size", "blks", "last"}
      PROVE  /\ toRcv' \in {toRcv, <<>>} /\ (got # ERR => toRcv' = <<>>)
             /\ Numbers'
  <2>1. Len(toRcv) <= 1 /\ (toRcv # <<>> => toRcv[1].txt = "number")
    BY <1>2 DEF Streams, Numbers
  <2>2. toRcv' \in {toRcv, <<>>}
    BY <1>0, <1>2, <2>1, ReadShort
  <2>3. ASSUME got # ERR PROVE toRcv' = <<>>
    <3>1. CASE toRcv = <<>>
      BY <2>2, <3>1
    <3>2. CASE toRcv # <<>>
      <4>1. got = Head(toRcv) /\ toRcv[1] = Head(toRcv)
        BY <1>0, <1>2, <2>3, <3>2, SMT DEF Arrived
      <4>2. got \notin {EOF, ERR}
        BY <2>1, <3>2, <4>1, Messages
      <4>3. Len(Tail(toRcv)) = Len(toRcv) - 1 /\ Tail(toRcv) \in Seq(Cells)
        BY <1>0, <3>2
      <4>4. Rest(toRcv, got) = Tail(toRcv)
        BY <4>2 DEF Rest
      <4>5. Tail(toRcv) = <<>>
        BY <1>0, <2>1, <3>2, <4>3
      <4> QED
        BY <1>2, <4>4, <4>5
    <3> QED
      BY <3>1, <3>2
  <2>4. Numbers'
    BY <2>1, <2>2 DEF Numbers
  <2> QED
    BY <2>2, <2>3, <2>4
<1>3. CASE RcvNameOk \/ RcvInfo \/ RcvSize \/ RcvBlks
  <2>1. PICK got \in Arrived(toRcv, SndUp) : toRcv' = Rest(toRcv, got)
    BY <1>3 DEF RcvNameOk, RcvInfo, RcvSize, RcvBlks
  <2>2. rpc \in {"nameok", "info", "size", "blks"} /\ rpc' # "data"
    BY <1>3 DEF RcvNameOk, RcvInfo, RcvSize, RcvBlks, RcvVerdict, RcvWrites
  <2> QED
    BY <1>2, <2>1, <2>2 DEF FileData
<1>4. CASE RcvLast
  <2>1. PICK got \in Arrived(toRcv, SndUp) :
          toRcv' = Rest(toRcv, got) /\ (got = ERR => rpc' = "exited")
    BY <1>4 DEF RcvLast
  <2>2. rpc = "last"
    BY <1>4 DEF RcvLast
  <2>3. rpc' = "data" => toRcv' = <<>>
    BY <1>2, <2>1, <2>2
  <2>4. Numbers'
    BY <1>2, <2>1, <2>2
  <2> QED
    BY <2>3, <2>4 DEF FileData
<1>5. CASE RcvOpen
  BY <1>5 DEF RcvOpen, connVars, Streams, Numbers, FileData
<1>6. CASE RcvBlock
  <2>1. rpc = "data" /\ rpc' \in {"data", "killed", "exited"}
    BY <1>6 DEF RcvBlock, RcvStores
  <2>2. CASE toRcv' = toRcv
    BY <2>1, <2>2 DEF Streams, Numbers, FileData
  <2>3. CASE \E n \in Delivered(MAXSIZE) : RcvStores(MAXSIZE, n, "data")
    <3>1. PICK n \in 0..Len(toRcv) : toRcv' = SubSeq(toRcv, n + 1, Len(toRcv))
      BY <1>0, <2>3, DeliveredType, ConstantsOK DEF RcvStores
    <3>2. \A k \in 1..Len(toRcv') : k + n \in 1..Len(toRcv) /\ toRcv'[k] = toRcv[k + n]
      BY <1>0, <3>1
    <3> QED
      BY <2>1, <3>2 DEF Streams, Numbers, FileData
  <2> QED
    BY <1>6, <2>2, <2>3 DEF RcvBlock
<1>7. CASE RcvTail \/ RcvNoTail \/ RcvClose
  <2>1. rpc' \in {"close", "closed", "killed"}
    BY <1>7 DEF RcvTail, RcvStores, RcvNoTail, RcvClose, RcvWrites
  <2> QED
    BY <2>1 DEF Numbers, FileData
<1> QED
  BY <1>1, <1>3, <1>4, <1>5, <1>6, <1>7 DEF Receiver

(* What the sender puts on its way belongs where the dialogue stands.      *)
LEMMA StreamsSender ==
    ASSUME TypeInv, Lockstep, Lockstep', Streams, Sender
    PROVE  Numbers' /\ FileData'
<1> SUFFICES ASSUME RcvUp PROVE Numbers' /\ FileData'
  <2>1. ~RcvUp => rpc' \in RcvEnds
    BY EndsStay DEF RcvUp, Next, rcvVars
  <2> QED
    BY <2>1 DEF Numbers, FileData, RcvEnds
<1>0. toRcv \in Seq(Cells) /\ toRcv' \in Seq(Cells) /\ temp' \in [1..MAXSIZE -> Nat]
  BY TypeSender DEF TypeInv, TypeOK
<1>1. rpc' = rpc /\ RcvUp'
  BY EndsStay DEF Sender, RcvUp, SndAccess, SndRnum, SndName, SndStart, SndSize,
     SndSizeOk, SndBlksOk, SndAwaits, SndLastOk, SndBlock, SndLast, SndNoFread,
     SndConfirm, rcvVars
<1>2. CASE toRcv' = toRcv
  BY <1>1, <1>2 DEF Streams, Numbers, FileData
<1>3. CASE toRcv' # toRcv /\ ~(SndBlock \/ SndLast)
  <2>1. SndUp' /\ spc' \notin {"blocks", "confirm"}
    <3>1. ASSUME NEW cells, NEW next, NEW lost, SndWrites(cells, next, lost)
          PROVE  spc' = next
      BY <3>1 DEF SndWrites
    <3>2. CASE SndRnum
      BY <1>3, <3>1, <3>2 DEF SndRnum, SndUp, SndEnds
    <3>3. CASE SndName
      BY <1>3, <3>1, <3>3 DEF SndName, SndUp, SndEnds
    <3>4. CASE SndSize \/ SndSizeOk \/ SndBlksOk
      BY <1>3, <3>1, <3>4 DEF SndSize, SndSizeOk, SndBlksOk, SndAwaits, SndUp, SndEnds
    <3>5. ~(SndAccess \/ SndStart \/ SndLastOk \/ SndNoFread \/ SndConfirm)
      BY <1>3 DEF SndAccess, SndStart, SndLastOk, SndNoFread, SndConfirm
    <3> QED
      BY <1>3, <3>2, <3>3, <3>4, <3>5 DEF Sender
  <2>2. toRcv' = <<>> \/ (rpc' # "data" /\ \E n : toRcv' = <<Num(n)>>)
    BY <1>1, <2>1 DEF Lockstep, Greeting, Asking, Opening, Sizing, Counting, Resting, Sending, InFlight
  <2>3. CASE toRcv' = <<>>
    BY <2>3 DEF Numbers, FileData
  <2>4. ASSUME NEW n, toRcv' = <<Num(n)>>, rpc' # "data"
        PROVE  Numbers' /\ FileData'
    <3>1. Len(<<Num(n)>>) = 1 /\ <<Num(n)>>[1].txt = "number"
      BY Messages
    <3> QED
      BY <2>4, <3>1 DEF Numbers, FileData
  <2> QED
    BY <2>2, <2>3, <2>4
<1>4. ASSUME NEW k \in 0..MAXSIZE, NEW next, NEW lost, rpc = "data",
             SndWrites([j \in 1..k |-> Byte(temp'[j])], next, lost)
      PROVE  \A j \in 1..Len(toRcv') : toRcv'[j].txt = "byte"
  <2>1. \A j \in 1..Len(toRcv') :
          toRcv'[j] = IF j <= Len(toRcv) THEN toRcv[j] ELSE Byte(temp'[j - Len(toRcv)])
    BY <1>0, <1>4, SndWritesBytes
  <2>2. \A n : Byte(n).txt = "byte"
    BY DEF Byte
  <2>3. \A j \in 1..Len(toRcv) : toRcv[j].txt = "byte"
    BY <1>4 DEF Streams, FileData
  <2> QED
    BY <1>0, <2>1, <2>2, <2>3
<1>5. CASE toRcv' # toRcv /\ (SndBlock \/ SndLast)
  <2>1. spc = "blocks" /\ SndUp
    BY <1>5 DEF SndBlock, SndLast, SndUp, SndEnds
  <2>2. rpc \in {"data", "close"}
    BY <2>1 DEF Lockstep, Greeting, Asking, Opening, Sizing, Counting, Resting, Sending
  <2>3. PICK k, next, lost :
          /\ k \in 0..MAXSIZE
          /\ SndWrites([j \in 1..k |-> Byte(temp'[j])], next, lost)
    <3>1. MAXSIZE \in 0..MAXSIZE /\ count % MAXSIZE \in 0..MAXSIZE
      BY ConstantsOK DEF TypeInv, TypeOK
    <3> QED
      BY <1>5, <3>1 DEF SndBlock, SndLast
  <2> QED
    BY <1>1, <1>4, <2>2, <2>3 DEF Numbers, FileData
<1> QED
  BY <1>2, <1>3, <1>5

(* Every step keeps the streams in order.                                  *)
LEMMA StreamsStep ==
    ASSUME TypeInv, Lockstep, Lockstep', Streams, [Next]_vars
    PROVE  Streams'
<1>1. CASE CrashSnd \/ Edit \/ UNCHANGED vars
  <2>1. UNCHANGED <<rpc, toRcv>>
    BY <1>1 DEF CrashSnd, Edit, vars, rcvVars, connVars
  <2>2. Numbers' /\ FileData'
    BY <2>1 DEF Streams, Numbers, FileData
  <2> QED
    BY <2>2, ToSenderShort DEF Streams
<1>2. CASE CrashRcv
  <2>1. Numbers' /\ FileData'
    BY <1>2 DEF CrashRcv, Numbers, FileData
  <2> QED
    BY <2>1, ToSenderShort DEF Streams
<1>3. CASE Sender
  BY <1>3, StreamsSender, ToSenderShort DEF Streams
<1>4. CASE Receiver
  BY <1>4, StreamsReceiver, ToSenderShort DEF Streams
<1> QED
  BY <1>1, <1>2, <1>3, <1>4 DEF Next, Terminating

-----------------------------------------------------------------------------
(* What a write does to the receiver itself.                               *)
LEMMA RcvWritesNext ==
    ASSUME NEW cell, NEW next, RcvWrites(cell, next)
    PROVE  rpc' \in {next, "killed"}
BY DEF RcvWrites

(* Whatever a read returns, it is no more than has come.                   *)
LEMMA DeliveredCame ==
    ASSUME TypeInv
    PROVE  /\ \A n \in Delivered(MAXSIZE) : n \in 0..Len(toRcv)
           /\ \A n \in Delivered(num_last) \cup (IF conn = "rst" THEN {0} ELSE {}) :
                n \in 0..Len(toRcv)
<1>1. /\ toRcv \in Seq(Cells) /\ MAXSIZE \in Nat /\ num_last \in Nat
  BY ConstantsOK DEF TypeInv, TypeOK
<1>2. 0 \in 0..Len(toRcv)
  BY <1>1
<1> QED
  BY <1>1, <1>2, DeliveredType

(* Storing k bytes makes the local copy k bytes longer.                    *)
LEMMA StoresLength ==
    ASSUME TypeInv, NEW k \in Nat, NEW n \in 0..Len(toRcv), NEW next, RcvStores(k, n, next)
    PROVE  \/ rpc' = next /\ fp = "open" /\ Len(dst') = Len(dst) + k
           \/ rpc' = "killed" /\ fp = "null" /\ dst' = dst
<1> DEFINE new == [j \in 1..k |-> IF j <= MAXSIZE THEN blk'[j] ELSE Junk]
<1>1. dst \in Seq(Nat \cup {OldByte}) /\ blk' \in [1..MAXSIZE -> Nat] /\ MAXSIZE \in Nat
  BY RcvStoresType, ConstantsOK DEF TypeInv, TypeOK
<1>2. \A j \in 1..k : (IF j <= MAXSIZE THEN blk'[j] ELSE Junk) \in Nat \cup {OldByte}
  BY <1>1 DEF Junk
<1>3. new \in Seq(Nat \cup {OldByte}) /\ Len(new) = k
  BY <1>2
<1>4. Len(dst \o new) = Len(dst) + k
  BY <1>1, <1>3
<1>5. \/ fp = "open" /\ rpc' = next /\ dst' = dst \o new
      \/ fp = "null" /\ rpc' = "killed" /\ dst' = dst
  BY DEF RcvStores
<1> QED
  BY <1>4, <1>5

(* The receiver's own counts and copy keep step with its loop.             *)
LEMMA ReceivingStep ==
    ASSUME TypeInv, Receiving, [Next]_vars
    PROVE  Receiving'
<1> USE ConstantsOK
<1>0. MAXSIZE \in Nat \ {0} /\ ri \in Nat /\ num_blks \in Nat /\ num_last \in Nat
  BY DEF TypeInv, TypeOK
<1>1. CASE Sender \/ CrashSnd \/ Edit \/ UNCHANGED vars
  <2>1. UNCHANGED rcvVars
    BY <1>1 DEF Sender, SndAccess, SndRnum, SndName, SndStart, SndSize, SndSizeOk, SndBlksOk,
       SndAwaits, SndLastOk, SndBlock, SndLast, SndNoFread, SndConfirm, CrashSnd, Edit, vars
  <2> QED
    BY <2>1 DEF Receiving, rcvVars, RcvEnds
<1>2. CASE CrashRcv
  BY <1>2 DEF CrashRcv, Receiving, RcvEnds
<1>3. CASE RcvLen
  <2>1. rpc = "len" /\ rpc' \in {"nameok", "killed"} /\ UNCHANGED rcvData
    BY <1>3, RcvWritesNext DEF RcvLen
  <2> QED
    BY <2>1 DEF Receiving, RcvEnds, rcvData
<1>4. CASE RcvNameOk \/ RcvInfo
  <2>1. /\ rpc \in {"nameok", "info"} /\ rpc' \in {"info", "open", "exited", "killed"}
        /\ UNCHANGED rcvData
    BY <1>4, RcvWritesNext DEF RcvNameOk, RcvInfo, RcvVerdict
  <2> QED
    BY <2>1 DEF Receiving, RcvEnds, rcvData
<1>5. CASE RcvOpen
  <2>1. /\ rpc = "open" /\ rpc' = "size" /\ (fp' = "open" => dst' = <<>>)
        /\ UNCHANGED <<num_blks, num_last, ri, said>>
    BY <1>5 DEF RcvOpen
  <2> QED
    BY <2>1 DEF Receiving, RcvEnds
<1>6. CASE RcvSize
  <2>1. /\ rpc = "size" /\ rpc' \in {"blks", "close", "killed"}
        /\ UNCHANGED <<fp, num_blks, num_last, ri, dst, said>>
    BY <1>6, RcvWritesNext DEF RcvSize
  <2> QED
    BY <2>1 DEF Receiving, RcvEnds
<1>7. CASE RcvBlks
  <2>1. /\ rpc = "blks" /\ rpc' \in {"last", "close", "exited", "killed"}
        /\ rpc' = "close" => num_blks' = 0
        /\ UNCHANGED <<fp, num_last, ri, dst, said>>
    BY <1>7, RcvWritesNext DEF RcvBlks
  <2> QED
    BY <2>1 DEF Receiving, RcvEnds
<1>8. CASE RcvLast
  <2>1. /\ rpc = "last" /\ rpc' \in {"data", "exited", "killed"}
        /\ UNCHANGED <<fp, num_blks, ri, dst, said>>
    BY <1>8, RcvWritesNext DEF RcvLast
  <2>2. ri = 0 /\ (fp = "open" => dst = <<>>) /\ MAXSIZE * 0 = 0 /\ Len(<<>>) = 0
    BY <1>0, <2>1 DEF Receiving
  <2> QED
    BY <1>0, <2>1, <2>2 DEF Receiving, RcvEnds
<1>9. CASE RcvBlock
  <2>1. /\ rpc = "data" /\ ri < num_blks
        /\ UNCHANGED <<fp, num_blks, num_last, said>>
    BY <1>9 DEF RcvBlock
  <2>2. \/ /\ rpc' = "data" /\ fp = "open" /\ ri' = ri + 1
           /\ Len(dst') = Len(dst) + MAXSIZE
        \/ rpc' \in {"killed", "exited"}
    BY <1>0, <1>9, StoresLength, DeliveredCame DEF RcvBlock
  <2>3. MAXSIZE * (ri + 1) = MAXSIZE * ri + MAXSIZE /\ MAXSIZE * ri \in Nat
    BY <1>0, WholeBlocks
  <2>4. rpc' = "data" /\ fp' = "open" => Len(dst') = MAXSIZE * ri'
    BY <1>0, <2>1, <2>2, <2>3 DEF Receiving
  <2>5. rpc' = "data" => ri' <= num_blks'
    BY <1>0, <2>1, <2>2
  <2> QED
    BY <2>1, <2>2, <2>4, <2>5 DEF Receiving, RcvEnds
<1>10. CASE RcvTail
  <2>1. /\ rpc = "data" /\ ri = num_blks
        /\ UNCHANGED <<fp, num_blks, num_last, ri>>
        /\ said' # "all" \/ rpc' = "close" \/ said' = said
    BY <1>10 DEF RcvTail
  <2>2. \/ rpc' = "close" /\ fp = "open" /\ Len(dst') = Len(dst) + num_last
        \/ rpc' = "killed"
    BY <1>0, <1>10, StoresLength, DeliveredCame DEF RcvTail
  <2>3. rpc' = "close" /\ fp' = "open" => Len(dst') = MAXSIZE * num_blks' + num_last'
    BY <2>1, <2>2 DEF Receiving
  <2> QED
    BY <2>1, <2>2, <2>3 DEF Receiving, RcvEnds
<1>11. CASE RcvNoTail
  <2>1. /\ rpc = "data" /\ ri = num_blks /\ num_last = 0 /\ rpc' = "close"
        /\ UNCHANGED <<fp, num_blks, num_last, ri, dst, said>>
    BY <1>11 DEF RcvNoTail, rcvData
  <2>2. MAXSIZE * num_blks + 0 = MAXSIZE * num_blks
    BY <1>0
  <2> QED
    BY <2>1, <2>2 DEF Receiving, RcvEnds
<1>12. CASE RcvClose
  <2>1. /\ rpc = "close" /\ rpc' \in {"closed", "killed"} /\ (rpc' = "closed" => fp = "open")
        /\ UNCHANGED <<fp, num_blks, num_last, ri, dst, said>>
    BY <1>12, RcvWritesNext DEF RcvClose, rcvData
  <2> QED
    BY <2>1 DEF Receiving, RcvEnds
<1> QED
  BY <1>1, <1>2, <1>3, <1>4, <1>5, <1>6, <1>7, <1>8, <1>9, <1>10, <1>11, <1>12
  DEF Next, Receiver, Terminating

-----------------------------------------------------------------------------
(* What has been settled stays so: the receiver is past its dialogue, and  *)
(* the sender counts only once.                                            *)
LEMMA SettledStays ==
    ASSUME Settled, [Next]_vars, spc \in {"last_ok", "blocks", "confirm"} \cup SndEnds
    PROVE  Settled'
<1>1. CASE Sender \/ CrashSnd \/ Edit \/ UNCHANGED vars
  <2>1. UNCHANGED <<rcvVars, count>>
    BY <1>1 DEF Sender, SndAccess, SndRnum, SndName, SndStart, SndSize, SndSizeOk, SndBlksOk,
       SndAwaits, SndLastOk, SndBlock, SndLast, SndNoFread, SndConfirm, CrashSnd, Edit, vars,
       sndVars, SndEnds
  <2> QED
    BY <2>1 DEF Settled, Blocks, Last, rcvVars, RcvEnds
<1>2. CASE RcvBlock \/ RcvTail \/ RcvNoTail \/ RcvClose \/ CrashRcv
  <2>1. /\ rpc' \in {"data", "close", "closed", "exited", "killed"}
        /\ UNCHANGED <<fsize, num_blks, num_last, count>>
    BY <1>2, RcvWritesNext DEF RcvBlock, RcvTail, RcvStores, RcvNoTail, RcvClose, CrashRcv,
       rcvData, sndVars
  <2> QED
    BY <2>1 DEF Settled, Blocks, Last, RcvEnds
<1>3. ~(RcvLen \/ RcvNameOk \/ RcvInfo \/ RcvOpen \/ RcvSize \/ RcvBlks \/ RcvLast)
  BY DEF Settled, RcvEnds, RcvLen, RcvNameOk, RcvInfo, RcvOpen, RcvSize, RcvBlks, RcvLast
<1> QED
  BY <1>1, <1>2, <1>3 DEF Next, Receiver, Terminating

(* The sender goes on to the blocks only over num_last_ok.                 *)
LEMMA LastOkRead ==
    ASSUME TypeInv, Streams, SndLastOk, spc' = "blocks"
    PROVE  toSnd = <<Txt("num_last_ok")>>
<1>1. Txt("num_last_ok") \in Arrived(toSnd, RcvUp)
  BY DEF SndLastOk
<1>2. Txt("num_last_ok") \notin {EOF, ERR}
  BY Messages
<1>3. toSnd # <<>> /\ Head(toSnd) = Txt("num_last_ok")
  BY <1>1, <1>2, SMT DEF Arrived
<1>4. toSnd \in Seq(Cells) /\ Len(toSnd) <= 1
  BY DEF TypeInv, TypeOK, Streams
<1> QED
  BY <1>3, <1>4, ShortStream

(* The sender sends blocks only when it has read num_last_ok.              *)
LEMMA MeantStep ==
    ASSUME TypeInv, Streams, Heard, [Next]_vars
    PROVE  Meant'
<1> SUFFICES ASSUME spc' \in {"blocks", "confirm", "complete"}
             PROVE  Settled' /\ si' <= Blocks'
  BY DEF Meant
<1>0. count \in Nat /\ si \in Nat /\ MAXSIZE \in Nat \ {0} /\ toSnd \in Seq(Cells)
  BY ConstantsOK DEF TypeInv, TypeOK
<1>1. Blocks \in Nat
  BY <1>0, WholeBlocks DEF Blocks
<1>2. CASE spc = "last_ok"
  <2>1. SndLastOk
    BY <1>2 DEF Next, Sender, Receiver, SndAccess, SndRnum, SndName, SndStart, SndSize,
       SndSizeOk, SndBlksOk, SndBlock, SndLast, SndNoFread, SndConfirm, RcvLen,
       RcvNameOk, RcvInfo, RcvOpen, RcvSize, RcvBlks, RcvLast, RcvBlock, RcvTail,
       RcvNoTail, RcvClose, CrashSnd, CrashRcv, Edit, Terminating, vars, sndVars
  <2>2. toSnd = <<Txt("num_last_ok")>>
    BY <1>2, <2>1, LastOkRead DEF SndLastOk
  <2>3. Settled /\ si = 0
    BY <1>2, <2>2 DEF Heard, LastWord, Unsent
  <2>4. Settled'
    BY <1>2, <2>3, SettledStays
  <2>5. si' = si /\ count' = count
    BY <2>1 DEF SndLastOk
  <2> QED
    BY <1>1, <2>3, <2>4, <2>5 DEF Blocks
<1>3. CASE spc # "last_ok"
  <2>1. /\ spc \in {"blocks", "confirm", "complete"}
        /\ count' = count /\ (si' = si \/ (si' = si + 1 /\ si < Blocks))
    <3>1. CASE Sender
      <4>1. CASE SndLastOk \/ SndConfirm \/ SndBlock \/ SndLast
        BY <1>3, <4>1 DEF SndLastOk, SndConfirm, SndBlock, SndLast, Blocks
      <4>2. ~(SndAccess \/ SndStart \/ SndNoFread)
        BY DEF SndAccess, SndStart, SndNoFread
      <4>3. ~(SndRnum \/ SndName \/ SndSize \/ SndSizeOk \/ SndBlksOk)
        BY DEF SndRnum, SndName, SndSize, SndSizeOk, SndBlksOk, SndAwaits, SndWrites
      <4> QED
        BY <3>1, <4>1, <4>2, <4>3 DEF Sender
    <3>2. CASE Receiver \/ CrashRcv \/ Edit \/ UNCHANGED vars
      BY <3>2 DEF Receiver, RcvLen, RcvNameOk, RcvInfo, RcvOpen, RcvSize, RcvBlks, RcvLast,
         RcvBlock, RcvTail, RcvNoTail, RcvClose, CrashRcv, Edit, vars, sndVars
    <3>3. ~CrashSnd
      BY DEF CrashSnd
    <3> QED
      BY <3>1, <3>2, <3>3 DEF Next, Terminating
  <2>2. Settled /\ si <= Blocks
    BY <2>1 DEF Heard, Meant
  <2>3. Settled'
    BY <2>1, <2>2, SettledStays DEF SndEnds
  <2> QED
    BY <1>0, <1>1, <2>1, <2>2, <2>3 DEF Blocks
<1> QED
  BY <1>2, <1>3

(* num_last_ok goes on its way only when both have settled the sizes, and  *)
(* the receiver does not leave its loop before the sender has read it.     *)
LEMMA LastWordStep ==
    ASSUME TypeInv, Lockstep, Lockstep', Streams, Heard, [Next]_vars
    PROVE  LastWord'
<1> SUFFICES ASSUME toSnd' = <<Txt("num_last_ok")>>
             PROVE  /\ Settled' /\ spc' \in {"last_ok"} \cup SndEnds
                    /\ SndUp' => rpc' \in {"data", "killed"}
  BY DEF LastWord
<1>1. CASE SndUp' /\ RcvUp'
  <2>1. \A n : Txt("num_last_ok") # Num(n)
    BY Messages
  <2>2. <<Txt("num_last_ok")>> # <<>> /\ \A c : <<Txt("num_last_ok")>> = <<c>> => c = Txt("num_last_ok")
    BY Zenon
  <2>3. Txt("num_last_ok") \notin {Txt("name"), Txt("start"), Txt("size_ok"), Txt("num_blks_ok")}
    BY Messages
  <2>4. Resting'
    BY <1>1, <2>1, <2>2, <2>3 DEF Lockstep, Greeting, Asking, Opening, Sizing, Counting, Sending, InFlight
  <2> QED
    BY <2>2, <2>4 DEF Resting, InFlight, Settled
<1>2. CASE ~(SndUp' /\ RcvUp')
  <2>1. toSnd = <<Txt("num_last_ok")>>
    <3>1. toSnd' # <<>>
      BY OneMessage
    <3>2. ASSUME SndUp, rpc = "close", toSnd' = Append(toSnd, Txt("file_recv"))
          PROVE  FALSE
      <4>1. toSnd = <<>>
        BY <3>2 DEF Lockstep, RcvUp, RcvEnds, Greeting, Asking, Opening, Sizing, Counting,
           Resting, Sending, InFlight
      <4>2. <<Txt("num_last_ok")>> = <<Txt("file_recv")>>
        BY <3>2, <4>1, OneMessage
      <4>3. Txt("num_last_ok") = Txt("file_recv")
        BY <4>2, OneMessage
      <4> QED
        BY <4>3, Messages
    <3> QED
      BY <1>2, <3>1, <3>2, ToSenderStep
  <2>2. Settled /\ spc \in {"last_ok"} \cup SndEnds /\ (SndUp => rpc \in {"data", "killed"})
    BY <2>1 DEF Heard, LastWord
  <2>3. Settled'
    BY <2>2, SettledStays
  <2>4. spc' \in {"last_ok"} \cup SndEnds
    <3>1. CASE spc = "last_ok" /\ Sender
      <4>1. SndLastOk
        BY <3>1 DEF Sender, SndAccess, SndRnum, SndName, SndStart, SndSize, SndSizeOk,
           SndBlksOk, SndBlock, SndLast, SndNoFread, SndConfirm
      <4>2. PICK got \in Arrived(toSnd, RcvUp) :
              /\ toSnd' = Rest(toSnd, got)
              /\ spc' = IF got = Txt("num_last_ok") THEN "blocks" ELSE "returned"
        BY <4>1 DEF SndLastOk
      <4>3. ASSUME got = Txt("num_last_ok") PROVE FALSE
        <5>1. Rest(toSnd, got) = Tail(toSnd)
          BY <4>3, Messages DEF Rest
        <5> QED
          BY <2>1, <4>2, <5>1, OneMessage
      <4> QED
        BY <4>2, <4>3 DEF SndEnds
    <3>2. CASE ~Sender
      BY <2>2, <3>2 DEF Next, Receiver, RcvLen, RcvNameOk, RcvInfo, RcvOpen, RcvSize, RcvBlks,
         RcvLast, RcvBlock, RcvTail, RcvNoTail, RcvClose, CrashSnd, CrashRcv, Edit,
         Terminating, vars, sndVars, SndEnds
    <3>3. CASE spc \in SndEnds
      BY <3>3, EndsStay DEF SndUp, sndVars
    <3> QED
      BY <2>2, <3>1, <3>2, <3>3
  <2>5. ASSUME SndUp' PROVE rpc' \in {"data", "killed"}
    <3>1. SndUp
      BY <2>5, EndsStay DEF SndUp, sndVars
    <3>2. CASE rpc = "killed"
      BY <3>2, EndsStay DEF RcvUp, RcvEnds, rcvVars
    <3>3. CASE rpc = "data"
      <4>1. conn = "ok" /\ num_last # 0
        BY <2>2, <3>1, <3>3 DEF Lockstep, RcvUp, RcvEnds, Settled
      <4>2. rpc' \in RcvEnds
        BY <1>2, <2>5 DEF RcvUp
      <4>3. rpc' \in {"data", "close", "killed"}
        <5>1. CASE Sender \/ CrashSnd \/ Edit \/ UNCHANGED vars
          BY <3>3, <5>1 DEF Sender, SndAccess, SndRnum, SndName, SndStart, SndSize, SndSizeOk,
             SndBlksOk, SndAwaits, SndLastOk, SndBlock, SndLast, SndNoFread, SndConfirm,
             CrashSnd, Edit, vars, rcvVars
        <5>2. CASE Receiver \/ CrashRcv
          BY <3>3, <4>1, <5>2 DEF Receiver, RcvLen, RcvNameOk, RcvInfo, RcvOpen, RcvSize, RcvBlks,
             RcvLast, RcvBlock, RcvTail, RcvStores, RcvNoTail, RcvClose, CrashRcv
        <5> QED
          BY <5>1, <5>2 DEF Next, Terminating
      <4> QED
        BY <4>2, <4>3 DEF RcvEnds
    <3> QED
      BY <2>2, <3>1, <3>2, <3>3
  <2> QED
    BY <2>3, <2>4, <2>5
<1> QED
  BY <1>1, <1>2

(* file_recv goes on its way only when the receiver has closed, and the    *)
(* sender is told that its file is complete by nothing else.               *)
LEMMA FarewellStep ==
    ASSUME TypeInv, Lockstep, Lockstep', Streams, Heard, [Next]_vars
    PROVE  Farewell'
<1>0. toSnd \in Seq(Cells) /\ Len(toSnd) <= 1
  BY DEF TypeInv, TypeOK, Streams
<1>1. toSnd = <<Txt("file_recv")>> \/ spc = "complete" => rpc' = "closed"
  BY EndsStay DEF Heard, Farewell, RcvUp, RcvEnds, rcvVars
<1>2. ASSUME toSnd' = <<Txt("file_recv")>> PROVE rpc' = "closed"
  <2>1. CASE SndUp' /\ RcvUp'
    <3>1. Txt("file_recv") \notin {Txt("name"), Txt("start"), Txt("size_ok"), Txt("num_blks_ok"),
                                   Txt("num_last_ok"), Num(NameLen)}
      BY Messages
    <3>2. <<Txt("file_recv")>> # <<>> /\ \A c : <<Txt("file_recv")>> = <<c>> => c = Txt("file_recv")
      BY Zenon
    <3> QED
      BY <1>2, <2>1, <3>1, <3>2 DEF Lockstep, Greeting, Asking, Opening, Sizing, Counting, Resting,
         Sending, InFlight
  <2>2. toSnd' # <<>>
    BY <1>2, OneMessage
  <2> QED
    BY <1>1, <1>2, <2>1, <2>2, ToSenderStep
<1>3. ASSUME spc' = "complete", spc # "complete" PROVE rpc' = "closed"
  <2>1. SndConfirm
    BY <1>3 DEF Next, Sender, Receiver, SndAccess, SndRnum, SndName, SndStart, SndSize, SndWrites,
       SndSizeOk, SndBlksOk, SndAwaits, SndLastOk, SndBlock, SndLast, SndNoFread, RcvLen,
       RcvNameOk, RcvInfo, RcvOpen, RcvSize, RcvBlks, RcvLast, RcvBlock, RcvTail,
       RcvNoTail, RcvClose, CrashSnd, CrashRcv, Edit, Terminating, vars, sndVars
  <2>2. Txt("file_recv") \in Arrived(toSnd, RcvUp)
    BY <1>3, <2>1 DEF SndConfirm
  <2>3. Txt("file_recv") \notin {EOF, ERR}
    BY Messages
  <2>4. toSnd # <<>> /\ Head(toSnd) = Txt("file_recv")
    BY <2>2, <2>3, SMT DEF Arrived
  <2> QED
    BY <1>0, <1>1, <2>4, ShortStream
<1> QED
  BY <1>1, <1>2, <1>3 DEF Farewell

(* No block is counted as sent before the dialogue is over.                *)
LEMMA UnsentStep ==
    ASSUME Unsent, [Next]_vars
    PROVE  Unsent'
<1>1. CASE Sender
  <2>1. CASE SndBlock \/ SndLast \/ SndNoFread \/ SndConfirm \/ SndLastOk
    <3>1. spc' \notin {"access", "rnum", "name", "nofp", "start", "size", "size_ok", "blks_ok",
                      "last_ok"}
      BY <2>1 DEF SndBlock, SndLast, SndNoFread, SndConfirm, SndLastOk, SndWrites
    <3> QED
      BY <3>1 DEF Unsent
  <2>2. CASE SndAccess \/ SndRnum \/ SndName \/ SndStart \/ SndSize \/ SndSizeOk \/ SndBlksOk
    <3>1. si' = si /\ spc \in {"access", "rnum", "name", "nofp", "start", "size", "size_ok",
                               "blks_ok"}
      BY <2>2 DEF SndAccess, SndRnum, SndName, SndStart, SndSize, SndSizeOk, SndBlksOk, SndAwaits
    <3> QED
      BY <3>1 DEF Unsent
  <2> QED
    BY <1>1, <2>1, <2>2 DEF Sender
<1>2. CASE Receiver \/ CrashRcv \/ Edit \/ UNCHANGED vars
  BY <1>2 DEF Receiver, RcvLen, RcvNameOk, RcvInfo, RcvOpen, RcvSize, RcvBlks, RcvLast,
     RcvBlock, RcvTail, RcvNoTail, RcvClose, CrashRcv, Edit, vars, sndVars, Unsent
<1>3. CASE CrashSnd
  BY <1>3 DEF CrashSnd, Unsent
<1> QED
  BY <1>1, <1>2, <1>3 DEF Next, Terminating

(* Every step keeps what the two know of each other.                       *)
LEMMA DialogueStep ==
    ASSUME DialogueInv, [Next]_vars
    PROVE  DialogueInv'
<1> USE DEF DialogueInv
<1>1. TypeInv'
  BY TypeStep
<1>2. Lockstep'
  BY LockstepStep
<1>3. Streams'
  BY <1>2, StreamsStep
<1>4. Receiving'
  BY ReceivingStep
<1>5. Heard'
  BY <1>2, MeantStep, LastWordStep, FarewellStep, UnsentStep DEF Heard
<1> QED
  BY <1>1, <1>2, <1>3, <1>4, <1>5

(* The two start out of touch.                                             *)
LEMMA InitDialogue == Init => DialogueInv
<1> SUFFICES ASSUME Init PROVE DialogueInv
  OBVIOUS
<1>1. /\ spc \in {"access", "rnum"} /\ rpc = "len" /\ toRcv = <<>> /\ toSnd = <<>>
      /\ conn = "ok" /\ fp = "none" /\ num_blks = 0 /\ num_last = 0 /\ ri = 0
      /\ si = 0 /\ said = "nothing"
  BY DEF Init, Enter
<1>2. Lockstep
  BY <1>1 DEF Lockstep, Greeting, InFlight
<1>3. Streams
  <2>1. Len(<<>>) = 0
    OBVIOUS
  <2> QED
    BY <1>1, <2>1 DEF Streams, Numbers, FileData
<1>4. Receiving
  BY <1>1 DEF Receiving
<1>5. Heard
  BY <1>1, OneMessage DEF Heard, Meant, LastWord, Farewell, Unsent
<1> QED
  BY <1>2, <1>3, <1>4, <1>5, InitType DEF DialogueInv

(* The invariant of the dialogue holds of every transfer.                  *)
THEOREM Dialogue == Spec => []DialogueInv
BY InitDialogue, DialogueStep, PTL DEF Spec

(* No file data is read as a control message and no control message is     *)
(* stored as file data, whatever is read short, killed or reset on the     *)
(* way, and however large the file is.                                     *)
THEOREM FramingKept == Spec => []Framing
<1>1. DialogueInv => Framing
  BY DEF DialogueInv, Streams, Numbers, FileData, Framing
<1> QED
  BY <1>1, Dialogue, PTL

(* When the first block leaves the sender both sides have the same idea of *)
(* what follows.                                                           *)
THEOREM BothAgree == Spec => []Agreement
<1>1. DialogueInv => Agreement
  BY DEF DialogueInv, Heard, Meant, Settled, Blocks, Last, Agreement
<1> QED
  BY <1>1, Dialogue, PTL

(* "file send complate!!" is only ever printed over a file of at least one *)
(* block and a rest: for any other the sender leaves without it, or hangs. *)
THEOREM OnlyUnevenComplete ==
    Spec => [](spc = "complete" => count > MAXSIZE /\ count % MAXSIZE # 0)
<1>1. ASSUME TypeInv, Agreement, spc = "complete"
      PROVE  count > MAXSIZE /\ count % MAXSIZE # 0
  <2>1. /\ count \in Nat /\ MAXSIZE \in Nat \ {0}
        /\ count \div MAXSIZE # 0 /\ count % MAXSIZE # 0
    BY <1>1, ConstantsOK DEF TypeInv, TypeOK, Agreement
  <2>2. \A a \in Nat, b \in Nat \ {0} : a < b => a \div b = 0
    OBVIOUS
  <2>3. \A b \in Nat \ {0} : b % b = 0
    OBVIOUS
  <2> QED
    BY <2>1, <2>2, <2>3
<1>2. DialogueInv => TypeInv
  BY DEF DialogueInv
<1> QED
  BY <1>1, <1>2, BothAgree, Dialogue, PTL

(* The two processes wait for each other only over a file of whole blocks, *)
(* whose last block of length 0 the receiver does not acknowledge.         *)
THEOREM OnlyWholeBlocksWait == Spec => []NoMutualWait
<1>1. ASSUME DialogueInv PROVE NoMutualWait
  <2> SUFFICES ASSUME SndWaits, RcvWaits PROVE count > 0 /\ count % MAXSIZE = 0
    BY DEF NoMutualWait
  <2>0. /\ count \in Nat /\ ri \in Nat /\ num_blks \in Nat /\ MAXSIZE \in Nat \ {0}
        /\ Len(<<>>) = 0
    BY <1>1, ConstantsOK DEF DialogueInv, TypeInv, TypeOK
  <2>1. /\ SndUp /\ spc \notin {"access", "size", "blocks"} /\ Arrived(toSnd, RcvUp) = {}
        /\ RcvUp /\ rpc \notin {"len", "open", "close"} /\ Arrived(toRcv, SndUp) = {}
    BY DEF SndWaits, RcvWaits
  <2>2. toSnd = <<>> /\ toRcv = <<>>
    <3>1. \A q, up : Arrived(q, up) = {} => q = <<>>
      BY SMT DEF Arrived
    <3> QED
      BY <2>1, <3>1
  <2>3. Resting \/ (Sending /\ spc = "confirm" /\ rpc = "data")
    BY <1>1, <2>1, <2>2, OneMessage DEF DialogueInv, Lockstep, Greeting, Asking, Opening, Sizing,
       Counting, Sending, InFlight
  <2>4. CASE Resting
    BY <2>0, <2>2, <2>4, OneMessage DEF Resting, InFlight, Last
  <2>5. CASE Sending /\ spc = "confirm" /\ rpc = "data"
    <3>1. count <= MAXSIZE * ri
      BY <2>0, <2>2, <2>5, WholeBlocks DEF Sending, Sent
    <3>2. ri <= num_blks /\ num_blks = count \div MAXSIZE /\ count % MAXSIZE # 0
      BY <1>1, <2>5 DEF DialogueInv, Receiving, Heard, Meant, Settled, Blocks, Last
    <3>3. MAXSIZE * ri <= MAXSIZE * num_blks
      <4>1. MAXSIZE * ri \in Nat /\ MAXSIZE * num_blks \in Nat
        BY <2>0, WholeBlocks
      <4>2. ri < num_blks => MAXSIZE * ri + MAXSIZE <= MAXSIZE * num_blks
        BY <2>0, WholeBlocks
      <4> QED
        BY <2>0, <3>2, <4>1, <4>2
    <3>4. MAXSIZE * ri \in Nat /\ MAXSIZE * num_blks \in Nat /\ count % MAXSIZE \in 0..(MAXSIZE - 1)
      BY <2>0, WholeBlocks
    <3>5. PICK a, b, r : a = MAXSIZE * ri /\ b = MAXSIZE * num_blks /\ r = count % MAXSIZE
      OBVIOUS
    <3>6. a \in Nat /\ b \in Nat /\ r \in Nat
      BY <2>0, <3>4, <3>5
    <3>7. count = b + r
      BY <2>0, <3>2, <3>5, WholeBlocks
    <3> QED
      BY <2>0, <3>1, <3>2, <3>3, <3>6, <3>7, <3>5
  <2> QED
    BY <2>3, <2>4, <2>5
<1> QED
  BY <1>1, Dialogue, PTL
=============================================================================
