--------------------------- MODULE TransferProofs ---------------------------
(***************************************************************************)
(* Theorems about Transfer, for every block size, file size, short read,   *)
(* crash and rewrite.                                                      *)
(***************************************************************************)
EXTENDS Transfer, TLAPS

(* TypeOK is not inductive alone: that the counts stay natural numbers     *)
(* rests on the sender counting only a file it has opened, and on the      *)
(* calls of rnum running out before the name is read.                      *)
TypeInv ==
    /\ TypeOK
    /\ spc \in {"access", "rnum"} => rn \in {1, 2}
    /\ spc = "start" => disk \in Nat

(* What a read returns is a cell, and what it leaves is still a stream.    *)
LEMMA ReadType ==
    ASSUME NEW q \in Seq(Cells), NEW up, NEW got \in Arrived(q, up)
    PROVE  got \in Cells /\ Rest(q, got) \in Seq(Cells)
<1>1. EOF \in Cells /\ ERR \in Cells
  BY DEF EOF, ERR, Txt, Cells, Words
<1>2. CASE got \in {EOF, ERR}
  BY <1>1, <1>2 DEF Rest
<1>3. CASE got \notin {EOF, ERR}
  <2>1. q # <<>> /\ got = Head(q)
    BY <1>3, SMT DEF Arrived
  <2> QED
    BY <1>3, <2>1 DEF Rest
<1> QED
  BY <1>2, <1>3

(* The messages of the dialogue are cells.                                 *)
LEMMA CellType ==
    /\ \A n \in Nat : Num(n) \in Cells /\ Byte(n) \in Cells
    /\ \A w \in Words : Txt(w) \in Cells
BY DEF Num, Byte, Txt, Cells, Words

(* The arithmetic of blocks stays within the natural numbers.              *)
LEMMA BlockArithmetic ==
    ASSUME NEW a \in Nat, NEW b \in Nat \ {0}
    PROVE  a \div b \in Nat /\ a % b \in Nat /\ a % b < b /\ b * a \in Nat
OBVIOUS

(* A write leaves the stream, the reset flag and the writer's state typed. *)
LEMMA SndWritesType ==
    ASSUME toRcv \in Seq(Cells), conn \in {"ok", "rst"},
           NEW cells \in Seq(Cells), NEW next, NEW lost,
           SndWrites(cells, next, lost)
    PROVE  /\ toRcv' \in Seq(Cells) /\ conn' \in {"ok", "rst"}
           /\ spc' \in {next, lost, "killed"}
<1>1. toRcv \o cells \in Seq(Cells)
  OBVIOUS
<1> QED
  BY <1>1 DEF SndWrites

(* The same of the receiver's writes.                                      *)
LEMMA RcvWritesType ==
    ASSUME toSnd \in Seq(Cells), conn \in {"ok", "rst"},
           NEW cell \in Cells, NEW next,
           RcvWrites(cell, next)
    PROVE  /\ toSnd' \in Seq(Cells) /\ conn' \in {"ok", "rst"}
           /\ rpc' \in {next, "killed"}
<1>1. Append(toSnd, cell) \in Seq(Cells)
  OBVIOUS
<1> QED
  BY <1>1 DEF RcvWrites

(* A read into a data block returns no more than was asked for or came.    *)
LEMMA DeliveredType ==
    ASSUME toRcv \in Seq(Cells), NEW k \in Nat, NEW n \in Delivered(k)
    PROVE  n \in 0..Len(toRcv) /\ n <= k
<1>1. CASE toRcv = <<>>
  BY <1>1 DEF Delivered
<1>2. CASE toRcv # <<>>
  <2>1. Len(toRcv) \in Nat
    OBVIOUS
  <2>2. Smaller(k, Len(toRcv)) \in 0..Len(toRcv) /\ Smaller(k, Len(toRcv)) <= k
    BY <2>1 DEF Smaller
  <2>3. n = Smaller(k, Len(toRcv)) \/ n \in 1..Smaller(k, Len(toRcv))
    BY <1>2 DEF Delivered
  <2> QED
    BY <2>1, <2>2, <2>3
<1> QED
  BY <1>1, <1>2

(* Reading n bytes and storing k of them keeps the types of what it writes.*)
LEMMA RcvStoresType ==
    ASSUME TypeOK, NEW k \in Nat, NEW n \in 0..Len(toRcv), NEW next,
           RcvStores(k, n, next)
    PROVE  /\ toRcv' \in Seq(Cells) /\ blk' \in [1..MAXSIZE -> Nat]
           /\ dst' \in Seq(Nat \cup {OldByte}) /\ conn' \in {"ok", "rst"}
           /\ faults' \subseteq {"crash", "short", "edit", "noopen"}
           /\ rpc' \in {next, "killed"}
<1> DEFINE new == [j \in 1..k |-> IF j <= MAXSIZE THEN blk'[j] ELSE Junk]
<1>0. /\ toRcv \in Seq(Cells) /\ blk \in [1..MAXSIZE -> Nat]
      /\ dst \in Seq(Nat \cup {OldByte}) /\ conn \in {"ok", "rst"}
      /\ faults \subseteq {"crash", "short", "edit", "noopen"}
      /\ MAXSIZE \in Nat
  BY ConstantsOK DEF TypeOK
<1>1. toRcv' \in Seq(Cells)
  <2>1. SubSeq(toRcv, n + 1, Len(toRcv)) \in Seq(Cells)
    BY <1>0
  <2> QED
    BY <2>1 DEF RcvStores
<1>2. \A j \in 1..n : toRcv[j].num \in Nat
  <2>1. \A j \in 1..n : toRcv[j] \in Cells
    BY <1>0
  <2> QED
    BY <2>1 DEF Cells
<1>3. blk' \in [1..MAXSIZE -> Nat]
  <2>1. blk' = [j \in 1..MAXSIZE |-> IF j <= n THEN toRcv[j].num ELSE blk[j]]
    BY DEF RcvStores
  <2>2. \A j \in 1..MAXSIZE : (IF j <= n THEN toRcv[j].num ELSE blk[j]) \in Nat
    BY <1>0, <1>2
  <2> QED
    BY <2>1, <2>2
<1>4. new \in Seq(Nat \cup {OldByte})
  <2>1. \A j \in 1..k : (IF j <= MAXSIZE THEN blk'[j] ELSE Junk) \in Nat \cup {OldByte}
    BY <1>0, <1>3 DEF Junk
  <2> QED
    BY <2>1
<1>5. dst \o new \in Seq(Nat \cup {OldByte})
  BY <1>0, <1>4
<1>6. dst' \in Seq(Nat \cup {OldByte})
  <2>1. dst' = dst \o new \/ dst' = dst
    BY DEF RcvStores
  <2> QED
    BY <1>0, <1>5, <2>1
<1>7. conn' \in {"ok", "rst"} /\ rpc' \in {next, "killed"}
  BY <1>0 DEF RcvStores, Reset
<1>8. faults' \subseteq {"crash", "short", "edit", "noopen"}
  BY <1>0 DEF RcvStores
<1> QED
  BY <1>1, <1>3, <1>6, <1>7, <1>8

(* What a step of the sender has to keep typed.                            *)
LEMMA SndTyped ==
    ASSUME TypeInv, UNCHANGED <<disk, rcvVars, faults>>,
           spc' \in SndStates, rn' \in 0..2, count' \in Nat, si' \in Nat,
           spc' \in {"access", "rnum"} => rn' \in {1, 2}, spc' = "start" => disk \in Nat,
           temp' \in [1..MAXSIZE -> Nat], toRcv' \in Seq(Cells), toSnd' \in Seq(Cells),
           conn' \in {"ok", "rst"}
    PROVE  TypeInv'
<1>1. UNCHANGED <<disk, rpc, rbuf, fp, fsize, num_blks, num_last, ri, blk, dst, said, faults>>
  BY DEF rcvVars
<1>2. TypeOK'
  BY <1>1 DEF TypeInv, TypeOK
<1> QED
  BY <1>1, <1>2 DEF TypeInv

(* Each action of the sender keeps the types.                              *)
LEMMA TypeSender ==
    ASSUME TypeInv, Sender
    PROVE  TypeInv'
<1> USE ConstantsOK, CellType
<1>0. /\ toRcv \in Seq(Cells) /\ toSnd \in Seq(Cells) /\ conn \in {"ok", "rst"}
      /\ MAXSIZE \in Nat \ {0} /\ count \in Nat
      /\ temp \in [1..MAXSIZE -> Nat] /\ si \in Nat
      /\ disk \in Nat \cup {NoFile} /\ rn \in 0..2
      /\ spc \in {"access", "rnum"} => rn \in {1, 2}
      /\ spc = "start" => disk \in Nat
  BY DEF TypeInv, TypeOK
<1>a. /\ Num(FILENAMEOK) \in Cells /\ Num(BADFILENAME) \in Cells
      /\ Num(STARTTRANSFER) \in Cells /\ Num(count) \in Cells
      /\ Num(count \div MAXSIZE) \in Cells /\ Num(count % MAXSIZE) \in Cells
  <2>1. count \div MAXSIZE \in Nat /\ count % MAXSIZE \in Nat
    BY <1>0, BlockArithmetic
  <2> QED
    BY <1>0, <2>1 DEF FILENAMEOK, BADFILENAME, STARTTRANSFER
<1>b. \A c \in Cells : <<c>> \in Seq(Cells)
  OBVIOUS
<1>1. ASSUME SndRnum PROVE TypeInv'
  <2>1. PICK got \in Arrived(toSnd, RcvUp) :
          /\ toSnd' = Rest(toSnd, got)
          /\ \/ got = ERR /\ spc' = "exited" /\ UNCHANGED <<rn, toRcv, conn>>
             \/ /\ got # ERR /\ rn' = rn - 1
                /\ LET next == IF rn = 1 THEN "name" ELSE "rnum"
                   IN  SndWrites(<<Num(FILENAMEOK)>>, next, next)
    BY <1>1 DEF SndRnum
  <2>2. toSnd' \in Seq(Cells)
    BY <1>0, <2>1, ReadType
  <2>3. rn \in {1, 2}
    BY <1>0, <1>1 DEF SndRnum
  <2>4. /\ toRcv' \in Seq(Cells) /\ conn' \in {"ok", "rst"} /\ rn' \in 0..2
        /\ \/ spc' \in {"exited", "killed", "name"}
           \/ spc' = "rnum" /\ rn' = 1
    <3>1. CASE got = ERR
      BY <1>0, <2>1, <2>3, <3>1
    <3>2. CASE got # ERR /\ rn = 1
      <4>1. SndWrites(<<Num(FILENAMEOK)>>, "name", "name") /\ rn' = rn - 1
        BY <2>1, <3>2
      <4>2. /\ toRcv' \in Seq(Cells) /\ conn' \in {"ok", "rst"}
            /\ spc' \in {"name", "killed"}
        BY <1>0, <1>a, <1>b, <4>1, SndWritesType
      <4> QED
        BY <3>2, <4>1, <4>2
    <3>3. CASE got # ERR /\ rn = 2
      <4>1. SndWrites(<<Num(FILENAMEOK)>>, "rnum", "rnum") /\ rn' = rn - 1
        BY <2>1, <3>3
      <4>2. /\ toRcv' \in Seq(Cells) /\ conn' \in {"ok", "rst"}
            /\ spc' \in {"rnum", "killed"}
        BY <1>0, <1>a, <1>b, <4>1, SndWritesType
      <4> QED
        BY <3>3, <4>1, <4>2
    <3> QED
      BY <2>3, <3>1, <3>2, <3>3
  <2> QED
    BY <1>0, <1>1, <2>2, <2>4, SndTyped DEF SndRnum, SndStates, SndEnds
<1>2. ASSUME SndName PROVE TypeInv'
  <2>1. PICK got \in Arrived(toSnd, RcvUp) :
          /\ toSnd' = Rest(toSnd, got)
          /\ \/ got = ERR /\ SndWrites(<<Num(BADFILENAME)>>, "nofp", "exited")
             \/ /\ got = Txt("name") /\ disk # NoFile
                /\ SndWrites(<<Num(STARTTRANSFER)>>, "start", "exited")
             \/ spc' = "exited" /\ UNCHANGED <<toRcv, conn>>
    BY <1>2 DEF SndName
  <2>2. toSnd' \in Seq(Cells)
    BY <1>0, <2>1, ReadType
  <2>3. /\ toRcv' \in Seq(Cells) /\ conn' \in {"ok", "rst"}
        /\ \/ spc' \in {"nofp", "exited", "killed"}
           \/ spc' = "start" /\ disk \in Nat
    BY <1>0, <1>a, <1>b, <2>1, SndWritesType
  <2> QED
    BY <1>0, <1>2, <2>2, <2>3, SndTyped DEF SndName, SndStates, SndEnds
<1>3. ASSUME SndStart PROVE TypeInv'
  <2>1. toSnd' \in Seq(Cells)
    BY <1>0, <1>3, ReadType DEF SndStart
  <2> QED
    BY <1>0, <1>3, <2>1, SndTyped DEF SndStart, SndStates, SndEnds
<1>4. ASSUME SndSize PROVE TypeInv'
  <2>1. SndWrites(<<Num(count)>>, "size_ok", "size_ok")
    BY <1>4 DEF SndSize
  <2>2. /\ toRcv' \in Seq(Cells) /\ conn' \in {"ok", "rst"}
        /\ spc' \in {"size_ok", "killed"}
    BY <1>0, <1>a, <1>b, <2>1, SndWritesType
  <2> QED
    BY <1>0, <1>4, <2>2, SndTyped DEF SndSize, SndStates, SndEnds
<1>5. ASSUME NEW word, NEW c \in Cells, NEW next \in {"blks_ok", "last_ok"},
             SndAwaits(word, <<c>>, next)
      PROVE  TypeInv'
  <2>1. toSnd' \in Seq(Cells)
    BY <1>0, <1>5, ReadType DEF SndAwaits
  <2>2. /\ toRcv' \in Seq(Cells) /\ conn' \in {"ok", "rst"}
        /\ spc' \in {"blks_ok", "last_ok", "returned", "killed"}
    BY <1>0, <1>b, <1>5, SndWritesType DEF SndAwaits
  <2> QED
    BY <1>0, <1>5, <2>1, <2>2, SndTyped DEF SndAwaits, SndStates, SndEnds
<1>6. ASSUME SndLastOk PROVE TypeInv'
  <2>1. toSnd' \in Seq(Cells)
    BY <1>0, <1>6, ReadType DEF SndLastOk
  <2>2. spc' \in {"blocks", "returned"}
    BY <1>6 DEF SndLastOk
  <2> QED
    BY <1>0, <1>6, <2>1, <2>2, SndTyped DEF SndLastOk, SndStates, SndEnds
<1>7. \A k : Fread(k) \in [1..MAXSIZE -> Nat]
  <2> SUFFICES ASSUME NEW k PROVE Fread(k) \in [1..MAXSIZE -> Nat]
    OBVIOUS
  <2>1. \A j \in 1..MAXSIZE : (MAXSIZE * si + j) \in Nat /\ temp[j] \in Nat
    <3>1. MAXSIZE * si \in Nat
      BY <1>0, BlockArithmetic
    <3>2. PICK m \in Nat : m = MAXSIZE * si
      BY <3>1
    <3>3. \A j \in 1..MAXSIZE : m + j \in Nat
      OBVIOUS
    <3>4. \A j \in 1..MAXSIZE : temp[j] \in Nat
      BY <1>0
    <3> QED
      BY <3>2, <3>3, <3>4
  <2> QED
    BY <2>1 DEF Fread
<1>8. ASSUME NEW k \in 0..MAXSIZE, NEW t \in [1..MAXSIZE -> Nat]
      PROVE  [j \in 1..k |-> Byte(t[j])] \in Seq(Cells)
  <2>1. k \in Nat /\ \A j \in 1..k : Byte(t[j]) \in Cells
    BY <1>0
  <2> QED
    BY <2>1
<1>9. ASSUME SndBlock PROVE TypeInv'
  <2>1. temp' \in [1..MAXSIZE -> Nat]
    BY <1>7, <1>9 DEF SndBlock
  <2>2. [j \in 1..MAXSIZE |-> Byte(temp'[j])] \in Seq(Cells)
    BY <1>0, <1>8, <2>1
  <2>3. SndWrites([j \in 1..MAXSIZE |-> Byte(temp'[j])], "blocks", "blocks")
    BY <1>9 DEF SndBlock
  <2>4. /\ toRcv' \in Seq(Cells) /\ conn' \in {"ok", "rst"}
        /\ spc' \in {"blocks", "killed"}
    BY <1>0, <2>2, <2>3, SndWritesType
  <2>5. /\ si' \in Nat
        /\ UNCHANGED <<rn, count, disk, rcvVars, toSnd, faults>>
    BY <1>0, <1>9 DEF SndBlock
  <2> QED
    BY <1>0, <2>1, <2>4, <2>5, SndTyped DEF SndStates, SndEnds
<1>10. ASSUME SndLast PROVE TypeInv'
  <2>1. count % MAXSIZE \in 0..MAXSIZE
    BY <1>0
  <2>2. CASE count % MAXSIZE # 0
    <3>1. temp' \in [1..MAXSIZE -> Nat]
      BY <1>0, <1>7, <1>10, <2>2 DEF SndLast
    <3>2. [j \in 1..count % MAXSIZE |-> Byte(temp'[j])] \in Seq(Cells)
      BY <1>8, <2>1, <3>1
    <3>3. SndWrites([j \in 1..count % MAXSIZE |-> Byte(temp'[j])], "confirm", "exited")
      BY <1>10, <2>2 DEF SndLast
    <3>4. /\ toRcv' \in Seq(Cells) /\ conn' \in {"ok", "rst"}
          /\ spc' \in {"confirm", "exited", "killed"}
      BY <1>0, <3>2, <3>3, SndWritesType
    <3> QED
      BY <1>0, <1>10, <3>1, <3>4, SndTyped DEF SndLast, SndStates, SndEnds
  <2>3. CASE count % MAXSIZE = 0
    BY <1>0, <1>10, <2>3, SndTyped DEF SndLast, SndStates, SndEnds
  <2> QED
    BY <2>2, <2>3
<1>11. ASSUME SndConfirm PROVE TypeInv'
  <2>1. toSnd' \in Seq(Cells)
    BY <1>0, <1>11, ReadType DEF SndConfirm
  <2>2. spc' \in {"complete", "exited", "returned"}
    BY <1>11 DEF SndConfirm
  <2> QED
    BY <1>0, <1>11, <2>1, <2>2, SndTyped DEF SndConfirm, SndStates, SndEnds
<1>12. ASSUME SndAccess PROVE TypeInv'
  BY <1>12 DEF SndAccess, Reset, TypeInv, TypeOK, SndStates, RcvStates, SndEnds, RcvEnds,
         sndVars, rcvVars, rcvData, connVars
<1>13. ASSUME SndNoFread PROVE TypeInv'
  BY <1>13 DEF SndNoFread, Reset, TypeInv, TypeOK, SndStates, RcvStates, SndEnds, RcvEnds,
         sndVars, rcvVars, rcvData, connVars
<1> QED
  <2>1. SndSizeOk \/ SndBlksOk => TypeInv'
    BY <1>a, <1>5 DEF SndSizeOk, SndBlksOk
  <2> QED
    BY <1>1, <1>2, <1>3, <1>4, <1>6, <1>9, <1>10, <1>11, <1>12, <1>13, <2>1
    DEF Sender

(* What a step of the receiver has to keep typed.                           *)
LEMMA RcvTyped ==
    ASSUME TypeInv, UNCHANGED <<sndVars, disk>>,
           rpc' \in RcvStates, rbuf' \in Cells, fp' \in {"none", "open", "null"},
           fsize' \in Nat, num_blks' \in Nat, num_last' \in Nat, ri' \in Nat,
           blk' \in [1..MAXSIZE -> Nat], dst' \in Seq(Nat \cup {OldByte}),
           said' \in {"nothing", "all"}, toRcv' \in Seq(Cells), toSnd' \in Seq(Cells),
           conn' \in {"ok", "rst"}, faults' \subseteq {"crash", "short", "edit", "noopen"}
    PROVE  TypeInv'
<1>1. TypeOK'
  BY DEF TypeInv, TypeOK, sndVars
<1>2. spc' = spc /\ rn' = rn /\ disk' = disk
  BY DEF sndVars
<1> QED
  BY <1>1, <1>2 DEF TypeInv

(* Each action of the receiver keeps the types.                            *)
LEMMA TypeReceiver ==
    ASSUME TypeInv, Receiver
    PROVE  TypeInv'
<1> USE ConstantsOK, CellType
<1>0. /\ toRcv \in Seq(Cells) /\ toSnd \in Seq(Cells) /\ conn \in {"ok", "rst"}
      /\ rbuf \in Cells /\ num_blks \in Nat /\ num_last \in Nat /\ ri \in Nat
      /\ fp \in {"none", "open", "null"} /\ fsize \in Nat
      /\ blk \in [1..MAXSIZE -> Nat]
      /\ dst \in Seq(Nat \cup {OldByte}) /\ said \in {"nothing", "all"}
      /\ faults \subseteq {"crash", "short", "edit", "noopen"}
      /\ MAXSIZE \in Nat \ {0} /\ rpc \in RcvStates
  BY DEF TypeInv, TypeOK
<1>t. TypeOK
  BY DEF TypeInv
<1>a. /\ Num(NameLen) \in Cells /\ Txt("name") \in Cells /\ Txt("start") \in Cells
      /\ Txt("size_ok") \in Cells /\ Txt("num_blks_ok") \in Cells
      /\ Txt("num_last_ok") \in Cells /\ Txt("file_recv") \in Cells
  BY DEF NameLen, Words
<1>b. \A got \in Arrived(toRcv, SndUp) :
        Rest(toRcv, got) \in Seq(Cells) /\ Kept(got) \in Cells
  BY <1>0, ReadType DEF Kept
<1>c. \A msg \in Cells : msg.num \in Nat
  BY DEF Cells
<1>1. ASSUME RcvLen PROVE TypeInv'
  <2>1. RcvWrites(Num(NameLen), "nameok")
    BY <1>1 DEF RcvLen
  <2>2. /\ toSnd' \in Seq(Cells) /\ conn' \in {"ok", "rst"}
        /\ rpc' \in {"nameok", "killed"}
    BY <1>0, <1>a, <2>1, RcvWritesType
  <2> QED
    BY <1>0, <1>1, <1>a, <2>2, RcvTyped DEF RcvLen, RcvStates, RcvEnds, rcvData
<1>2. ASSUME NEW msg \in Cells, RcvVerdict(msg)
      PROVE  /\ toSnd' \in Seq(Cells) /\ conn' \in {"ok", "rst"}
             /\ rbuf' \in Cells /\ rpc' \in {"open", "exited", "killed"}
  <2>1. CASE msg.num = STARTTRANSFER
    <3>1. rbuf' = Txt("start") /\ RcvWrites(Txt("start"), "open")
      BY <1>2, <2>1 DEF RcvVerdict
    <3> QED
      BY <1>0, <1>a, <3>1, RcvWritesType
  <2>2. CASE msg.num # STARTTRANSFER
    BY <1>0, <1>2, <2>2 DEF RcvVerdict
  <2> QED
    BY <2>1, <2>2
<1>3. ASSUME RcvNameOk PROVE TypeInv'
  <2>1. PICK got \in Arrived(toRcv, SndUp) :
          /\ toRcv' = Rest(toRcv, got)
          /\ \/ rbuf' = Kept(got) /\ RcvWrites(Txt("name"), "info")
             \/ RcvVerdict(Kept(got))
    BY <1>3 DEF RcvNameOk
  <2>2. toRcv' \in Seq(Cells) /\ Kept(got) \in Cells
    BY <1>b, <2>1
  <2>3. /\ toSnd' \in Seq(Cells) /\ conn' \in {"ok", "rst"}
        /\ rbuf' \in Cells /\ rpc' \in {"info", "open", "exited", "killed"}
    <3>1. CASE rbuf' = Kept(got) /\ RcvWrites(Txt("name"), "info")
      BY <1>0, <1>a, <2>2, <3>1, RcvWritesType
    <3>2. CASE RcvVerdict(Kept(got))
      BY <1>2, <2>2, <3>2
    <3> QED
      BY <2>1, <3>1, <3>2
  <2>4. UNCHANGED <<sndVars, disk, rcvData, faults>>
    BY <1>3 DEF RcvNameOk
  <2> QED
    BY <1>0, <2>2, <2>3, <2>4, RcvTyped DEF RcvStates, RcvEnds, rcvData, connVars
<1>4. ASSUME RcvInfo PROVE TypeInv'
  <2>1. PICK got \in Arrived(toRcv, SndUp) :
          toRcv' = Rest(toRcv, got) /\ RcvVerdict(Kept(got))
    BY <1>4 DEF RcvInfo
  <2>2. toRcv' \in Seq(Cells) /\ Kept(got) \in Cells
    BY <1>b, <2>1
  <2>3. /\ toSnd' \in Seq(Cells) /\ conn' \in {"ok", "rst"}
        /\ rbuf' \in Cells /\ rpc' \in {"open", "exited", "killed"}
    BY <1>2, <2>1, <2>2
  <2>4. UNCHANGED <<sndVars, disk, rcvData, faults>>
    BY <1>4 DEF RcvInfo
  <2> QED
    BY <1>0, <2>2, <2>3, <2>4, RcvTyped DEF RcvStates, RcvEnds, rcvData, connVars
<1>5. ASSUME RcvOpen PROVE TypeInv'
  <2>1. dst' \in Seq(Nat \cup {OldByte}) /\ fp' \in {"open", "null"}
    <3>1. <<>> \in Seq(Nat \cup {OldByte})
      OBVIOUS
    <3>2. fp' \in {"open", "null"} /\ dst' \in {<<>>, dst}
      BY <1>5 DEF RcvOpen
    <3> QED
      BY <1>0, <3>1, <3>2
  <2>2. faults' \subseteq {"crash", "short", "edit", "noopen"} /\ rpc' = "size"
    BY <1>0, <1>5 DEF RcvOpen
  <2>3. UNCHANGED <<sndVars, disk, rbuf, fsize, num_blks, num_last, ri, blk,
                    said, connVars>>
    BY <1>5 DEF RcvOpen
  <2> QED
    BY <1>0, <2>1, <2>2, <2>3, RcvTyped DEF RcvStates, RcvEnds, rcvData, connVars
<1>6. ASSUME RcvSize PROVE TypeInv'
  <2>1. PICK got \in Arrived(toRcv, SndUp) :
          /\ toRcv' = Rest(toRcv, got)
          /\ rbuf' = Kept(got) /\ fsize' = Kept(got).num
    BY <1>6 DEF RcvSize
  <2>2. toRcv' \in Seq(Cells) /\ rbuf' \in Cells /\ fsize' \in Nat
    BY <1>b, <1>c, <2>1
  <2>3. /\ toSnd' \in Seq(Cells) /\ conn' \in {"ok", "rst"}
        /\ rpc' \in {"blks", "close", "killed"}
    BY <1>0, <1>6, <1>a, RcvWritesType DEF RcvSize
  <2>4. UNCHANGED <<sndVars, disk, fp, num_blks, num_last, ri, blk, dst, said, faults>>
    BY <1>6 DEF RcvSize
  <2> QED
    BY <1>0, <2>2, <2>3, <2>4, RcvTyped DEF RcvStates, RcvEnds, rcvData, connVars
<1>7. ASSUME RcvBlks PROVE TypeInv'
  <2>1. PICK got \in Arrived(toRcv, SndUp) :
          /\ toRcv' = Rest(toRcv, got)
          /\ rbuf' = Kept(got)
          /\ \/ rpc' = "exited" /\ UNCHANGED <<num_blks, toSnd, conn>>
             \/ num_blks' = rbuf'.num /\ RcvWrites(Txt("num_blks_ok"), "last")
             \/ num_blks' = rbuf'.num /\ rpc' = "close" /\ UNCHANGED <<toSnd, conn>>
    BY <1>7 DEF RcvBlks
  <2>2. toRcv' \in Seq(Cells) /\ rbuf' \in Cells /\ rbuf'.num \in Nat
    BY <1>b, <1>c, <2>1
  <2>3. /\ toSnd' \in Seq(Cells) /\ conn' \in {"ok", "rst"} /\ num_blks' \in Nat
        /\ rpc' \in {"exited", "last", "close", "killed"}
    BY <1>0, <1>a, <2>1, <2>2, RcvWritesType
  <2>4. UNCHANGED <<sndVars, disk, fp, fsize, num_last, ri, blk, dst, said, faults>>
    BY <1>7 DEF RcvBlks
  <2> QED
    BY <1>0, <2>2, <2>3, <2>4, RcvTyped DEF RcvStates, RcvEnds, rcvData, connVars
<1>8. ASSUME RcvLast PROVE TypeInv'
  <2>1. PICK got \in Arrived(toRcv, SndUp) :
          /\ toRcv' = Rest(toRcv, got)
          /\ rbuf' = Kept(got)
          /\ num_last' = IF got = ERR THEN num_last ELSE rbuf'.num
          /\ \/ rpc' \in {"exited", "data"} /\ UNCHANGED <<toSnd, conn>>
             \/ RcvWrites(Txt("num_last_ok"), "data")
    BY <1>8 DEF RcvLast
  <2>2. /\ toRcv' \in Seq(Cells) /\ rbuf' \in Cells /\ rbuf'.num \in Nat
        /\ num_last' \in Nat
    BY <1>0, <1>b, <1>c, <2>1
  <2>3. /\ toSnd' \in Seq(Cells) /\ conn' \in {"ok", "rst"}
        /\ rpc' \in {"exited", "data", "killed"}
    BY <1>0, <1>a, <2>1, RcvWritesType
  <2>4. UNCHANGED <<sndVars, disk, fp, fsize, num_blks, ri, blk, dst, said, faults>>
    BY <1>8 DEF RcvLast
  <2> QED
    BY <1>0, <2>2, <2>3, <2>4, RcvTyped DEF RcvStates, RcvEnds, rcvData, connVars
<1>9. ASSUME RcvBlock PROVE TypeInv'
  <2>1. CASE \E n \in Delivered(MAXSIZE) : RcvStores(MAXSIZE, n, "data")
    <3>1. PICK n \in 0..Len(toRcv) : RcvStores(MAXSIZE, n, "data")
      BY <1>0, <2>1, DeliveredType
    <3>2. /\ toRcv' \in Seq(Cells) /\ blk' \in [1..MAXSIZE -> Nat]
          /\ dst' \in Seq(Nat \cup {OldByte}) /\ conn' \in {"ok", "rst"}
          /\ faults' \subseteq {"crash", "short", "edit", "noopen"}
          /\ rpc' \in {"data", "killed"}
      BY <1>t, <1>0, <3>1, RcvStoresType
    <3>3. ri' \in Nat
      BY <1>0, <1>9 DEF RcvBlock
    <3>4. UNCHANGED <<sndVars, disk, rbuf, fp, fsize, num_blks, num_last, said, toSnd>>
      BY <1>9 DEF RcvBlock
    <3> QED
      BY <1>0, <3>2, <3>3, <3>4, RcvTyped DEF RcvStates, RcvEnds, rcvData, connVars
  <2>2. CASE rpc' = "exited" /\ UNCHANGED <<ri, blk, dst, toRcv, conn, faults>>
    BY <1>9, <2>2 DEF RcvBlock, TypeInv, TypeOK, SndStates, RcvStates, SndEnds, RcvEnds,
         sndVars, rcvVars, rcvData, connVars
  <2> QED
    BY <1>9, <2>1, <2>2 DEF RcvBlock
<1>10. ASSUME RcvTail PROVE TypeInv'
  <2>1. PICK n \in 0..Len(toRcv) : RcvStores(num_last, n, "close")
    <3>1. \A n \in Delivered(num_last) \cup (IF conn = "rst" THEN {0} ELSE {}) :
            n \in 0..Len(toRcv)
      BY <1>0, DeliveredType
    <3> QED
      BY <1>10, <3>1 DEF RcvTail
  <2>2. /\ toRcv' \in Seq(Cells) /\ blk' \in [1..MAXSIZE -> Nat]
        /\ dst' \in Seq(Nat \cup {OldByte}) /\ conn' \in {"ok", "rst"}
        /\ faults' \subseteq {"crash", "short", "edit", "noopen"}
        /\ rpc' \in {"close", "killed"}
    BY <1>t, <1>0, <2>1, RcvStoresType
  <2>3. said' \in {"all", said}
    BY <1>10 DEF RcvTail
  <2>4. UNCHANGED <<sndVars, disk, rbuf, fp, fsize, num_blks, num_last, ri, toSnd>>
    BY <1>10 DEF RcvTail
  <2> QED
    BY <1>0, <2>2, <2>3, <2>4, RcvTyped DEF RcvStates, RcvEnds, rcvData, connVars
<1>11. ASSUME RcvNoTail PROVE TypeInv'
  BY <1>11 DEF RcvNoTail, TypeInv, TypeOK, SndStates, RcvStates, SndEnds, RcvEnds,
         sndVars, rcvVars, rcvData, connVars
<1>12. ASSUME RcvClose PROVE TypeInv'
  <2>1. Append(toSnd, Txt("file_recv")) \in Seq(Cells)
    BY <1>0, <1>a
  <2>2. /\ toSnd' \in Seq(Cells) /\ conn' \in {"ok", "rst"}
        /\ rpc' \in {"closed", "killed"}
    BY <1>0, <1>12, <1>a, <2>1, RcvWritesType DEF RcvClose, Reset
  <2>3. UNCHANGED <<sndVars, disk, rbuf, rcvData, toRcv, faults>>
    BY <1>12 DEF RcvClose
  <2> QED
    BY <1>0, <2>2, <2>3, RcvTyped DEF RcvStates, RcvEnds, rcvData, connVars
<1> QED
  BY <1>1, <1>3, <1>4, <1>5, <1>6, <1>7, <1>8, <1>9, <1>10, <1>11, <1>12
  DEF Receiver

(* Crashes and rewrites keep the types, and so does every step.            *)
LEMMA TypeStep ==
    ASSUME TypeInv, [Next]_vars
    PROVE  TypeInv'
<1> USE ConstantsOK
<1>1. ASSUME CrashSnd PROVE TypeInv'
  BY <1>1 DEF CrashSnd, Reset, TypeInv, TypeOK, SndStates, RcvStates, SndEnds, RcvEnds,
         sndVars, rcvVars, rcvData, connVars
<1>2. ASSUME CrashRcv PROVE TypeInv'
  <2>1. dst' \in Seq(Nat \cup {OldByte})
    <3>1. dst \in Seq(Nat \cup {OldByte})
      BY DEF TypeInv, TypeOK
    <3>2. \A n \in 0..Len(dst) : SubSeq(dst, 1, n) \in Seq(Nat \cup {OldByte})
      BY <3>1
    <3> QED
      BY <1>2, <3>1, <3>2 DEF CrashRcv
  <2>2. /\ rpc' \in RcvStates /\ conn' \in {"ok", "rst"}
        /\ faults' \subseteq {"crash", "short", "edit", "noopen"}
    BY <1>2 DEF CrashRcv, Reset, RcvStates, RcvEnds, TypeInv, TypeOK
  <2>3. UNCHANGED <<sndVars, disk, rbuf, fp, fsize, num_blks, num_last, ri, blk,
                    said, toRcv, toSnd>>
    BY <1>2 DEF CrashRcv
  <2>4. /\ rbuf \in Cells /\ fp \in {"none", "open", "null"} /\ fsize \in Nat
        /\ num_blks \in Nat /\ num_last \in Nat /\ ri \in Nat
        /\ blk \in [1..MAXSIZE -> Nat] /\ said \in {"nothing", "all"}
        /\ toRcv \in Seq(Cells) /\ toSnd \in Seq(Cells)
    BY DEF TypeInv, TypeOK
  <2> QED
    BY <2>1, <2>2, <2>3, <2>4, RcvTyped
<1>3. ASSUME Edit PROVE TypeInv'
  <2>1. /\ disk' \in Nat \cup {NoFile} /\ (spc = "start" => disk' \in Nat)
        /\ faults' \subseteq {"crash", "short", "edit", "noopen"}
        /\ UNCHANGED <<sndVars, rcvVars, connVars>>
    BY <1>3 DEF Edit, TypeInv, TypeOK
  <2>2. UNCHANGED <<spc, rn, count, si, temp, rpc, rbuf, fp, fsize, num_blks, num_last,
                    ri, blk, dst, said, toRcv, toSnd, conn>>
    BY <2>1 DEF sndVars, rcvVars, connVars
  <2> QED
    BY <2>1, <2>2 DEF TypeInv, TypeOK
<1>4. ASSUME UNCHANGED vars PROVE TypeInv'
  <2>1. UNCHANGED <<spc, rn, count, si, temp, disk, rpc, rbuf, fp, fsize,
                    num_blks, num_last, ri, blk, dst, said, toRcv, toSnd,
                    conn, faults>>
    BY <1>4 DEF vars, sndVars, rcvVars, connVars
  <2> QED
    BY <2>1 DEF TypeInv, TypeOK
<1> QED
  BY <1>1, <1>2, <1>3, <1>4, TypeSender, TypeReceiver DEF Next, Terminating

(* The initial states are typed.                                           *)
LEMMA InitType == Init => TypeInv
<1> SUFFICES ASSUME Init PROVE TypeInv
  OBVIOUS
<1>1. /\ rbuf \in Cells /\ toRcv \in Seq(Cells) /\ toSnd \in Seq(Cells)
      /\ dst \in Seq(Nat \cup {OldByte})
  <2>1. Txt("empty") \in Cells
    BY CellType DEF Words
  <2>2. <<>> \in Seq(Cells) /\ OldCopy \in Seq(Nat \cup {OldByte})
    BY DEF OldCopy
  <2> QED
    BY <2>1, <2>2 DEF Init
<1>2. /\ temp \in [1..MAXSIZE -> Nat] /\ blk \in [1..MAXSIZE -> Nat]
  <2>1. Junk \in Nat
    BY DEF Junk
  <2> QED
    BY <2>1 DEF Init
<1>3. rn \in {1, 2} /\ disk \in Nat \cup {NoFile}
  BY ConstantsOK DEF Init, Enter
<1>4. /\ spc \in {"access", "rnum"} /\ rpc = "len" /\ fp = "none" /\ conn = "ok"
      /\ said = "nothing" /\ count = 0 /\ si = 0 /\ fsize = 0 /\ num_blks = 0
      /\ num_last = 0 /\ ri = 0
  BY DEF Init, Enter
<1>5. spc \in SndStates /\ rpc \in RcvStates
  BY <1>4 DEF SndStates, RcvStates
<1>6. faults \subseteq {"crash", "short", "edit", "noopen"}
  <2>1. faults = {}
    BY DEF Init
  <2> QED
    BY <2>1
<1>7. rn \in 0..2
  BY <1>3
<1> QED
  <2>1. TypeOK
    BY <1>1, <1>2, <1>3, <1>4, <1>5, <1>6, <1>7 DEF TypeOK
  <2> QED
    BY <1>3, <1>4, <2>1 DEF TypeInv

(* Every reachable state has its types, whatever the block size, the file, *)
(* the short reads and the crashes.                                        *)
THEOREM TypeCorrect == Spec => []TypeOK
<1>1. Init => TypeInv
  BY InitType
<1>2. TypeInv /\ [Next]_vars => TypeInv'
  BY TypeStep
<1>3. TypeInv => TypeOK
  BY DEF TypeInv
<1> QED
  BY <1>1, <1>2, <1>3, PTL DEF Spec

-----------------------------------------------------------------------------
(* While the sender has never had such a file it never says STARTTRANSFER, *)
(* so no message, and nothing a stale buffer can hold, is one.             *)
Refused ==
    /\ spc \in {"access", "rnum", "name", "nofp", "returned", "exited", "killed"}
    /\ \A k \in 1..Len(toRcv) : toRcv[k].num # STARTTRANSFER
    /\ rbuf.num # STARTTRANSFER
    /\ rpc \in {"len", "nameok", "info", "exited", "killed"}
    /\ fp = "none" /\ dst = OldCopy
RefusedInv == disk = NoFile /\ "edit" \notin faults => Refused

(* What a read returns is the head of the stream or carries no number, and *)
(* what it leaves has only messages that were there before.                *)
LEMMA ReadRefused ==
    ASSUME NEW q \in Seq(Cells), \A k \in 1..Len(q) : q[k].num # STARTTRANSFER,
           NEW up, NEW got \in Arrived(q, up)
    PROVE  /\ got.num # STARTTRANSFER
           /\ \A k \in 1..Len(Rest(q, got)) : Rest(q, got)[k].num # STARTTRANSFER
<1>1. CASE got \in {EOF, ERR}
  BY <1>1 DEF Rest, EOF, ERR, Txt, STARTTRANSFER
<1>2. CASE got \notin {EOF, ERR}
  <2>1. q # <<>> /\ got = Head(q) /\ Rest(q, got) = Tail(q)
    BY <1>2 DEF Arrived, Rest
  <2>2. Len(q) \in Nat \ {0} /\ got = q[1] /\ Len(Tail(q)) = Len(q) - 1
    BY <2>1
  <2>3. \A k \in 1..Len(Tail(q)) : Tail(q)[k] = q[k + 1]
    BY <2>1
  <2> QED
    BY <2>1, <2>2, <2>3
<1> QED
  BY <1>1, <1>2

(* As long as the sender gets no name of a file it has, no step lets a     *)
(* STARTTRANSFER reach the receiver or opens its local copy.               *)
NoFileNamed ==
    spc = "name" => disk = NoFile \/ Txt("name") \notin Arrived(toSnd, RcvUp)

LEMMA RefusedStep ==
    ASSUME TypeInv, Refused, NoFileNamed, [Next]_vars
    PROVE  Refused'
<1> USE ConstantsOK
<1>0. /\ Refused
      /\ toRcv \in Seq(Cells) /\ toSnd \in Seq(Cells) /\ rbuf \in Cells
  BY DEF TypeInv, TypeOK
<1>a. \A n \in {FILENAMEOK, BADFILENAME, NameLen} :
        Num(n) \in Cells /\ Num(n).num # STARTTRANSFER
  <2>1. \A n : Num(n).num = n
    BY DEF Num
  <2>2. \A n \in {FILENAMEOK, BADFILENAME, NameLen} : n \in Nat /\ n # STARTTRANSFER
    BY DEF FILENAMEOK, BADFILENAME, NameLen, STARTTRANSFER
  <2> QED
    BY <2>1, <2>2, CellType
<1>1. ASSUME NEW cell \in Cells, cell.num # STARTTRANSFER, NEW next, NEW lost,
             SndWrites(<<cell>>, next, lost)
      PROVE  /\ \A k \in 1..Len(toRcv') : toRcv'[k].num # STARTTRANSFER
             /\ spc' \in {next, lost, "killed"}
  <2>1. toRcv' = toRcv \o <<cell>> \/ toRcv' = toRcv
    BY <1>1 DEF SndWrites
  <2>2. CASE toRcv' = toRcv \o <<cell>>
    <3>1. /\ Len(toRcv') = Len(toRcv) + 1
          /\ \A k \in 1..Len(toRcv') :
               toRcv'[k] = IF k <= Len(toRcv) THEN toRcv[k] ELSE cell
      BY <1>0, <2>2
    <3> QED
      BY <1>0, <1>1, <3>1 DEF Refused, SndWrites
  <2>3. CASE toRcv' = toRcv
    BY <1>0, <1>1, <2>3 DEF Refused, SndWrites
  <2> QED
    BY <2>1, <2>2, <2>3
<1>2. CASE SndRnum
  <2>1. PICK next \in {"name", "rnum"} :
          \/ spc' = "exited" /\ toRcv' = toRcv
          \/ SndWrites(<<Num(FILENAMEOK)>>, next, next)
    BY <1>2 DEF SndRnum
  <2>2. Num(FILENAMEOK) \in Cells /\ Num(FILENAMEOK).num # STARTTRANSFER
    BY <1>a
  <2>3. /\ \A k \in 1..Len(toRcv') : toRcv'[k].num # STARTTRANSFER
        /\ spc' \in {"name", "rnum", "exited", "killed"}
    BY <1>0, <1>1, <2>1, <2>2 DEF Refused
  <2> QED
    BY <1>0, <1>2, <2>3 DEF Refused, SndRnum, rcvVars
<1>3. CASE SndName
  <2>1. \/ spc' = "exited" /\ toRcv' = toRcv
        \/ SndWrites(<<Num(BADFILENAME)>>, "nofp", "exited")
    BY <1>3 DEF SndName, NoFileNamed
  <2>2. Num(BADFILENAME) \in Cells /\ Num(BADFILENAME).num # STARTTRANSFER
    BY <1>a
  <2>3. /\ \A k \in 1..Len(toRcv') : toRcv'[k].num # STARTTRANSFER
        /\ spc' \in {"nofp", "exited", "killed"}
    BY <1>0, <1>1, <2>1, <2>2 DEF Refused
  <2> QED
    BY <1>0, <1>3, <2>3 DEF Refused, SndName, rcvVars
<1>4. CASE SndStart
  BY <1>0, <1>4 DEF Refused, SndStart, rcvVars
<1>5. CASE RcvLen
  <2>1. rbuf'.num # STARTTRANSFER /\ rpc' \in {"nameok", "killed"}
    BY <1>5, <1>a DEF RcvLen, RcvWrites
  <2> QED
    BY <1>0, <1>5, <2>1 DEF Refused, RcvLen, sndVars, rcvData
<1>6. \A got \in Arrived(toRcv, SndUp) :
        /\ Kept(got).num # STARTTRANSFER
        /\ \A k \in 1..Len(Rest(toRcv, got)) : Rest(toRcv, got)[k].num # STARTTRANSFER
  BY <1>0, ReadRefused DEF Refused, Kept
<1>7. CASE RcvNameOk
  <2>1. /\ \A k \in 1..Len(toRcv') : toRcv'[k].num # STARTTRANSFER
        /\ rbuf'.num # STARTTRANSFER
        /\ rpc' \in {"info", "exited", "killed"}
    BY <1>6, <1>7 DEF RcvNameOk, RcvVerdict, RcvWrites
  <2> QED
    BY <1>0, <1>7, <2>1 DEF Refused, RcvNameOk, sndVars, rcvData
<1>8. CASE RcvInfo
  <2>1. /\ \A k \in 1..Len(toRcv') : toRcv'[k].num # STARTTRANSFER
        /\ rbuf'.num # STARTTRANSFER /\ rpc' = "exited"
    BY <1>6, <1>8 DEF RcvInfo, RcvVerdict
  <2> QED
    BY <1>0, <1>8, <2>1 DEF Refused, RcvInfo, sndVars, rcvData
<1>9. CASE CrashSnd
  BY <1>0, <1>9 DEF Refused, CrashSnd, rcvVars
<1>10. CASE CrashRcv
  BY <1>0, <1>10 DEF Refused, CrashRcv, sndVars
<1>11. CASE Edit
  BY <1>0, <1>11 DEF Refused, Edit, sndVars, rcvVars, connVars
<1>12. CASE SndAccess
  BY <1>0, <1>12 DEF Refused, SndAccess, rcvVars
<1>13. CASE UNCHANGED vars
  BY <1>0, <1>13 DEF Refused, vars, sndVars, rcvVars, connVars
<1> QED
  <2>1. ~(SndSize \/ SndSizeOk \/ SndBlksOk \/ SndLastOk \/ SndBlock \/ SndLast
          \/ SndNoFread \/ SndConfirm)
    BY <1>0 DEF Refused, SndSize, SndSizeOk, SndBlksOk, SndLastOk, SndBlock,
       SndLast, SndNoFread, SndConfirm
  <2>2. ~(RcvOpen \/ RcvSize \/ RcvBlks \/ RcvLast \/ RcvBlock \/ RcvTail
          \/ RcvNoTail \/ RcvClose)
    BY <1>0 DEF Refused, RcvOpen, RcvSize, RcvBlks, RcvLast, RcvBlock, RcvTail,
       RcvNoTail, RcvClose
  <2> QED
    BY <1>2, <1>3, <1>4, <1>5, <1>7, <1>8, <1>9, <1>10, <1>11, <1>13, <1>12, <2>1,
       <2>2
    DEF Next, Sender, Receiver, Terminating

LEMMA InitRefused == Init => Refused
<1> SUFFICES ASSUME Init PROVE Refused
  OBVIOUS
<1>1. rbuf.num # STARTTRANSFER
  <2>1. rbuf = Txt("empty")
    BY DEF Init
  <2> QED
    BY <2>1 DEF Txt, STARTTRANSFER
<1>2. \A k \in 1..Len(toRcv) : FALSE
  <2>1. toRcv = <<>>
    BY DEF Init
  <2> QED
    BY <2>1
<1>3. spc \in {"access", "rnum"} /\ rpc = "len" /\ fp = "none" /\ dst = OldCopy
  BY DEF Init, Enter
<1> QED
  BY <1>1, <1>2, <1>3 DEF Refused

(* Whatever happens, such a request stays refused.                         *)
LEMMA StaysRefused == Spec => []RefusedInv
<1>1. Init => TypeInv
  BY InitType
<1>2. Init => RefusedInv
  BY InitRefused DEF RefusedInv
<1>3. TypeInv /\ RefusedInv /\ [Next]_vars => TypeInv' /\ RefusedInv'
  <2> SUFFICES ASSUME TypeInv, RefusedInv, [Next]_vars,
                      disk' = NoFile, "edit" \notin faults'
               PROVE  Refused'
    BY TypeStep DEF RefusedInv
  <2>1. disk = NoFile /\ "edit" \notin faults
    BY DEF Next, Sender, Receiver, vars, sndVars, rcvVars, rcvData, connVars, NoFile,
       SndAccess, SndNoFread, RcvStores, SndRnum, SndName, SndStart, SndSize, SndSizeOk, SndBlksOk, SndLastOk,
       SndBlock, SndLast, SndConfirm, SndAwaits, RcvLen, RcvNameOk, RcvInfo,
       RcvOpen, RcvSize, RcvBlks, RcvLast, RcvBlock, RcvTail, RcvNoTail,
       RcvClose, CrashSnd, CrashRcv, Edit, Terminating
  <2> QED
    BY <2>1, RefusedStep DEF RefusedInv, NoFileNamed
<1> QED
  BY <1>1, <1>2, <1>3, PTL DEF Spec

(* A receiver that asks for a file the sender never had keeps its own      *)
(* copy: whatever crashes, is reset or is read from a stale buffer, nobody *)
(* opens the local file for writing.                                       *)
THEOREM OldCopyKept == Spec => []KeepsOldCopy
<1>1. RefusedInv => KeepsOldCopy
  BY DEF RefusedInv, Refused, KeepsOldCopy
<1> QED
  BY <1>1, StaysRefused, PTL

-----------------------------------------------------------------------------
(* Behind dostr the file name is eaten by the second rnum: until then the  *)
(* receiver is no further than the number and the name it sent, and when   *)
(* the sender comes to read the name there is none to come.                *)
NameEaten ==
    /\ spc = "rnum" => rn # 0
    /\ spc = "rnum" /\ rn = 2 =>
         /\ toRcv = <<>> /\ conn = "ok"
         /\ rpc \in {"len", "nameok", "killed"}
         /\ toSnd \in {<<>>, <<Num(NameLen)>>}
         /\ rpc = "len" => toSnd = <<>>
    /\ spc = "rnum" /\ rn = 1 =>
         /\ rpc # "len"
         /\ toSnd \in {<<>>, <<Txt("name")>>}
         /\ rpc = "nameok" => toSnd = <<>>
    /\ spc = "name" => toSnd = <<>> /\ rpc \notin {"len", "nameok"}

Doomed == Refused /\ NameEaten

(* The first rnum takes the number, or finds the receiver gone, the second *)
(* takes the name, or finds the receiver gone.                             *)
LEMMA RnumEats ==
    ASSUME TypeInv, Doomed, SndRnum
    PROVE  NameEaten'
<1>0. rn \in 0..2 /\ rn # 0 /\ spc = "rnum" /\ UNCHANGED rpc
  BY DEF TypeInv, TypeOK, Doomed, NameEaten, SndRnum, rcvVars
<1>1. PICK got \in Arrived(toSnd, RcvUp) :
        /\ toSnd' = Rest(toSnd, got)
        /\ \/ got = ERR /\ spc' = "exited"
           \/ got # ERR /\ rn' = rn - 1
              /\ spc' \in {IF rn = 1 THEN "name" ELSE "rnum", "killed"}
  BY DEF SndRnum, SndWrites
<1>2. got # ERR =>
        \/ toSnd # <<>> /\ got = Head(toSnd) /\ toSnd' \in {toSnd, Tail(toSnd)}
        \/ toSnd = <<>> /\ ~RcvUp /\ toSnd' = <<>>
  BY <1>1 DEF Arrived, Rest
<1>3. toSnd \in {<<>>, <<Num(NameLen)>>, <<Txt("name")>>} /\ got # ERR => toSnd' = <<>>
  <2>1. \A c : Head(<<c>>) = c /\ Tail(<<c>>) = <<>> /\ <<c>> # <<>>
    OBVIOUS
  <2>2. Num(NameLen) \notin {EOF, ERR} /\ Txt("name") \notin {EOF, ERR}
    BY DEF Num, Txt, NameLen, EOF, ERR
  <2> QED
    BY <1>1, <1>2, <2>1, <2>2 DEF Rest
<1>4. CASE rn = 2
  <2>1. rpc \in {"len", "nameok", "killed"} /\ toSnd \in {<<>>, <<Num(NameLen)>>}
        /\ (rpc = "len" => toSnd = <<>>)
    BY <1>0, <1>4 DEF Doomed, NameEaten
  <2>2. rpc = "len" => got = ERR
    BY <1>2, <2>1 DEF RcvUp, RcvEnds
  <2> QED
    BY <1>0, <1>1, <1>3, <1>4, <2>1, <2>2 DEF NameEaten
<1>5. CASE rn = 1
  <2>1. rpc # "len" /\ toSnd \in {<<>>, <<Txt("name")>>}
        /\ (rpc = "nameok" => toSnd = <<>>)
    BY <1>0, <1>5 DEF Doomed, NameEaten
  <2>2. rpc = "nameok" => got = ERR
    BY <1>2, <2>1 DEF RcvUp, RcvEnds
  <2> QED
    BY <1>0, <1>1, <1>3, <1>5, <2>1, <2>2 DEF NameEaten
<1> QED
  BY <1>0, <1>4, <1>5

(* A receiver that was never told STARTTRANSFER never takes a verdict for   *)
(* one: it does not come to its fopen, and the verdict makes it exit.      *)
LEMMA RcvRefuses ==
    ASSUME TypeInv, Refused
    PROVE  /\ RcvNameOk => rpc' # "open"
           /\ RcvInfo => rpc' = "exited" /\ toSnd' = toSnd
<1>1. toRcv \in Seq(Cells)
  BY DEF TypeInv, TypeOK
<1>2. \A got \in Arrived(toRcv, SndUp) : Kept(got).num # STARTTRANSFER
  BY <1>1, ReadRefused DEF Refused, Kept
<1>3. ASSUME NEW got \in Arrived(toRcv, SndUp), RcvVerdict(Kept(got))
      PROVE  rpc' = "exited" /\ toSnd' = toSnd
  BY <1>2, <1>3 DEF RcvVerdict
<1>4. RcvNameOk => rpc' # "open"
  BY <1>3 DEF RcvNameOk, RcvWrites
<1> QED
  BY <1>3, <1>4 DEF RcvInfo

(* The receiver writes its number and its name once each, and reads the    *)
(* verdict behind the name.                                                *)
LEMMA ReceiverStaysBehind ==
    ASSUME TypeInv, Doomed, RcvLen \/ RcvNameOk \/ RcvInfo
    PROVE  NameEaten'
<1>0. spc' = spc /\ rn' = rn /\ toSnd \in Seq(Cells) /\ rn \in 0..2
  BY DEF TypeInv, TypeOK, RcvLen, RcvNameOk, RcvInfo, sndVars
<1>1. spc \in {"rnum", "name"} => SndUp
  BY DEF SndUp, SndEnds
<1>2. CASE RcvLen
  <2>1. rpc = "len" /\ toRcv' = toRcv
    BY <1>2 DEF RcvLen
  <2>2. SndUp => toSnd' = Append(toSnd, Num(NameLen)) /\ rpc' = "nameok" /\ conn' = conn
    BY <1>2 DEF RcvLen, RcvWrites
  <2>3. Append(<<>>, Num(NameLen)) = <<Num(NameLen)>>
    OBVIOUS
  <2> QED
    BY <1>0, <1>1, <2>1, <2>2, <2>3 DEF Doomed, NameEaten
<1>3. CASE RcvNameOk
  <2>1. rpc = "nameok" /\ Arrived(toRcv, SndUp) # {}
    BY <1>3 DEF RcvNameOk
  <2>2. ~(spc = "rnum" /\ rn = 2) /\ spc # "name"
    BY <1>1, <2>1 DEF Doomed, NameEaten, Arrived
  <2>3. SndUp => \/ toSnd' = Append(toSnd, Txt("name")) /\ rpc' = "info"
                 \/ toSnd' = toSnd /\ rpc' = "exited"
                 \/ toSnd' = Append(toSnd, Txt("start")) /\ rpc' = "open"
    BY <1>3 DEF RcvNameOk, RcvVerdict, RcvWrites
  <2>4. rpc' # "open"
    BY <1>3, RcvRefuses DEF Doomed
  <2>5. Append(<<>>, Txt("name")) = <<Txt("name")>>
    OBVIOUS
  <2> QED
    BY <1>0, <1>1, <2>1, <2>2, <2>3, <2>4, <2>5 DEF Doomed, NameEaten
<1>4. CASE RcvInfo
  <2>1. rpc = "info" /\ rpc' = "exited" /\ toSnd' = toSnd
    BY <1>4, RcvRefuses DEF Doomed, RcvInfo, RcvVerdict
  <2> QED
    BY <1>0, <2>1 DEF Doomed, NameEaten
<1> QED
  BY <1>2, <1>3, <1>4

(* No step of anybody lets the name reach the sender's fopen.              *)
LEMMA DoomedStep ==
    ASSUME TypeInv, Doomed, [Next]_vars
    PROVE  Doomed'
<1> USE ConstantsOK
<1>1. Refused /\ NameEaten
  BY DEF Doomed
<1>2. Refused'
  <2>1. NoFileNamed
    <3>1. Txt("name") \notin {EOF, ERR}
      BY DEF Txt, EOF, ERR
    <3> QED
      BY <1>1, <3>1 DEF NameEaten, NoFileNamed, Arrived
  <2> QED
    BY <1>1, <2>1, RefusedStep
<1>3. CASE SndRnum
  BY <1>2, <1>3, RnumEats DEF Doomed
<1>4. CASE RcvLen \/ RcvNameOk \/ RcvInfo
  BY <1>2, <1>4, ReceiverStaysBehind DEF Doomed
<1>5. CASE SndAccess \/ SndName \/ SndStart \/ CrashSnd
  <2>1. spc' \notin {"rnum", "name"}
    BY <1>1, <1>5 DEF SndAccess, SndName, SndStart, CrashSnd, SndWrites
  <2> QED
    BY <1>2, <2>1 DEF Doomed, NameEaten
<1>6. CASE CrashRcv
  <2>1. /\ rpc' = "killed" /\ conn' = Reset(toRcv)
        /\ UNCHANGED <<spc, rn, toRcv, toSnd>>
    BY <1>6 DEF CrashRcv, sndVars
  <2> QED
    BY <1>1, <1>2, <2>1 DEF Doomed, NameEaten, Reset
<1>7. CASE Edit \/ UNCHANGED vars
  <2>1. UNCHANGED <<spc, rn, rpc, toRcv, toSnd, conn>>
    BY <1>7 DEF Edit, vars, sndVars, rcvVars, connVars
  <2> QED
    BY <1>1, <1>2, <2>1 DEF Doomed, NameEaten
<1> QED
  <2>1. ~(SndSize \/ SndSizeOk \/ SndBlksOk \/ SndLastOk \/ SndBlock \/ SndLast
          \/ SndNoFread \/ SndConfirm)
    BY <1>1 DEF Refused, SndSize, SndSizeOk, SndBlksOk, SndLastOk, SndBlock,
       SndLast, SndNoFread, SndConfirm
  <2>2. ~(RcvOpen \/ RcvSize \/ RcvBlks \/ RcvLast \/ RcvBlock \/ RcvTail
          \/ RcvNoTail \/ RcvClose)
    BY <1>1 DEF Refused, RcvOpen, RcvSize, RcvBlks, RcvLast, RcvBlock, RcvTail,
       RcvNoTail, RcvClose
  <2> QED
    BY <1>3, <1>4, <1>5, <1>6, <1>7, <2>1, <2>2
    DEF Next, Sender, Receiver, Terminating

(* Whoever asks the server the way its main answers, through dostr, gets   *)
(* nothing: whatever the file, the crashes and the rewrites, the client    *)
(* never opens its local copy and the sender never completes.              *)
THEOREM NobodyServed == Spec => DostrServesNobody
<1>1. Init => TypeInv
  BY InitType
<1>2. Init /\ spc = "rnum" /\ rn = 2 => Doomed
  <2> SUFFICES ASSUME Init, spc = "rnum", rn = 2 PROVE Doomed
    OBVIOUS
  <2>1. Refused
    BY InitRefused
  <2>2. rpc = "len" /\ toRcv = <<>> /\ toSnd = <<>> /\ conn = "ok"
    BY DEF Init
  <2> QED
    BY <2>1, <2>2 DEF Doomed, NameEaten
<1>3. TypeInv /\ Doomed /\ [Next]_vars => TypeInv' /\ Doomed'
  BY TypeStep, DoomedStep
<1>4. Doomed => fp = "none" /\ dst = OldCopy /\ spc # "complete"
  BY DEF Doomed, Refused
<1> QED
  BY <1>1, <1>2, <1>3, <1>4, PTL DEF Spec, DostrServesNobody
=============================================================================
