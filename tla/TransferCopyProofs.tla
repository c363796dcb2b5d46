------------------------- MODULE TransferCopyProofs -------------------------
(***************************************************************************)
(* What the announcements of a transfer are worth: over "file send         *)
(* complate!!" and "All file recv" the local copy holds the bytes of the   *)
(* source, and until a fault happens the transfer is the copy of FileCopy. *)
(***************************************************************************)
EXTENDS TransferDialogueProofs

Clean == "short" \notin faults /\ "edit" \notin faults

Counted == {"size", "size_ok", "blks_ok", "last_ok", "blocks", "confirm", "complete"}

(***************************************************************************)
(* What has been stored and what is still on its way, as long as no read   *)
(* was short and nobody has touched the source.                            *)
(***************************************************************************)
SameFile ==
    "edit" \notin faults /\ spc \in Counted => disk = count
InTransit ==
    Clean /\ spc \in {"blocks", "confirm"} /\ rpc = "data" =>
      /\ Len(toRcv) = Sent - MAXSIZE * ri
      /\ \A k \in 1..Len(toRcv) : toRcv[k] = Byte(MAXSIZE * ri + k)
      /\ fp = "open" => dst = Source(MAXSIZE * ri)
Stored ==
    Clean /\ spc \in {"blocks", "confirm", "complete"} /\ rpc \in {"close", "closed"} =>
      (fp = "open" => dst = Source(count))

(***************************************************************************)
(* Without faults the sender stays to the end once the receiver has been   *)
(* told to start, and leaves no such word behind if it goes before.        *)
(***************************************************************************)
Early == {"len", "nameok", "info"}
Faultless ==
    faults = {} =>
      /\ RcvUp /\ ~SndUp => rpc \in Early /\ toRcv = <<>>
      /\ fp # "null"
      /\ said = "all" =>
           /\ rpc \in {"close", "closed"} /\ dst = Source(count)
           /\ spc \in {"blocks", "confirm"} \cup SndEnds
NoOldVerdict == rpc \in Early => rbuf.num # STARTTRANSFER

CopyInv ==
    DialogueInv /\ SameFile /\ InTransit /\ Stored /\ Faultless /\ NoOldVerdict

-----------------------------------------------------------------------------
(* The source, k bytes further.                                            *)
LEMMA SourceGrows ==
    ASSUME NEW a \in Nat, NEW k \in Nat
    PROVE  Source(a) \o [j \in 1..k |-> a + j] = Source(a + k)
<1> DEFINE more == [j \in 1..k |-> a + j]
<1>1. Source(a) \in Seq(Nat) /\ Len(Source(a)) = a /\ \A j \in 1..a : Source(a)[j] = j
  BY DEF Source
<1>2. more \in Seq(Nat) /\ Len(more) = k /\ \A j \in 1..k : more[j] = a + j
  OBVIOUS
<1> HIDE DEF more
<1>3. PICK f : f = Source(a) \o more
  OBVIOUS
<1>4. f \in Seq(Nat) /\ Len(f) = a + k
  BY <1>1, <1>2, <1>3
<1>5. ASSUME NEW j \in 1..(a + k) PROVE f[j] = j
  <2>1. CASE j <= a
    BY <1>1, <1>2, <1>3, <2>1
  <2>2. CASE a < j
    <3>1. f[j] = more[j - a] /\ j - a \in 1..k
      BY <1>1, <1>2, <1>3, <2>2
    <3> QED
      BY <1>2, <3>1
  <2> QED
    BY <2>1, <2>2
<1>6. f = [j \in 1..(a + k) |-> j]
  <2>1. f \in [1..(a + k) -> Nat]
    BY <1>4
  <2> QED
    BY <1>5, <2>1
<1> QED
  BY <1>3, <1>6 DEF Source, more

(* A stream has a length.                                                  *)
LEMMA LengthType == \A q \in Seq(Cells) : Len(q) \in Nat
OBVIOUS

(* What is left when n cells have been read.                               *)
LEMMA BehindRead ==
    ASSUME NEW q \in Seq(Cells), NEW n \in 0..Len(q)
    PROVE  /\ Len(SubSeq(q, n + 1, Len(q))) = Len(q) - n
           /\ \A k \in 1..Len(SubSeq(q, n + 1, Len(q))) :
                SubSeq(q, n + 1, Len(q))[k] = q[k + n] /\ k + n \in 1..Len(q)
OBVIOUS

(* Faults are remembered.                                                  *)
LEMMA FaultsGrow ==
    ASSUME [Next]_vars
    PROVE  faults \subseteq faults'
<1>1. Sender => faults' = faults
  BY DEF Sender, SndAccess, SndRnum, SndName, SndStart, SndSize, SndSizeOk, SndBlksOk,
     SndAwaits, SndLastOk, SndBlock, SndLast, SndNoFread, SndConfirm
<1>2. Receiver => faults \subseteq faults'
  BY DEF Receiver, RcvLen, RcvNameOk, RcvInfo, RcvOpen, RcvSize, RcvBlks, RcvLast,
     RcvBlock, RcvTail, RcvStores, RcvNoTail, RcvClose, connVars
<1>3. CrashSnd \/ CrashRcv \/ Edit => faults \subseteq faults'
  BY DEF CrashSnd, CrashRcv, Edit
<1>4. UNCHANGED vars => faults' = faults
  BY DEF vars
<1> QED
  BY <1>1, <1>2, <1>3, <1>4 DEF Next, Terminating

(* From the count on, the sender's count is the length of the file.        *)
LEMMA SameFileStep ==
    ASSUME SameFile, [Next]_vars
    PROVE  SameFile'
<1> SUFFICES ASSUME "edit" \notin faults', spc' \in Counted PROVE disk' = count'
  BY DEF SameFile
<1>0. "edit" \notin faults
  BY FaultsGrow
<1>1. ~Edit /\ ~CrashSnd
  BY DEF Edit, CrashSnd, Counted
<1>2. CASE SndStart
  BY <1>2 DEF SndStart, Counted
<1>3. CASE Sender /\ ~SndStart
  <2>1. disk' = disk /\ count' = count
    BY <1>3 DEF Sender, SndAccess, SndRnum, SndName, SndSize, SndSizeOk, SndBlksOk,
       SndAwaits, SndLastOk, SndBlock, SndLast, SndNoFread, SndConfirm
  <2>2. ~(SndAccess \/ SndNoFread)
    BY DEF SndAccess, SndNoFread, Counted
  <2>3. ~(SndRnum \/ SndName)
    BY DEF SndRnum, SndName, SndWrites, Counted
  <2>4. spc \in Counted
    BY <1>3, <2>2, <2>3 DEF Sender, SndSize, SndSizeOk, SndBlksOk, SndLastOk, SndBlock,
       SndLast, SndConfirm, Counted
  <2> QED
    BY <1>0, <2>1, <2>4 DEF SameFile
<1>4. CASE Receiver \/ CrashRcv \/ UNCHANGED vars
  <2>1. disk' = disk /\ UNCHANGED sndVars
    BY <1>4 DEF Receiver, RcvLen, RcvNameOk, RcvInfo, RcvOpen, RcvSize, RcvBlks, RcvLast,
       RcvBlock, RcvTail, RcvNoTail, RcvClose, CrashRcv, vars
  <2> QED
    BY <1>0, <2>1 DEF SameFile, sndVars
<1> QED
  BY <1>1, <1>2, <1>3, <1>4 DEF Next, Terminating

-----------------------------------------------------------------------------
(* A read that is not short returns the whole block.                       *)
LEMMA WholeRead ==
    ASSUME TypeInv, SndUp, NEW k \in Nat, NEW n \in Delivered(k), NEW next,
           RcvStores(k, n, next), "short" \notin faults'
    PROVE  n = k /\ k <= Len(toRcv)
<1>1. toRcv # <<>>
  BY DEF Delivered
<1>2. Len(toRcv) \in Nat \ {0}
  BY <1>1 DEF TypeInv, TypeOK
<1>3. n \notin 1..(k - 1)
  BY DEF RcvStores
<1>4. n \in 1..Smaller(k, Len(toRcv)) \/ n = Smaller(k, Len(toRcv))
  BY <1>1 DEF Delivered
<1> QED
  BY <1>2, <1>3, <1>4 DEF Smaller

(* What fread takes from a file that is as long as it was counted.         *)
LEMMA FreadSource ==
    ASSUME TypeInv, NEW k \in 0..MAXSIZE, disk \in Nat, MAXSIZE * si + k <= disk
    PROVE  \A j \in 1..k : Fread(k)[j] = MAXSIZE * si + j
<1>1. MAXSIZE \in Nat \ {0} /\ si \in Nat
  BY ConstantsOK DEF TypeInv, TypeOK
<1>2. PICK a \in Nat : a = MAXSIZE * si
  BY <1>1, WholeBlocks
<1> SUFFICES ASSUME NEW j \in 1..k PROVE Fread(k)[j] = a + j
  BY <1>2
<1>3. j \in 1..MAXSIZE /\ j <= k /\ a + j <= disk
  BY <1>1, <1>2
<1> QED
  BY <1>2, <1>3 DEF Fread

(* Storing a whole block that is the next of the source.                   *)
LEMMA StoresSource ==
    ASSUME TypeInv, NEW k \in 0..MAXSIZE, k <= Len(toRcv), NEW next, RcvStores(k, k, next),
           NEW a \in Nat, \A j \in 1..k : toRcv[j] = Byte(a + j),
           fp = "open", dst = Source(a)
    PROVE  dst' = Source(a + k)
<1>1. MAXSIZE \in Nat \ {0} /\ k \in Nat
  BY ConstantsOK
<1>2. \A j \in 1..k : j \in 1..MAXSIZE /\ j <= k
  BY <1>1
<1>3. \A j \in 1..k : toRcv[j].num = a + j
  <2>1. \A m : Byte(m).num = m
    BY DEF Byte
  <2> QED
    BY <2>1
<1>4. blk' = [j \in 1..MAXSIZE |-> IF j <= k THEN toRcv[j].num ELSE blk[j]]
  BY DEF RcvStores
<1>5. \A j \in 1..k : (IF j <= MAXSIZE THEN blk'[j] ELSE Junk) = a + j
  <2> TAKE j \in 1..k
  <2>1. blk'[j] = toRcv[j].num
    BY <1>2, <1>4
  <2> QED
    BY <1>1, <1>2, <1>3, <2>1
<1>6. [j \in 1..k |-> IF j <= MAXSIZE THEN blk'[j] ELSE Junk] = [j \in 1..k |-> a + j]
  BY <1>5
<1>7. dst' = dst \o [j \in 1..k |-> IF j <= MAXSIZE THEN blk'[j] ELSE Junk]
  BY DEF RcvStores
<1> QED
  BY <1>1, <1>6, <1>7, SourceGrows

(* The bytes of a block the sender writes follow those on their way.       *)
LEMMA SendsSource ==
    ASSUME TypeInv, TypeInv', RcvUp, NEW k \in 0..MAXSIZE, NEW next, NEW lost,
           SndWrites([j \in 1..k |-> Byte(temp'[j])], next, lost),
           \A j \in 1..k : temp'[j] = MAXSIZE * si + j,
           Len(toRcv) = MAXSIZE * si - MAXSIZE * ri,
           \A j \in 1..Len(toRcv) : toRcv[j] = Byte(MAXSIZE * ri + j)
    PROVE  /\ Len(toRcv') = (MAXSIZE * si + k) - MAXSIZE * ri
           /\ \A j \in 1..Len(toRcv') : toRcv'[j] = Byte(MAXSIZE * ri + j)
<1>1. /\ MAXSIZE \in Nat \ {0} /\ si \in Nat /\ ri \in Nat /\ k \in Nat
      /\ temp' \in [1..MAXSIZE -> Nat] /\ toRcv \in Seq(Cells)
  <2>1. MAXSIZE \in Nat \ {0} /\ k \in Nat
    BY ConstantsOK
  <2> QED
    BY <2>1 DEF TypeInv, TypeOK
<1>2. PICK a \in Nat : a = MAXSIZE * si
  BY <1>1, WholeBlocks
<1>3. PICK b \in Nat : b = MAXSIZE * ri
  BY <1>1, WholeBlocks
<1>4. /\ Len(toRcv') = Len(toRcv) + k
      /\ \A j \in 1..Len(toRcv') :
           toRcv'[j] = IF j <= Len(toRcv) THEN toRcv[j] ELSE Byte(temp'[j - Len(toRcv)])
  BY <1>1, SndWritesBytes
<1>5. Len(toRcv) \in Nat /\ Len(toRcv) = a - b
  <2>1. Len(toRcv) \in Nat
    BY <1>1, LengthType, Zenon
  <2> QED
    BY <1>2, <1>3, <2>1
<1>6. ASSUME NEW j \in 1..Len(toRcv') PROVE toRcv'[j] = Byte(b + j)
  <2>1. CASE j <= Len(toRcv)
    BY <1>3, <1>4, <1>5, <2>1
  <2>2. CASE Len(toRcv) < j
    <3>1. j - Len(toRcv) \in 1..k /\ a + (j - Len(toRcv)) = b + j
      BY <1>1, <1>4, <1>5, <2>2
    <3>2. temp'[j - Len(toRcv)] = b + j
      BY <1>2, <3>1
    <3> QED
      BY <1>4, <1>5, <2>2, <3>2
  <2> QED
    BY <1>5, <2>1, <2>2
<1> QED
  BY <1>1, <1>2, <1>3, <1>4, <1>5, <1>6

(* The arithmetic of the last block: what lies before it and with it.      *)
LEMMA LastBlock ==
    ASSUME TypeInv
    PROVE  /\ Blocks \in Nat /\ Last \in 0..(MAXSIZE - 1) /\ count = MAXSIZE * Blocks + Last
           /\ si < Blocks => MAXSIZE * si + MAXSIZE <= count
           /\ ri < Blocks => MAXSIZE * ri + MAXSIZE <= count
<1>1. MAXSIZE \in Nat \ {0} /\ count \in Nat /\ si \in Nat /\ ri \in Nat
  BY ConstantsOK DEF TypeInv, TypeOK
<1>2. Blocks \in Nat /\ Last \in 0..(MAXSIZE - 1) /\ count = MAXSIZE * Blocks + Last
  BY <1>1, WholeBlocks DEF Blocks, Last
<1>3. ASSUME NEW a \in Nat, a < Blocks PROVE MAXSIZE * a + MAXSIZE <= count
  <2>1. MAXSIZE * a + MAXSIZE <= MAXSIZE * Blocks
    BY <1>1, <1>2, <1>3, WholeBlocks
  <2>2. PICK b \in Nat : b = MAXSIZE * Blocks
    BY <1>1, <1>2, WholeBlocks
  <2>3. PICK c \in Nat : c = MAXSIZE * a
    BY <1>1, <1>3, WholeBlocks
  <2> QED
    BY <1>1, <1>2, <2>1, <2>2, <2>3
<1> QED
  BY <1>1, <1>2, <1>3

(* What is on its way is the rest of the source.                           *)
LEMMA InTransitStep ==
    ASSUME DialogueInv, DialogueInv', SameFile, InTransit, [Next]_vars
    PROVE  InTransit'
<1> SUFFICES ASSUME Clean', spc' \in {"blocks", "confirm"}, rpc' = "data"
             PROVE  /\ Len(toRcv') = Sent' - MAXSIZE * ri'
                    /\ \A k \in 1..Len(toRcv') : toRcv'[k] = Byte(MAXSIZE * ri' + k)
                    /\ fp' = "open" => dst' = Source(MAXSIZE * ri')
  BY DEF InTransit
<1>0. /\ TypeInv /\ TypeInv' /\ Clean
      /\ MAXSIZE \in Nat \ {0} /\ count \in Nat /\ si \in Nat /\ ri \in Nat
  BY FaultsGrow, ConstantsOK DEF DialogueInv, TypeInv, TypeOK, Clean
<1>1. CASE SndLastOk
  <2>1. spc = "last_ok" /\ spc' = "blocks" /\ SndUp /\ UNCHANGED <<rcvVars, toRcv, si>>
    BY <1>1 DEF SndLastOk, SndUp, SndEnds
  <2>2. rpc = "data" /\ RcvUp
    BY <2>1 DEF RcvUp, RcvEnds, rcvVars
  <2>3. toRcv = <<>> /\ ri = 0
    BY <2>1, <2>2 DEF DialogueInv, Lockstep, Greeting, Asking, Opening, Sizing, Counting, Resting,
       Sending, InFlight
  <2>4. si = 0 /\ MAXSIZE * 0 = 0 /\ Len(<<>>) = 0
    BY <1>0, <2>1 DEF DialogueInv, Heard, Unsent
  <2>5. fp = "open" => dst = Source(0)
    <3>1. fp = "open" => Len(dst) = 0
      BY <2>2, <2>3, <2>4 DEF DialogueInv, Receiving
    <3>2. dst \in Seq(Nat \cup {OldByte})
      BY <1>0 DEF TypeInv, TypeOK
    <3>3. Source(0) = <<>> /\ (Len(dst) = 0 => dst = <<>>)
      BY <3>2 DEF Source
    <3> QED
      BY <3>1, <3>3
  <2>6. Sent' = 0 /\ ri' = 0 /\ toRcv' = <<>> /\ dst' = dst /\ fp' = fp
    BY <2>1, <2>3, <2>4 DEF Sent, rcvVars
  <2> QED
    BY <2>4, <2>5, <2>6
<1>2. CASE SndBlock \/ SndLast
  <2>1. spc = "blocks" /\ SndUp /\ UNCHANGED <<rcvVars, count, disk>>
    BY <1>2 DEF SndBlock, SndLast, SndUp, SndEnds
  <2>2. rpc = "data" /\ RcvUp
    BY <2>1 DEF RcvUp, RcvEnds, rcvVars
  <2>3. /\ Len(toRcv) = MAXSIZE * si - MAXSIZE * ri
        /\ \A k \in 1..Len(toRcv) : toRcv[k] = Byte(MAXSIZE * ri + k)
        /\ fp = "open" => dst = Source(MAXSIZE * ri)
    BY <1>0, <2>1, <2>2 DEF InTransit, Sent
  <2>4. disk = count
    BY <1>0, <2>1 DEF SameFile, Counted, Clean
  <2>5. PICK k, next, lost :
          /\ k \in 0..MAXSIZE
          /\ SndWrites([j \in 1..k |-> Byte(temp'[j])], next, lost)
          /\ temp' = Fread(k) /\ MAXSIZE * si + k <= count /\ Sent' = MAXSIZE * si + k
    <3>1. CASE SndBlock
      <4>1. /\ SndWrites([j \in 1..MAXSIZE |-> Byte(temp'[j])], "blocks", "blocks")
            /\ temp' = Fread(MAXSIZE) /\ si < Blocks /\ si' = si + 1 /\ spc' = "blocks"
        BY <2>2, <3>1 DEF SndBlock, SndWrites, Blocks
      <4>2. MAXSIZE * si + MAXSIZE <= count
        BY <1>0, <4>1, LastBlock
      <4>3. Sent' = MAXSIZE * si + MAXSIZE
        BY <1>0, <4>1, WholeBlocks DEF Sent
      <4>4. MAXSIZE \in 0..MAXSIZE
        BY <1>0
      <4> QED
        BY <4>1, <4>2, <4>3, <4>4
    <3>2. CASE SndLast
      <4>1. /\ SndWrites([j \in 1..Last |-> Byte(temp'[j])], "confirm", "exited")
            /\ temp' = Fread(Last) /\ si = Blocks /\ spc' = "confirm"
        BY <2>2, <3>2 DEF SndLast, SndWrites, Blocks, Last
      <4>2. count = MAXSIZE * si + Last /\ Last \in 0..(MAXSIZE - 1)
        BY <1>0, <4>1, LastBlock
      <4>3. Sent' = count
        BY <2>1, <4>1 DEF Sent
      <4>4. Last \in 0..MAXSIZE
        BY <1>0, <4>2
      <4>5. MAXSIZE * si + Last <= count /\ Sent' = MAXSIZE * si + Last
        BY <1>0, <4>2, <4>3
      <4> QED
        BY <4>1, <4>4, <4>5
    <3> QED
      BY <1>2, <3>1, <3>2
  <2>6. \A j \in 1..k : temp'[j] = MAXSIZE * si + j
    BY <1>0, <2>4, <2>5, FreadSource
  <2>7. /\ Len(toRcv') = (MAXSIZE * si + k) - MAXSIZE * ri
        /\ \A j \in 1..Len(toRcv') : toRcv'[j] = Byte(MAXSIZE * ri + j)
    BY <1>0, <2>2, <2>3, <2>5, <2>6, SendsSource
  <2>8. ri' = ri /\ fp' = fp /\ dst' = dst
    BY <2>1 DEF rcvVars
  <2>9. MAXSIZE * ri' = MAXSIZE * ri
    BY <2>8
  <2>10. Len(toRcv') = Sent' - MAXSIZE * ri'
    <3>1. PICK a \in Nat : a = MAXSIZE * ri
      BY <1>0, WholeBlocks
    <3>2. PICK b \in Nat : b = MAXSIZE * si
      BY <1>0, WholeBlocks
    <3>3. k \in 0..MAXSIZE /\ Sent' = b + k
      BY <2>5, <3>2
    <3>4. Len(toRcv') = (b + k) - a
      BY <2>7, <3>1, <3>2
    <3> QED
      BY <1>0, <2>9, <3>1, <3>3, <3>4
  <2>11. \A j \in 1..Len(toRcv') : toRcv'[j] = Byte(MAXSIZE * ri' + j)
    BY <2>7, <2>9
  <2>12. fp' = "open" => dst' = Source(MAXSIZE * ri')
    BY <2>3, <2>8, <2>9
  <2> QED
    BY <2>10, <2>11, <2>12
<1>3. CASE RcvBlock
  <2>1. /\ spc \in {"blocks", "confirm"} /\ rpc = "data" /\ ri < num_blks /\ SndUp
        /\ UNCHANGED <<sndVars, fp>>
    BY <1>3 DEF RcvBlock, sndVars, SndUp, SndEnds
  <2>2. PICK n \in Delivered(MAXSIZE) : RcvStores(MAXSIZE, n, "data") /\ ri' = ri + 1
    BY <1>3 DEF RcvBlock
  <2>3. n = MAXSIZE /\ MAXSIZE <= Len(toRcv)
    BY <1>0, <2>1, <2>2, WholeRead DEF Clean
  <2>4. /\ Len(toRcv) = Sent - MAXSIZE * ri
        /\ \A k \in 1..Len(toRcv) : toRcv[k] = Byte(MAXSIZE * ri + k)
        /\ fp = "open" => dst = Source(MAXSIZE * ri)
    BY <1>0, <2>1 DEF InTransit
  <2>5. PICK a \in Nat : a = MAXSIZE * ri
    BY <1>0, WholeBlocks
  <2>6. MAXSIZE * ri' = a + MAXSIZE
    BY <1>0, <2>2, <2>5, WholeBlocks
  <2>7. toRcv' = SubSeq(toRcv, MAXSIZE + 1, Len(toRcv)) /\ fp = "open"
    BY <2>2, <2>3 DEF RcvStores
  <2>8. /\ Len(toRcv') = Len(toRcv) - MAXSIZE
        /\ \A k \in 1..Len(toRcv') : toRcv'[k] = toRcv[k + MAXSIZE] /\ k + MAXSIZE \in 1..Len(toRcv)
    <3>1. toRcv \in Seq(Cells) /\ Len(toRcv) \in Nat /\ MAXSIZE \in 0..Len(toRcv)
      BY <1>0, <2>3, LengthType DEF TypeInv, TypeOK
    <3> QED
      BY <2>7, <3>1, BehindRead
  <2>9. \A k \in 1..Len(toRcv') : toRcv'[k] = Byte(a + MAXSIZE + k)
    <3> TAKE k \in 1..Len(toRcv')
    <3>1. toRcv'[k] = Byte(a + (k + MAXSIZE))
      BY <2>4, <2>5, <2>8
    <3>2. k \in Nat /\ a + (k + MAXSIZE) = a + MAXSIZE + k
      BY <1>0
    <3> QED
      BY <3>1, <3>2
  <2>10. dst' = Source(a + MAXSIZE)
    <3>1. \A j \in 1..MAXSIZE : toRcv[j] = Byte(a + j)
      BY <1>0, <2>3, <2>4, <2>5
    <3> QED
      BY <1>0, <2>2, <2>3, <2>4, <2>5, <2>7, <3>1, StoresSource
  <2>11. Sent' = Sent /\ Sent \in Nat
    BY <1>0, <2>1, WholeBlocks DEF Sent, sndVars
  <2>12. Len(toRcv') = Sent' - (a + MAXSIZE)
    BY <1>0, <2>4, <2>5, <2>8, <2>11
  <2> QED
    BY <2>6, <2>9, <2>10, <2>12
<1>4. CASE Receiver /\ ~RcvBlock
  <2>1. spc \in {"blocks", "confirm"}
    BY <1>4 DEF Receiver, RcvLen, RcvNameOk, RcvInfo, RcvOpen, RcvSize, RcvBlks,
       RcvLast, RcvTail, RcvNoTail, RcvClose, sndVars
  <2>2. rpc \in {"data", "close"} \cup RcvEnds /\ num_last # 0
    BY <2>1 DEF DialogueInv, Heard, Meant, Settled
  <2> QED
    BY <1>4, <2>2 DEF Receiver, RcvLen, RcvNameOk, RcvInfo, RcvOpen, RcvSize, RcvBlks,
       RcvLast, RcvTail, RcvStores, RcvNoTail, RcvClose, RcvWrites, RcvEnds
<1>5. CASE UNCHANGED vars
  <2>1. UNCHANGED <<spc, count, si, rpc, ri, fp, dst, toRcv>>
    BY <1>5 DEF vars, sndVars, rcvVars, connVars
  <2> QED
    BY <1>0, <2>1 DEF InTransit, Sent
<1>6. ~(CrashSnd \/ CrashRcv \/ Edit \/ SndConfirm)
  BY DEF CrashSnd, CrashRcv, Edit, Clean, SndConfirm
<1>7. CASE Sender /\ ~(SndLastOk \/ SndBlock \/ SndLast \/ SndConfirm)
  BY <1>7 DEF Sender, SndAccess, SndRnum, SndName, SndStart, SndSize, SndSizeOk, SndBlksOk,
     SndAwaits, SndNoFread, SndWrites
<1> QED
  BY <1>1, <1>2, <1>3, <1>4, <1>5, <1>6, <1>7 DEF Next, Terminating

(* The tail completes the copy, and nothing changes it afterwards.         *)
LEMMA StoredStep ==
    ASSUME DialogueInv, InTransit, Stored, [Next]_vars
    PROVE  Stored'
<1> SUFFICES ASSUME Clean', spc' \in {"blocks", "confirm", "complete"},
                    rpc' \in {"close", "closed"}, fp' = "open"
             PROVE  dst' = Source(count')
  BY DEF Stored
<1>0. /\ TypeInv /\ Clean
      /\ MAXSIZE \in Nat \ {0} /\ count \in Nat /\ ri \in Nat
  BY FaultsGrow, ConstantsOK DEF DialogueInv, TypeInv, TypeOK, Clean
<1>1. CASE SndLastOk
  <2>1. SndUp /\ spc = "last_ok" /\ spc' = "blocks" /\ rpc' = rpc
    BY <1>1 DEF SndLastOk, SndUp, SndEnds, rcvVars
  <2>2. toSnd = <<Txt("num_last_ok")>>
    BY <1>0, <1>1, <2>1, LastOkRead DEF DialogueInv
  <2>3. rpc \in {"data", "killed"}
    BY <2>1, <2>2 DEF DialogueInv, Heard, LastWord
  <2> QED
    BY <2>1, <2>3
<1>2. CASE SndBlock \/ SndLast \/ SndConfirm
  <2>1. spc \in {"blocks", "confirm"} /\ UNCHANGED <<rcvVars, count>>
    BY <1>2 DEF SndBlock, SndLast, SndConfirm
  <2> QED
    BY <1>0, <2>1 DEF Stored, rcvVars
<1>3. CASE RcvTail
  <2>1. /\ rpc = "data" /\ ri = num_blks /\ rpc' = "close" /\ RcvUp
        /\ UNCHANGED <<sndVars, fp, num_last>>
    BY <1>3 DEF RcvTail, RcvStores, RcvUp, RcvEnds
  <2>2. spc \in {"blocks", "confirm"} /\ count' = count /\ SndUp
    BY <2>1 DEF DialogueInv, Heard, Farewell, sndVars, SndUp, SndEnds
  <2>3. conn = "ok" /\ num_last = Last /\ ri = Blocks
    BY <2>1, <2>2 DEF DialogueInv, Lockstep, Heard, Meant, Settled
  <2>4. PICK n \in Delivered(num_last) : RcvStores(num_last, n, "close")
    BY <1>3, <2>3 DEF RcvTail
  <2>5. num_last \in 0..(MAXSIZE - 1) /\ count = MAXSIZE * ri + num_last
    BY <1>0, <2>3, LastBlock
  <2>6. num_last \in Nat /\ num_last \in 0..MAXSIZE
    BY <1>0, <2>5
  <2>7. n = num_last /\ num_last <= Len(toRcv)
    BY <1>0, <2>2, <2>4, <2>6, WholeRead DEF Clean
  <2>8. /\ \A k \in 1..Len(toRcv) : toRcv[k] = Byte(MAXSIZE * ri + k)
        /\ fp = "open" /\ dst = Source(MAXSIZE * ri)
    BY <1>0, <2>1, <2>2 DEF InTransit
  <2>9. PICK a \in Nat : a = MAXSIZE * ri
    BY <1>0, WholeBlocks
  <2>10. \A j \in 1..num_last : toRcv[j] = Byte(a + j)
    <3>1. toRcv \in Seq(Cells) /\ Len(toRcv) \in Nat
      BY <1>0, LengthType DEF TypeInv, TypeOK
    <3> QED
      BY <2>6, <2>7, <2>8, <2>9, <3>1
  <2>11. dst' = Source(a + num_last)
    BY <1>0, <2>4, <2>6, <2>7, <2>8, <2>9, <2>10, StoresSource
  <2> QED
    BY <2>2, <2>5, <2>9, <2>11
<1>4. CASE Receiver /\ ~RcvTail
  <2>1. /\ spc \in {"blocks", "confirm", "complete"} /\ count' = count
    BY <1>4 DEF Receiver, RcvLen, RcvNameOk, RcvInfo, RcvOpen, RcvSize, RcvBlks,
       RcvLast, RcvBlock, RcvNoTail, RcvClose, sndVars
  <2>2. rpc \in {"data", "close"} \cup RcvEnds /\ num_last # 0
    BY <2>1 DEF DialogueInv, Heard, Meant, Settled
  <2>3. RcvClose
    BY <1>4, <2>2 DEF Receiver, RcvLen, RcvNameOk, RcvInfo, RcvOpen, RcvSize, RcvBlks,
       RcvLast, RcvBlock, RcvStores, RcvNoTail, RcvEnds
  <2>4. rpc = "close" /\ dst' = dst /\ fp' = fp
    BY <2>3 DEF RcvClose, rcvData
  <2> QED
    BY <1>0, <2>1, <2>4 DEF Stored
<1>5. CASE UNCHANGED vars
  <2>1. UNCHANGED <<spc, count, rpc, fp, dst>>
    BY <1>5 DEF vars, sndVars, rcvVars
  <2> QED
    BY <1>0, <2>1 DEF Stored
<1>6. ~(CrashSnd \/ CrashRcv \/ Edit)
  BY DEF CrashSnd, CrashRcv, Edit, Clean
<1>7. CASE Sender /\ ~(SndLastOk \/ SndBlock \/ SndLast \/ SndConfirm)
  BY <1>7 DEF Sender, SndAccess, SndRnum, SndName, SndStart, SndSize, SndSizeOk, SndBlksOk,
     SndAwaits, SndNoFread, SndWrites
<1> QED
  BY <1>1, <1>2, <1>3, <1>4, <1>5, <1>6, <1>7 DEF Next, Terminating

(* Before the verdict dataBuf never holds one.                             *)
LEMMA NoOldVerdictStep ==
    ASSUME NoOldVerdict, [Next]_vars
    PROVE  NoOldVerdict'
<1>1. CASE RcvLen
  <2>1. rbuf' = Num(NameLen)
    BY <1>1 DEF RcvLen
  <2> QED
    BY <2>1, Messages DEF NoOldVerdict, NameLen, STARTTRANSFER
<1>2. CASE RcvNameOk
  <2>1. rbuf' = Num(FILENAMEOK) \/ rpc' \in {"open", "exited", "killed"}
    BY <1>2 DEF RcvNameOk, RcvVerdict, RcvWrites
  <2> QED
    BY <2>1, Messages DEF NoOldVerdict, Early, FILENAMEOK, STARTTRANSFER
<1>3. CASE Receiver /\ ~(RcvLen \/ RcvNameOk)
  <2>1. rpc' \notin Early
    BY <1>3 DEF Receiver, RcvInfo, RcvVerdict, RcvWrites, RcvOpen, RcvSize, RcvBlks, RcvLast,
       RcvBlock, RcvTail, RcvStores, RcvNoTail, RcvClose, Early
  <2> QED
    BY <2>1 DEF NoOldVerdict
<1>4. CASE Sender \/ CrashSnd \/ Edit \/ UNCHANGED vars
  <2>1. UNCHANGED rcvVars
    BY <1>4 DEF Sender, SndAccess, SndRnum, SndName, SndStart, SndSize, SndSizeOk, SndBlksOk,
       SndAwaits, SndLastOk, SndBlock, SndLast, SndNoFread, SndConfirm, CrashSnd, Edit, vars
  <2> QED
    BY <2>1 DEF NoOldVerdict, rcvVars
<1>5. CASE CrashRcv
  BY <1>5 DEF CrashRcv, NoOldVerdict, Early
<1> QED
  BY <1>1, <1>2, <1>3, <1>4, <1>5 DEF Next, Terminating

(* Without faults the sender leaves a running receiver only before the     *)
(* verdict on the file, and nothing is on its way then.                    *)
LEMMA SenderStaysOn ==
    ASSUME DialogueInv, SameFile, "edit" \notin faults, SndUp, RcvUp, Sender, ~SndUp'
    PROVE  rpc \in Early /\ toRcv = <<>> /\ toRcv' = <<>>
<1>0. /\ conn = "ok" /\ TypeInv
      /\ Greeting \/ Asking \/ Opening \/ Sizing \/ Counting \/ Resting \/ Sending
  BY DEF DialogueInv, Lockstep
<1>a. ASSUME NEW got \in Arrived(toSnd, RcvUp)
      PROVE  /\ toSnd # <<>>
             /\ \A c : toSnd = <<c>> /\ c.txt \notin {"EOF", "ERR"} => got = c /\ got # ERR
  <2>1. RcvUp = TRUE
    BY DEF RcvUp
  <2> QED
    BY <1>0, <2>1, ReadTogether
<1>b. spc' \in SndEnds
  BY DEF SndUp
<1>1. CASE SndAccess
  BY <1>0, <1>1 DEF SndAccess, Greeting, Asking, Opening, Sizing, Counting, Resting, Sending,
     InFlight, Early
<1>2. CASE SndName
  <2>1. PICK got \in Arrived(toSnd, RcvUp) :
          \/ got = ERR
          \/ SndWrites(<<Num(STARTTRANSFER)>>, "start", "exited")
          \/ spc' = "exited" /\ UNCHANGED toRcv
    BY <1>2 DEF SndName
  <2>2. spc = "name" /\ toSnd # <<>>
    BY <1>2, <1>a, <2>1 DEF SndName
  <2>3. rpc \in Early /\ (InFlight(<<>>, <<Txt("name")>>) \/ InFlight(<<>>, <<Num(NameLen)>>))
    BY <1>0, <2>2 DEF Greeting, Asking, Opening, Sizing, Counting, Resting, Sending, InFlight,
       Early
  <2>4. got # ERR /\ toRcv = <<>>
    <3>1. PICK c : InFlight(<<>>, <<c>>) /\ c.txt \notin {"EOF", "ERR"}
      BY <2>3, Messages
    <3> QED
      BY <1>a, <2>1, <3>1 DEF InFlight
  <2>5. ~SndWrites(<<Num(STARTTRANSFER)>>, "start", "exited")
    BY <1>b DEF SndWrites, SndEnds
  <2> QED
    BY <2>1, <2>3, <2>4, <2>5
<1>3. ~SndRnum
  <2> SUFFICES ASSUME SndRnum PROVE FALSE
    OBVIOUS
  <2>1. PICK got \in Arrived(toSnd, RcvUp), next \in {"name", "rnum"} :
          got = ERR \/ SndWrites(<<Num(FILENAMEOK)>>, next, next)
    BY DEF SndRnum
  <2>2. spc = "rnum" /\ toSnd # <<>>
    BY <1>a, <2>1 DEF SndRnum
  <2>3. InFlight(<<>>, <<Txt("name")>>) \/ InFlight(<<>>, <<Num(NameLen)>>)
    BY <1>0, <2>2 DEF Greeting, Asking, Opening, Sizing, Counting, Resting, Sending, InFlight
  <2>4. got # ERR
    <3>1. PICK c : InFlight(<<>>, <<c>>) /\ c.txt \notin {"EOF", "ERR"}
      BY <2>3, Messages
    <3> QED
      BY <1>a, <2>1, <3>1 DEF InFlight
  <2> QED
    BY <1>b, <2>1, <2>4 DEF SndWrites, SndEnds
<1>4. ~SndStart
  BY <1>0, <1>b DEF SndStart, Greeting, Asking, Opening, Sizing, Counting, Resting, Sending,
     SndEnds
<1>5. ~SndSize
  BY <1>b DEF SndSize, SndWrites, SndEnds
<1>6. ~SndSizeOk
  <2> SUFFICES ASSUME SndSizeOk PROVE FALSE
    OBVIOUS
  <2>1. PICK got \in Arrived(toSnd, RcvUp) :
          got = Txt("size_ok") => SndWrites(<<Num(Blocks)>>, "blks_ok", "blks_ok")
    BY DEF SndSizeOk, SndAwaits, Blocks
  <2>2. spc = "size_ok" /\ toSnd # <<>>
    BY <1>a, <2>1 DEF SndSizeOk
  <2>3. toSnd = <<Txt("size_ok")>>
    BY <1>0, <2>2 DEF Greeting, Asking, Opening, Sizing, Counting, Resting, Sending, InFlight
  <2>4. got = Txt("size_ok")
    BY <1>a, <2>1, <2>3, Messages
  <2> QED
    BY <1>b, <2>1, <2>4 DEF SndWrites, SndEnds
<1>7. ~SndBlksOk
  <2> SUFFICES ASSUME SndBlksOk PROVE FALSE
    OBVIOUS
  <2>1. PICK got \in Arrived(toSnd, RcvUp) :
          got = Txt("num_blks_ok") => SndWrites(<<Num(Last)>>, "last_ok", "last_ok")
    BY DEF SndBlksOk, SndAwaits, Last
  <2>2. spc = "blks_ok" /\ toSnd # <<>>
    BY <1>a, <2>1 DEF SndBlksOk
  <2>3. toSnd = <<Txt("num_blks_ok")>>
    BY <1>0, <2>2 DEF Greeting, Asking, Opening, Sizing, Counting, Resting, Sending, InFlight
  <2>4. got = Txt("num_blks_ok")
    BY <1>a, <2>1, <2>3, Messages
  <2> QED
    BY <1>b, <2>1, <2>4 DEF SndWrites, SndEnds
<1>8. ~SndLastOk
  <2> SUFFICES ASSUME SndLastOk PROVE FALSE
    OBVIOUS
  <2>1. PICK got \in Arrived(toSnd, RcvUp) : got = Txt("num_last_ok") => spc' = "blocks"
    BY DEF SndLastOk
  <2>2. spc = "last_ok" /\ toSnd # <<>>
    BY <1>a, <2>1 DEF SndLastOk
  <2>3. toSnd = <<Txt("num_last_ok")>>
    BY <1>0, <2>2 DEF Greeting, Asking, Opening, Sizing, Counting, Resting, Sending, InFlight
  <2>4. got = Txt("num_last_ok")
    BY <1>a, <2>1, <2>3, Messages
  <2> QED
    BY <1>b, <2>1, <2>4 DEF SndEnds
<1>9. ~SndBlock
  BY <1>b DEF SndBlock, SndWrites, SndEnds
<1>10. ~SndLast
  <2>1. spc = "blocks" => count % MAXSIZE # 0
    BY DEF DialogueInv, Heard, Meant, Settled, Last
  <2> QED
    BY <1>b, <2>1 DEF SndLast, SndWrites, SndEnds
<1>11. ~SndNoFread
  BY <1>0 DEF SndNoFread, SameFile, Counted, TypeInv, TypeOK, NoFile
<1>12. ~SndConfirm
  <2>1. spc = "confirm" => toSnd = <<>>
    BY <1>0 DEF Greeting, Asking, Opening, Sizing, Counting, Resting, Sending
  <2> QED
    BY <1>a, <2>1 DEF SndConfirm
<1> QED
  BY <1>1, <1>2, <1>3, <1>4, <1>5, <1>6, <1>7, <1>8, <1>9, <1>10, <1>11, <1>12 DEF Sender

(* A receiver left early never hears the verdict, and ends.                *)
LEMMA LeftEarly ==
    ASSUME NoOldVerdict, ~SndUp, rpc \in Early, toRcv = <<>>, Receiver, RcvUp'
    PROVE  rpc' \in Early /\ toRcv' = <<>>
<1>1. \A got \in Arrived(toRcv, SndUp) : got \in {EOF, ERR}
  BY SMT DEF Arrived
<1>2. \A got \in Arrived(toRcv, SndUp) : Kept(got) = rbuf /\ Rest(toRcv, got) = toRcv
  BY <1>1 DEF Kept, Rest
<1>3. ~RcvVerdict(rbuf)
  BY DEF NoOldVerdict, RcvVerdict, RcvUp, RcvEnds
<1>4. CASE RcvLen
  BY <1>4 DEF RcvLen, RcvWrites, Early, RcvUp, RcvEnds
<1>5. CASE RcvNameOk
  <2>1. toRcv' = toRcv /\ RcvWrites(Txt("name"), "info")
    BY <1>2, <1>3, <1>5 DEF RcvNameOk
  <2> QED
    BY <2>1 DEF RcvWrites, Early, RcvUp, RcvEnds
<1>6. CASE RcvInfo
  BY <1>2, <1>3, <1>6 DEF RcvInfo
<1> QED
  BY <1>4, <1>5, <1>6 DEF Receiver, RcvOpen, RcvSize, RcvBlks, RcvLast, RcvBlock, RcvTail,
     RcvNoTail, RcvClose, Early

(* Without faults nothing is wrong behind "All file recv".                 *)
LEMMA FaultlessStep ==
    ASSUME DialogueInv, SameFile, Stored', Faultless, NoOldVerdict, [Next]_vars
    PROVE  Faultless'
<1> SUFFICES ASSUME faults' = {}
             PROVE  /\ RcvUp' /\ ~SndUp' => rpc' \in Early /\ toRcv' = <<>>
                    /\ fp' # "null"
                    /\ said' = "all" =>
                         /\ rpc' \in {"close", "closed"} /\ dst' = Source(count')
                         /\ spc' \in {"blocks", "confirm"} \cup SndEnds
  BY DEF Faultless
<1>0. faults = {}
  BY FaultsGrow
<1>a. ~(CrashSnd \/ CrashRcv \/ Edit)
  BY DEF CrashSnd, CrashRcv, Edit
<1>b. [Sender \/ Receiver]_vars
  BY <1>a DEF Next, Terminating
<1>1. ASSUME RcvUp', ~SndUp' PROVE rpc' \in Early /\ toRcv' = <<>>
  <2>0. RcvUp
    BY <1>1, EndsStay DEF RcvUp, rcvVars
  <2>1. CASE SndUp /\ Sender
    <3>1. rpc' = rpc
      BY <2>1 DEF Sender, SndAccess, SndRnum, SndName, SndStart, SndSize, SndSizeOk,
         SndBlksOk, SndAwaits, SndLastOk, SndBlock, SndLast, SndNoFread, SndConfirm, rcvVars
    <3> QED
      BY <1>0, <1>1, <2>0, <2>1, <3>1, SenderStaysOn
  <2>2. CASE SndUp /\ ~Sender
    <3>1. UNCHANGED sndVars
      BY <1>b, <2>2 DEF Receiver, RcvLen, RcvNameOk, RcvInfo, RcvOpen, RcvSize, RcvBlks,
         RcvLast, RcvBlock, RcvTail, RcvNoTail, RcvClose, vars
    <3> QED
      BY <1>1, <2>2, <3>1 DEF SndUp, sndVars
  <2>3. CASE ~SndUp
    <3>1. rpc \in Early /\ toRcv = <<>>
      BY <1>0, <2>0, <2>3 DEF Faultless
    <3>2. ~Sender
      BY <2>3 DEF Sender, SndUp, SndEnds, SndAccess, SndRnum, SndName, SndStart, SndSize,
         SndSizeOk, SndBlksOk, SndLastOk, SndBlock, SndLast, SndNoFread, SndConfirm
    <3>3. CASE UNCHANGED vars
      BY <3>1, <3>3 DEF vars, rcvVars, connVars
    <3> QED
      BY <1>1, <1>b, <2>3, <3>1, <3>2, <3>3, LeftEarly
  <2> QED
    BY <2>1, <2>2, <2>3
<1>2. fp' # "null"
  <2>1. fp # "null"
    BY <1>0 DEF Faultless
  <2>2. fp' = fp \/ RcvOpen
    BY <1>b DEF Sender, SndAccess, SndRnum, SndName, SndStart, SndSize, SndSizeOk,
       SndBlksOk, SndAwaits, SndLastOk, SndBlock, SndLast, SndNoFread, SndConfirm,
       Receiver, RcvLen, RcvNameOk, RcvInfo, RcvSize, RcvBlks, RcvLast, RcvBlock, RcvTail,
       RcvNoTail, RcvClose, vars, rcvVars, rcvData
  <2>3. RcvOpen => fp' # "null"
    BY DEF RcvOpen
  <2> QED
    BY <2>1, <2>2, <2>3
<1>3. ASSUME said' = "all"
      PROVE  /\ rpc' \in {"close", "closed"} /\ dst' = Source(count')
             /\ spc' \in {"blocks", "confirm"} \cup SndEnds
  <2>1. CASE RcvTail
    <3>1. rpc = "data" /\ RcvUp /\ fp # "null" /\ UNCHANGED <<sndVars, fp>>
      BY <1>0, <2>1 DEF RcvTail, RcvUp, RcvEnds, Faultless
    <3>2. SndUp /\ said = "nothing"
      BY <1>0, <3>1 DEF Faultless, Early, DialogueInv, TypeInv, TypeOK
    <3>3. spc \in {"blocks", "confirm"}
      <4>1. ri = num_blks /\ num_last # 0
        BY <2>1 DEF RcvTail
      <4> QED
        BY <3>1, <3>2, <4>1 DEF DialogueInv, Lockstep, Greeting, Asking, Opening, Sizing, Counting,
           Resting, Sending
    <3>4. rpc' = "close" /\ fp' = "open"
      BY <1>2, <2>1, <3>1 DEF RcvTail, RcvStores
    <3>5. spc' = spc
      BY <3>1 DEF sndVars
    <3> QED
      BY <3>3, <3>4, <3>5 DEF Stored, Clean
  <2>2. CASE ~RcvTail
    <3>1. said = "all"
      BY <1>3, <1>b, <2>2 DEF Sender, SndAccess, SndRnum, SndName, SndStart, SndSize, SndSizeOk,
         SndBlksOk, SndAwaits, SndLastOk, SndBlock, SndLast, SndNoFread, SndConfirm,
         Receiver, RcvLen, RcvNameOk, RcvInfo, RcvOpen, RcvSize, RcvBlks, RcvLast, RcvBlock,
         RcvNoTail, RcvClose, vars, rcvVars, rcvData
    <3>2. /\ rpc \in {"close", "closed"} /\ dst = Source(count)
          /\ spc \in {"blocks", "confirm"} \cup SndEnds
      BY <1>0, <3>1 DEF Faultless
    <3>3. CASE Sender
      BY <3>2, <3>3 DEF Sender, SndAccess, SndRnum, SndName, SndStart, SndSize, SndSizeOk,
         SndBlksOk, SndAwaits, SndLastOk, SndBlock, SndLast, SndNoFread, SndConfirm,
         SndWrites, SndEnds, rcvVars
    <3>4. CASE Receiver
      <4>1. RcvClose
        BY <2>2, <3>2, <3>4 DEF Receiver, RcvLen, RcvNameOk, RcvInfo, RcvOpen, RcvSize, RcvBlks,
           RcvLast, RcvBlock, RcvNoTail
      <4>2. rpc = "close" /\ fp # "null" /\ RcvUp
        BY <1>0, <4>1 DEF RcvClose, Faultless, RcvUp, RcvEnds
      <4>3. SndUp
        BY <1>0, <4>2 DEF Faultless, Early
      <4>4. rpc' = "closed" /\ UNCHANGED <<dst, count, spc>>
        BY <4>1, <4>2, <4>3 DEF RcvClose, rcvData, sndVars
      <4> QED
        BY <3>2, <4>4
    <3>5. CASE UNCHANGED vars
      BY <3>2, <3>5 DEF vars, rcvVars, sndVars
    <3> QED
      BY <1>b, <3>3, <3>4, <3>5
  <2> QED
    BY <2>1, <2>2
<1> QED
  BY <1>1, <1>2, <1>3

LEMMA CopyStep ==
    ASSUME CopyInv, [Next]_vars
    PROVE  CopyInv'
<1> USE DEF CopyInv
<1>1. DialogueInv'
  BY DialogueStep
<1>2. SameFile'
  BY SameFileStep
<1>3. InTransit'
  BY <1>1, InTransitStep
<1>4. Stored'
  BY StoredStep
<1>5. Faultless'
  BY <1>4, FaultlessStep
<1>6. NoOldVerdict'
  BY NoOldVerdictStep
<1> QED
  BY <1>1, <1>2, <1>3, <1>4, <1>5, <1>6

LEMMA InitCopy == Init => CopyInv
<1> SUFFICES ASSUME Init PROVE CopyInv
  OBVIOUS
<1>1. /\ spc \in {"access", "rnum"} /\ rpc = "len" /\ rbuf = Txt("empty")
      /\ fp = "none" /\ said = "nothing"
  BY DEF Init, Enter
<1>2. SameFile /\ InTransit /\ Stored
  BY <1>1 DEF SameFile, Counted, InTransit, Stored
<1>3. Faultless
  BY <1>1 DEF Faultless, SndUp, SndEnds
<1>4. NoOldVerdict
  BY <1>1, Messages DEF NoOldVerdict, STARTTRANSFER
<1> QED
  BY <1>2, <1>3, <1>4, InitDialogue DEF CopyInv

-----------------------------------------------------------------------------
(* The invariant of the copy holds of every transfer.                      *)
THEOREM CopyInvariant == Spec => []CopyInv
BY InitCopy, CopyStep, PTL DEF Spec

(* "file send complate!!" means a closed local copy as long as the file    *)
(* was counted, holding exactly its bytes unless a read was short or the   *)
(* file was rewritten: for every block size, file, entry and crash.        *)
THEOREM CompleteCopies == Spec => []CompleteMeansCopied
<1>1. ASSUME CopyInv, spc = "complete"
      PROVE  /\ rpc = "closed" /\ Len(dst) = count
             /\ faults \cap {"short", "edit"} = {} => dst = Source(count)
  <2>1. rpc = "closed" /\ fp = "open" /\ num_blks = Blocks /\ num_last = Last /\ num_blks # 0
    BY <1>1 DEF CopyInv, DialogueInv, Heard, Farewell, Meant, Settled, Receiving
  <2>2. Len(dst) = MAXSIZE * num_blks + num_last
    BY <1>1, <2>1 DEF CopyInv, DialogueInv, Receiving
  <2>3. count = MAXSIZE * Blocks + Last
    BY <1>1, LastBlock DEF CopyInv, DialogueInv
  <2>4. Len(dst) = count
    BY <2>1, <2>2, <2>3
  <2>5. ASSUME faults \cap {"short", "edit"} = {} PROVE dst = Source(count)
    <3>1. Clean
      BY <2>5 DEF Clean
    <3> QED
      BY <1>1, <2>1, <3>1 DEF CopyInv, Stored
  <2> QED
    BY <2>1, <2>4, <2>5
<1>2. CopyInv => CompleteMeansCopied
  BY <1>1 DEF CompleteMeansCopied
<1> QED
  BY <1>2, CopyInvariant, PTL

(* "All file recv" means, when nothing went wrong, that the local copy has *)
(* exactly the bytes of the source.                                        *)
THEOREM AllRecvCopies == Spec => []AllRecvMeansCopied
<1>1. CopyInv => AllRecvMeansCopied
  BY DEF CopyInv, Faultless, AllRecvMeansCopied
<1> QED
  BY <1>1, CopyInvariant, PTL

-----------------------------------------------------------------------------
(***************************************************************************)
(* The refinement: FileCopy's status as the state of a transfer shows it.  *)
(***************************************************************************)
Status == IF faults # {} THEN "disturbed"
          ELSE IF spc = "complete" THEN "complete"
          ELSE IF Failed THEN "failed"
          ELSE IF fp = "open" THEN "copying" ELSE "idle"

(* While nothing has gone wrong FileCopy's variables are the lengths, the  *)
(* contents and the status of the transfer.                                *)
LEMMA CopyView ==
    ASSUME faults = {}, faults' = {}, disk' = disk
    PROVE  /\ dst' = dst /\ Status' = Status => UNCHANGED Copy!vars
           /\ (Status = "idle" /\ disk # NoFile /\ Status' = "copying" /\ dst' = <<>>) =>
                Copy!Begin
           /\ (Status = "copying" /\ Status' = Status
               /\ \E n \in (Len(dst) + 1)..disk : dst' = Source(n)) => Copy!Store
           /\ (Status = "copying" /\ Status' = "complete" /\ dst = Source(disk) /\ dst' = dst) =>
                Copy!Finish
           /\ (Status \in {"idle", "copying"} /\ Status' = "failed" /\ dst' = dst) =>
                Copy!GiveUp
BY DEF Status, Copy!vars, Copy!Begin, Copy!Store, Copy!Finish, Copy!GiveUp, Copy!Prefix, Source

(* The sender finishes the copy or gives it up, or does nothing to it.     *)
LEMMA SenderCopies ==
    ASSUME CopyInv, CopyInv', faults = {}, faults' = {}, Sender
    PROVE  [Copy!Next]_(Copy!vars)
<1>1. /\ UNCHANGED <<disk, rcvVars>> /\ SndUp /\ spc # "complete"
  BY DEF Sender, SndUp, SndEnds, SndAccess, SndRnum, SndName, SndStart, SndSize, SndSizeOk,
     SndBlksOk, SndAwaits, SndLastOk, SndBlock, SndLast, SndNoFread, SndConfirm
<1>2. UNCHANGED <<rpc, fp, dst, disk>>
  BY <1>1 DEF rcvVars
<1>3. Status \in {"failed", "copying", "idle"}
  BY <1>1 DEF Status
<1>4. CASE spc' = "complete"
  <2>1. spc = "confirm"
    BY <1>1, <1>4 DEF Sender, SndAccess, SndRnum, SndName, SndStart, SndSize, SndSizeOk,
       SndBlksOk, SndAwaits, SndLastOk, SndBlock, SndLast, SndNoFread, SndConfirm, SndWrites
  <2>2. rpc = "closed"
    BY <1>2, <1>4 DEF CopyInv, DialogueInv, Heard, Farewell
  <2>3. fp = "open"
    BY <2>2 DEF CopyInv, DialogueInv, Receiving
  <2>4. disk = count /\ dst = Source(count)
    BY <2>1, <2>2, <2>3 DEF CopyInv, SameFile, Counted, Stored, Clean
  <2>5. Status = "copying" /\ Status' = "complete"
    BY <1>4, <2>1, <2>2, <2>3 DEF Status, Failed
  <2>6. Copy!Finish
    BY <1>2, <2>4, <2>5, CopyView
  <2> QED
    BY <2>6 DEF Copy!Next
<1>5. CASE spc' \in {"returned", "exited", "killed"}
  <2>1. Status' = "failed"
    BY <1>5 DEF Status, Failed
  <2>2. Copy!GiveUp \/ UNCHANGED Copy!vars
    BY <1>2, <1>3, <2>1, CopyView
  <2> QED
    BY <2>2 DEF Copy!Next
<1>6. CASE spc' \notin SndEnds
  <2>1. Status' = Status
    BY <1>1, <1>2, <1>6 DEF Status, Failed, SndUp, SndEnds
  <2>2. UNCHANGED Copy!vars
    BY <1>2, <2>1, CopyView
  <2> QED
    BY <2>2
<1> QED
  BY <1>4, <1>5, <1>6 DEF SndEnds

(* A block or the tail, stored without a fault, is the next piece of the   *)
(* source.                                                                 *)
LEMMA ReceiverStores ==
    ASSUME CopyInv, CopyInv', faults = {}, faults' = {}, SndUp,
           \/ RcvBlock /\ rpc' = "data"
           \/ RcvTail /\ rpc' = "close"
    PROVE  \E n \in (Len(dst) + 1)..disk : dst' = Source(n)
<1>0. /\ MAXSIZE \in Nat \ {0} /\ count \in Nat /\ ri \in Nat /\ TypeInv
  BY ConstantsOK DEF CopyInv, DialogueInv, TypeInv, TypeOK
<1>1. rpc = "data" /\ RcvUp /\ fp = "open" /\ fp' = "open" /\ UNCHANGED sndVars
  BY DEF RcvBlock, RcvTail, RcvStores, RcvUp, RcvEnds
<1>2. conn = "ok" /\ (Resting \/ Sending)
  BY <1>1 DEF CopyInv, DialogueInv, Lockstep, Greeting, Asking, Opening, Sizing, Counting
<1>3. spc \in {"blocks", "confirm"}
  <2>1. Resting => toRcv = <<>> /\ ri = 0 /\ num_blks # 0
    BY <1>1 DEF Resting, InFlight
  <2>2. toRcv = <<>> => \A k : Delivered(k) = {}
    BY DEF Delivered
  <2>3. Resting => FALSE
    BY <1>2, <2>1, <2>2 DEF RcvBlock, RcvTail
  <2> QED
    BY <1>2, <2>3 DEF Sending
<1>4. /\ disk = count /\ dst = Source(MAXSIZE * ri)
      /\ num_blks = Blocks /\ num_last = Last
      /\ spc' = spc /\ count' = count
  BY <1>1, <1>3 DEF CopyInv, SameFile, Counted, InTransit, Clean, DialogueInv, Heard, Meant,
     Settled, sndVars
<1>5. PICK a \in Nat : a = MAXSIZE * ri
  BY <1>0, WholeBlocks
<1>6. Len(dst) = a
  BY <1>4, <1>5 DEF Source
<1>7. PICK n \in Nat : n <= count /\ a < n /\ dst' = Source(n)
  <2>1. CASE RcvBlock /\ rpc' = "data"
    <3>1. ri' = ri + 1 /\ ri < Blocks
      BY <1>4, <2>1 DEF RcvBlock
    <3>2. MAXSIZE * ri' = a + MAXSIZE
      BY <1>0, <1>5, <3>1, WholeBlocks
    <3>3. dst' = Source(a + MAXSIZE)
      BY <1>1, <1>3, <1>4, <2>1, <3>2 DEF CopyInv, InTransit, Clean
    <3>4. a + MAXSIZE <= count
      BY <1>0, <1>5, <3>1, LastBlock
    <3> QED
      BY <1>0, <3>3, <3>4
  <2>2. CASE RcvTail /\ rpc' = "close"
    <3>1. num_last # 0 /\ ri = Blocks
      BY <1>4, <2>2 DEF RcvTail
    <3>2. dst' = Source(count)
      BY <1>1, <1>3, <1>4, <2>2 DEF CopyInv, Stored, Clean
    <3>3. Last \in 0..(MAXSIZE - 1) /\ count = a + Last /\ Last # 0
      BY <1>0, <1>4, <1>5, <3>1, LastBlock
    <3> QED
      BY <1>0, <3>2, <3>3
  <2> QED
    BY <2>1, <2>2
<1> QED
  BY <1>4, <1>6, <1>7

(* The receiver begins the copy, stores the next piece or gives it up, or  *)
(* does nothing to it.                                                     *)
LEMMA ReceiverCopies ==
    ASSUME CopyInv, CopyInv', RefusedInv, faults = {}, faults' = {}, Receiver
    PROVE  [Copy!Next]_(Copy!vars)
<1>1. UNCHANGED <<disk, sndVars>> /\ RcvUp
  BY DEF Receiver, RcvUp, RcvEnds, RcvLen, RcvNameOk, RcvInfo, RcvOpen, RcvSize,
     RcvBlks, RcvLast, RcvBlock, RcvTail, RcvNoTail, RcvClose
<1>2. disk' = disk /\ spc' = spc
  BY <1>1 DEF sndVars
<1>3. spc # "complete" /\ fp # "null" /\ fp' # "null"
  BY <1>1 DEF CopyInv, DialogueInv, Heard, Farewell, Faultless, RcvUp, RcvEnds
<1>4. CASE ~SndUp
  <2>1. rpc \in Early
    BY <1>1, <1>4 DEF CopyInv, Faultless
  <2>2. dst' = dst
    BY <2>1 DEF Early, Receiver, RcvLen, RcvNameOk, RcvInfo, RcvOpen, RcvSize, RcvBlks,
       RcvLast, RcvBlock, RcvTail, RcvNoTail, RcvClose, rcvData
  <2>3. Status = "failed" /\ Status' = "failed"
    BY <1>2, <1>3, <1>4 DEF SndUp, SndEnds, Status, Failed
  <2> QED
    BY <1>2, <2>2, <2>3, CopyView
<1>5. CASE SndUp /\ rpc' \in {"exited", "killed"}
  <2>1. dst' = dst
    BY <1>3, <1>5 DEF Receiver, RcvLen, RcvNameOk, RcvInfo, RcvOpen, RcvSize, RcvBlks,
       RcvLast, RcvBlock, RcvTail, RcvStores, RcvNoTail, RcvClose, rcvData
  <2>2. Status' = "failed"
    BY <1>2, <1>3, <1>5 DEF Status, Failed
  <2>3. Status \in {"idle", "copying", "failed"}
    BY <1>3 DEF Status
  <2>4. Copy!GiveUp \/ UNCHANGED Copy!vars
    BY <1>2, <2>1, <2>2, <2>3, CopyView
  <2> QED
    BY <2>4 DEF Copy!Next
<1>6. CASE SndUp /\ rpc' \notin {"exited", "killed"}
  <2>1. ~Failed /\ ~Failed'
    BY <1>1, <1>2, <1>6 DEF Failed, SndUp, SndEnds, RcvUp, RcvEnds
  <2>2. CASE RcvOpen
    <3>1. rpc = "open" /\ fp = "none" /\ fp' = "open" /\ dst' = <<>>
      BY <1>3, <2>2 DEF RcvOpen, CopyInv, DialogueInv, Receiving
    <3>2. disk # NoFile
      BY <3>1 DEF RefusedInv, Refused
    <3>3. Status = "idle" /\ Status' = "copying"
      BY <1>2, <1>3, <2>1, <3>1 DEF Status
    <3>4. Copy!Begin
      BY <1>2, <3>1, <3>2, <3>3, CopyView
    <3> QED
      BY <3>4 DEF Copy!Next
  <2>3. CASE (RcvBlock /\ rpc' = "data") \/ (RcvTail /\ rpc' = "close")
    <3>1. \E n \in (Len(dst) + 1)..disk : dst' = Source(n)
      BY <1>6, <2>3, ReceiverStores
    <3>2. fp = "open" /\ fp' = "open"
      BY <2>3 DEF RcvBlock, RcvTail, RcvStores
    <3>3. Status = "copying" /\ Status' = "copying"
      BY <1>2, <1>3, <2>1, <3>2 DEF Status
    <3>4. Copy!Store
      BY <1>2, <3>1, <3>3, CopyView
    <3> QED
      BY <3>4 DEF Copy!Next
  <2>4. CASE ~(RcvOpen \/ (RcvBlock /\ rpc' = "data") \/ (RcvTail /\ rpc' = "close"))
    <3>1. ~RcvBlock /\ ~RcvTail
      BY <1>3, <1>6, <2>4 DEF RcvBlock, RcvTail, RcvStores
    <3>2. dst' = dst /\ fp' = fp
      BY <2>4, <3>1 DEF Receiver, RcvLen, RcvNameOk, RcvInfo, RcvSize, RcvBlks,
         RcvLast, RcvNoTail, RcvClose, rcvData
    <3>3. Status' = Status
      BY <1>2, <2>1, <3>2 DEF Status
    <3> QED
      BY <1>2, <3>2, <3>3, CopyView
  <2> QED
    BY <2>2, <2>3, <2>4
<1> QED
  BY <1>4, <1>5, <1>6

(* Every step of a transfer is a step of the copy FileCopy promises, a     *)
(* disturbance of it, or nothing to it.                                    *)
LEMMA StepCopies ==
    ASSUME CopyInv, CopyInv', RefusedInv, [Next]_vars
    PROVE  [Copy!Next]_(Copy!vars)
<1>1. CASE faults # {}
  <2>1. faults' # {}
    BY <1>1, FaultsGrow
  <2> QED
    BY <1>1, <2>1 DEF Copy!vars
<1>2. CASE faults = {} /\ faults' # {}
  <2>1. Copy!Disturb
    BY <1>2 DEF Copy!Disturb
  <2> QED
    BY <2>1 DEF Copy!Next
<1>3. CASE faults = {} /\ faults' = {}
  <2>1. ~(CrashSnd \/ CrashRcv \/ Edit)
    BY <1>3 DEF CrashSnd, CrashRcv, Edit
  <2>2. CASE UNCHANGED vars
    <3>1. UNCHANGED <<spc, rpc, fp, dst, disk, faults>>
      BY <2>2 DEF vars, sndVars, rcvVars
    <3> QED
      BY <3>1 DEF Copy!vars, Failed
  <2> QED
    BY <1>3, <2>1, <2>2, SenderCopies, ReceiverCopies DEF Next, Terminating
<1> QED
  BY <1>1, <1>2, <1>3

LEMMA InitCopies == Init => Copy!Init
<1> SUFFICES ASSUME Init PROVE Copy!Init
  OBVIOUS
<1>1. /\ spc \in {"access", "rnum"} /\ rpc = "len" /\ fp = "none" /\ faults = {}
      /\ dst = OldCopy /\ disk \in FileSizes
  BY DEF Init, Enter
<1>2. ~Failed
  BY <1>1 DEF Failed
<1> QED
  BY <1>1, <1>2 DEF Copy!Init

(* Until a fault happens the transfer is the copy FileCopy promises: the   *)
(* old copy is left alone or becomes a growing prefix of the source, and   *)
(* complete is announced over the whole file only.                         *)
THEOREM CopyImplemented == Spec => ImplementsCopy
<1>1. Spec => []RefusedInv
  BY StaysRefused
<1> QED
  BY <1>1, InitCopies, StepCopies, CopyInvariant, PTL DEF Spec, ImplementsCopy, Copy!Spec
=============================================================================
