------------------------------ MODULE Transfer ------------------------------
(***************************************************************************)
(* The file transfer of asvn: one sender and one receiver over one TCP     *)
(* connection.                                                             *)
(*                                                                         *)
(* The sender is asvn_retr of the server, behind dostr or dofile, and,     *)
(* line for line, doftp of the client; the receiver is docftp (of the      *)
(* client, behind doingfile, and of the server).                           *)
(* Every read blocks, so a step is "one read returns, then everything up   *)
(* to the next read", except that counting the file, announcing its size,  *)
(* opening the local file and each block are steps of their own: another   *)
(* process can act between them.                                           *)
(*                                                                         *)
(* Control messages travel one at a time, so a message is one cell of the  *)
(* byte stream whatever its length; file data travels as MAXSIZE separate  *)
(* cells per block, because the code reads blocks with a single read that  *)
(* may return less.  Byte k of the source file is the number k, so the     *)
(* received file says where each of its bytes came from.                   *)
(***************************************************************************)
EXTENDS Integers, Sequences

CONSTANTS
    MAXSIZE,       \* bytes per block (512 in common.h)
    FileSizes,     \* possible lengths of the source file, NoFile included
    Entries,       \* the functions the sender may be entered through
    ShortReads,    \* may a read of a block return less than is available?
    Crashable,     \* which processes may be killed: "snd", "rcv"
    Edits,         \* lengths another process may give the source file,
                   \* NoFile if it may remove it
    OpenResults    \* what the receiver's fopen(fname, "w") may return

NoFile == -1

ASSUME ConstantsOK ==
    /\ MAXSIZE \in Nat \ {0}
    /\ FileSizes \subseteq Nat \cup {NoFile}
    /\ Entries \subseteq {"dostr", "dofile", "doftp"}
    /\ ShortReads \in BOOLEAN
    /\ Crashable \subseteq {"snd", "rcv"}
    /\ Edits \subseteq Nat \cup {NoFile}
    /\ OpenResults \subseteq {"open", "null"}

(***************************************************************************)
(* Cells of the stream.  Num is a decimal number as sprintf writes it, Txt *)
(* a word, Byte one byte of file data.  atoi of a word is 0 and strcmp of  *)
(* a number with a word is never 0.                                        *)
(***************************************************************************)
Num(n)  == [txt |-> "number", num |-> n]
Txt(s)  == [txt |-> s, num |-> 0]
Byte(k) == [txt |-> "byte", num |-> k]

Words == {"empty", "number", "byte", "name", "start", "size_ok", "num_blks_ok",
          "num_last_ok", "none", "file_recv", "EOF", "ERR"}
Cells == [txt : Words, num : Nat]

EOF == Txt("EOF")            \* read returned 0
ERR == Txt("ERR")            \* read returned -1

BADFILENAME   == 200
FILENAMEOK    == 400
STARTTRANSFER == 500
NameLen       == 8           \* strlen of the requested name, "sun.jpeg"

OldByte == -1                \* a byte of the receiver's previous local copy
Junk    == 0                 \* a byte that belongs to no file
OldCopy == <<OldByte>>

VARIABLES
    spc,        \* sender: what it does next, or how it ended
    rn,         \* sender: calls of rnum still to come
    count,      \* sender: fsize, the length counted with fgetc
    si,         \* sender: blocks sent
    temp,       \* sender: temp_buf, the block buffer
    disk,       \* length of the source file now (NoFile: it does not exist)
    rpc,        \* receiver: what it does next, or how it ended
    rbuf,       \* receiver: dataBuf as the control phase left it
    fp,         \* receiver: the local file, "none" before fopen
    fsize,      \* receiver: the announced size
    num_blks,   \* receiver: the announced number of blocks
    num_last,   \* receiver: the announced length of the last block
    ri,         \* receiver: blocks received
    blk,        \* receiver: dataBuf as the data phase left it
    dst,        \* contents of the receiver's local file
    said,       \* receiver: "all" once it has printed "All file recv"
    toRcv,      \* bytes in flight to the receiver
    toSnd,      \* bytes in flight to the sender
    conn,       \* "rst" once a segment has met a closed socket, else "ok"
    faults      \* history: the kinds of faults that have happened

sndVars  == <<spc, rn, count, si, temp>>
rcvVars  == <<rpc, rbuf, fp, fsize, num_blks, num_last, ri, blk, dst, said>>
rcvData  == <<fp, fsize, num_blks, num_last, ri, blk, dst, said>>
connVars == <<toRcv, toSnd, conn>>
vars     == <<sndVars, disk, rcvVars, connVars, faults>>

SndEnds == {"complete", "returned", "exited", "killed"}
RcvEnds == {"closed", "exited", "killed"}

SndUp == spc \notin SndEnds
RcvUp == rpc \notin RcvEnds

(* dostr calls rnum once more than the others; dofile has work to do       *)
(* before it could call asvn_retr.                                         *)
Enter(entry) ==
    /\ spc = IF entry = "dofile" THEN "access" ELSE "rnum"
    /\ rn = IF entry = "dostr" THEN 2 ELSE 1

Init ==
    /\ \E entry \in Entries : Enter(entry)
    /\ count = 0 /\ si = 0
    /\ temp = [j \in 1..MAXSIZE |-> Junk]
    /\ disk \in FileSizes
    /\ rpc = "len" /\ rbuf = Txt("empty") /\ fp = "none"
    /\ fsize = 0 /\ num_blks = 0 /\ num_last = 0 /\ ri = 0
    /\ blk = [j \in 1..MAXSIZE |-> Junk]
    /\ dst = OldCopy /\ said = "nothing"
    /\ toRcv = <<>> /\ toSnd = <<>> /\ conn = "ok"
    /\ faults = {}

-----------------------------------------------------------------------------
(***************************************************************************)
(* The connection, as the kernel provides it.  A read takes what has       *)
(* arrived; with nothing there it blocks while the peer has its socket     *)
(* open and returns 0 once the peer is gone.  After a reset it may fail.   *)
(***************************************************************************)
Arrived(q, peerUp) ==
    (IF q # <<>> THEN {Head(q)} ELSE IF peerUp THEN {} ELSE {EOF})
      \cup (IF conn = "rst" THEN {ERR} ELSE {})

Rest(q, got) == IF got \in {EOF, ERR} THEN q ELSE Tail(q)

(* Closing a socket with data unread resets the connection.                *)
Reset(unread) == IF unread # <<>> THEN "rst" ELSE conn

(* A write to a closed peer is accepted and provokes a reset; once the     *)
(* reset is on its way a write may kill the writer with SIGPIPE (nothing   *)
(* handles it) or return -1, after which the writer goes on at "lost".     *)
SndWrites(cells, next, lost) ==
    \/ /\ RcvUp
       /\ toRcv' = toRcv \o cells /\ spc' = next /\ UNCHANGED conn
    \/ /\ ~RcvUp
       /\ spc' \in {next} \cup (IF conn = "rst" THEN {"killed", lost} ELSE {})
       /\ conn' = "rst" /\ UNCHANGED toRcv

RcvWrites(cell, next) ==
    \/ /\ SndUp
       /\ toSnd' = Append(toSnd, cell) /\ rpc' = next /\ UNCHANGED conn
    \/ /\ ~SndUp
       /\ rpc' \in {next} \cup (IF conn = "rst" THEN {"killed"} ELSE {})
       /\ conn' = "rst" /\ UNCHANGED toSnd

-----------------------------------------------------------------------------
(***************************************************************************)
(* The sender.  dataBuf is overwritten by sprintf before each read, so     *)
(* after a read that returned nothing it never equals the awaited word and *)
(* the sender needs no copy of it.                                         *)
(***************************************************************************)

(* dofile: the directory and the path of the file are the same buffer, so  *)
(* behind a successful access comes a chdir into the file, whose failure   *)
(* ends the process; without the file dofile returns.  Neither says a word.*)
SndAccess ==
    /\ spc = "access"
    /\ spc' = IF disk = NoFile THEN "returned" ELSE "exited"
    /\ conn' = Reset(toSnd)
    /\ UNCHANGED <<rn, count, si, temp, disk, rcvVars, toRcv, toSnd, faults>>

SndRnumOnce ==                 \* mutant: rnum is called once by every entry
    /\ spc = "rnum"
    /\ \E got \in Arrived(toSnd, RcvUp) :
         /\ toSnd' = Rest(toSnd, got) /\ got # ERR /\ rn' = 0
         /\ SndWrites(<<Num(FILENAMEOK)>>, "name", "name")
    /\ UNCHANGED <<count, si, temp, disk, rcvVars, faults>>

(* rnum: whatever arrives is answered with FILENAMEOK.                     *)
SndRnum ==
    /\ spc = "rnum"
    /\ \E got \in Arrived(toSnd, RcvUp) :
         /\ toSnd' = Rest(toSnd, got)
         /\ \/ got = ERR /\ spc' = "exited" /\ UNCHANGED <<rn, toRcv, conn>>
            \/ /\ got # ERR /\ rn' = rn - 1
               /\ LET next == IF rn = 1 THEN "name" ELSE "rnum"
                  IN  SndWrites(<<Num(FILENAMEOK)>>, next, next)
    /\ UNCHANGED <<count, si, temp, disk, rcvVars, faults>>

SndNameUnchecked ==            \* mutant: the result of fopen is not looked at
    /\ spc = "name"
    /\ \E got \in Arrived(toSnd, RcvUp) :
         /\ toSnd' = Rest(toSnd, got)
         /\ SndWrites(<<Num(STARTTRANSFER)>>, "start", "exited")
    /\ UNCHANGED <<rn, count, si, temp, disk, rcvVars, faults>>

(* Read the name and open the file; a file that cannot be opened ends the  *)
(* process at once.  After a failed read the file pointer stays unset.     *)
SndName ==
    /\ spc = "name"
    /\ \E got \in Arrived(toSnd, RcvUp) :
         /\ toSnd' = Rest(toSnd, got)
         /\ \/ got = ERR /\ SndWrites(<<Num(BADFILENAME)>>, "nofp", "exited")
            \/ /\ got = Txt("name") /\ disk # NoFile
               /\ SndWrites(<<Num(STARTTRANSFER)>>, "start", "exited")
            \/ /\ got # ERR /\ ~(got = Txt("name") /\ disk # NoFile)
               /\ spc' = "exited" /\ UNCHANGED <<toRcv, conn>>
    /\ UNCHANGED <<rn, count, si, temp, disk, rcvVars, faults>>

(* Any answer, or none, starts the count; fgetc through the file pointer   *)
(* that was never set ends the process.                                    *)
SndStart ==
    /\ spc \in {"start", "nofp"}
    /\ \E got \in Arrived(toSnd, RcvUp) : toSnd' = Rest(toSnd, got)
    /\ \/ spc = "start" /\ spc' = "size" /\ count' = disk
       \/ spc = "nofp" /\ spc' = "killed" /\ UNCHANGED count
    /\ UNCHANGED <<rn, si, temp, disk, rcvVars, toRcv, conn, faults>>

(* Reopen the file and announce the counted size.                          *)
SndSize ==
    /\ spc = "size"
    /\ SndWrites(<<Num(count)>>, "size_ok", "size_ok")
    /\ UNCHANGED <<rn, count, si, temp, disk, rcvVars, toSnd, faults>>

(* The next three reads each await one word and otherwise leave asvn_retr. *)
SndAwaits(word, cells, next) ==
    /\ \E got \in Arrived(toSnd, RcvUp) :
         /\ toSnd' = Rest(toSnd, got)
         /\ \/ got = Txt(word) /\ SndWrites(cells, next, next)
            \/ got # Txt(word) /\ spc' = "returned" /\ UNCHANGED <<toRcv, conn>>
    /\ UNCHANGED <<rn, count, si, temp, disk, rcvVars, faults>>

SndSizeOkRoundsUp ==           \* mutant: the last block is counted in num_blks
    /\ spc = "size_ok"
    /\ SndAwaits("size_ok", <<Num((count + MAXSIZE - 1) \div MAXSIZE)>>, "blks_ok")

SndSizeOk ==
    /\ spc = "size_ok"
    /\ SndAwaits("size_ok", <<Num(count \div MAXSIZE)>>, "blks_ok")

SndBlksOkHasty ==              \* mutant: num_last_ok is not awaited
    /\ spc = "blks_ok"
    /\ SndAwaits("num_blks_ok", <<Num(count % MAXSIZE)>>, "blocks")

SndBlksOk ==
    /\ spc = "blks_ok"
    /\ SndAwaits("num_blks_ok", <<Num(count % MAXSIZE)>>, "last_ok")

SndLastOk ==
    /\ spc = "last_ok"
    /\ \E got \in Arrived(toSnd, RcvUp) :
         /\ toSnd' = Rest(toSnd, got)
         /\ spc' = IF got = Txt("num_last_ok") THEN "blocks" ELSE "returned"
    /\ UNCHANGED <<rn, count, si, temp, disk, rcvVars, toRcv, conn, faults>>

FreadOffByOne(k) ==            \* mutant: each read starts one byte too far
    [j \in 1..MAXSIZE |-> IF j <= k /\ MAXSIZE * si + j <= disk
                          THEN MAXSIZE * si + j + 1 ELSE temp[j]]

(* fread of k bytes at the current position: what the file still has goes  *)
(* to the front of temp_buf, the rest of temp_buf keeps what it held.  If  *)
(* the reopen found no file, fread through a null pointer kills.           *)
Fread(k) ==
    [j \in 1..MAXSIZE |-> IF j <= k /\ MAXSIZE * si + j <= disk
                          THEN MAXSIZE * si + j ELSE temp[j]]

SndBlock ==
    /\ spc = "blocks" /\ si < count \div MAXSIZE /\ disk # NoFile
    /\ temp' = Fread(MAXSIZE)
    /\ SndWrites([j \in 1..MAXSIZE |-> Byte(temp'[j])], "blocks", "blocks")
    /\ si' = si + 1
    /\ UNCHANGED <<rn, count, disk, rcvVars, toSnd, faults>>

SndLast ==
    /\ spc = "blocks" /\ si = count \div MAXSIZE
    /\ \/ /\ count % MAXSIZE # 0 /\ disk # NoFile
          /\ temp' = Fread(count % MAXSIZE)
          /\ SndWrites([j \in 1..count % MAXSIZE |-> Byte(temp'[j])],
                       "confirm", "exited")
       \/ /\ count % MAXSIZE = 0
          /\ spc' = "returned" /\ UNCHANGED <<temp, toRcv, conn>>
    /\ UNCHANGED <<rn, count, si, disk, rcvVars, toSnd, faults>>

SndNoFread ==
    /\ spc = "blocks" /\ disk = NoFile
    /\ si < count \div MAXSIZE \/ count % MAXSIZE # 0
    /\ spc' = "killed" /\ conn' = Reset(toSnd)
    /\ UNCHANGED <<rn, count, si, temp, disk, rcvVars, toRcv, toSnd, faults>>

SndConfirmRetries ==           \* mutant: any other answer is read over
    /\ spc = "confirm"
    /\ \E got \in Arrived(toSnd, RcvUp) :
         /\ toSnd' = Rest(toSnd, got)
         /\ spc' = IF got = Txt("file_recv") THEN "complete" ELSE "confirm"
    /\ UNCHANGED <<rn, count, si, temp, disk, rcvVars, toRcv, conn, faults>>

(* "file_recv" ends the process with "file send complate!!".               *)
SndConfirm ==
    /\ spc = "confirm"
    /\ \E got \in Arrived(toSnd, RcvUp) :
         /\ toSnd' = Rest(toSnd, got)
         /\ spc' = IF got = Txt("file_recv") THEN "complete"
                   ELSE IF got = ERR THEN "exited" ELSE "returned"
    /\ UNCHANGED <<rn, count, si, temp, disk, rcvVars, toRcv, conn, faults>>

Sender ==
    \/ SndAccess \/ SndRnum \/ SndName \/ SndStart \/ SndSize \/ SndSizeOk \/ SndBlksOk
    \/ SndLastOk \/ SndBlock \/ SndLast \/ SndNoFread \/ SndConfirm

-----------------------------------------------------------------------------
(***************************************************************************)
(* The receiver.  Every read goes into the one dataBuf, and what a read    *)
(* returned is mostly not looked at: after an end of file dataBuf still    *)
(* holds the message before, and the code goes on with that.               *)
(***************************************************************************)
Kept(got) == IF got \in {EOF, ERR} THEN rbuf ELSE got

RcvVerdictSilent(msg) ==       \* mutant: "start" is not sent
    \/ /\ msg.num = STARTTRANSFER
       /\ rbuf' = Txt("start") /\ rpc' = "open" /\ UNCHANGED <<toSnd, conn>>
    \/ /\ msg.num # STARTTRANSFER
       /\ rbuf' = msg /\ rpc' = "exited" /\ UNCHANGED <<toSnd, conn>>

(* Anything but STARTTRANSFER is a refusal and ends the process.            *)
RcvVerdict(msg) ==
    \/ /\ msg.num = STARTTRANSFER
       /\ rbuf' = Txt("start") /\ RcvWrites(Txt("start"), "open")
    \/ /\ msg.num # STARTTRANSFER
       /\ rbuf' = msg /\ rpc' = "exited" /\ UNCHANGED <<toSnd, conn>>

RcvLen ==
    /\ rpc = "len"
    /\ rbuf' = Num(NameLen)
    /\ RcvWrites(Num(NameLen), "nameok")
    /\ UNCHANGED <<sndVars, disk, rcvData, toRcv, faults>>

(* The answer FILENAMEOK is followed by the name and the read of the       *)
(* sender's verdict; any other is taken for the verdict itself.            *)
RcvNameOk ==
    /\ rpc = "nameok"
    /\ \E got \in Arrived(toRcv, SndUp) :
         /\ toRcv' = Rest(toRcv, got)
         /\ \/ /\ Kept(got) = Num(FILENAMEOK)
               /\ rbuf' = Kept(got)
               /\ RcvWrites(Txt("name"), "info")
            \/ /\ Kept(got) # Num(FILENAMEOK)
               /\ RcvVerdict(Kept(got))
    /\ UNCHANGED <<sndVars, disk, rcvData, faults>>

RcvInfo ==
    /\ rpc = "info"
    /\ \E got \in Arrived(toRcv, SndUp) :
         /\ toRcv' = Rest(toRcv, got)
         /\ RcvVerdict(Kept(got))
    /\ UNCHANGED <<sndVars, disk, rcvData, faults>>

(* fopen(fname, "w") empties the local copy; if it fails the code prints   *)
(* an error and goes on with a null file pointer.                          *)
RcvOpen ==
    /\ rpc = "open" /\ rpc' = "size"
    /\ fp' \in OpenResults
    /\ \/ fp' = "open" /\ dst' = <<>> /\ UNCHANGED faults
       \/ fp' = "null" /\ faults' = faults \cup {"noopen"} /\ UNCHANGED dst
    /\ UNCHANGED <<sndVars, disk, rbuf, fsize, num_blks, num_last, ri, blk,
                   said, connVars>>

(* A size, and then a number of blocks, that is not 0 is acknowledged; 0   *)
(* skips the rest of the dialogue.                                         *)
RcvSize ==
    /\ rpc = "size"
    /\ \E got \in Arrived(toRcv, SndUp) :
         /\ toRcv' = Rest(toRcv, got)
         /\ rbuf' = Kept(got) /\ fsize' = Kept(got).num
    /\ \/ fsize' # 0 /\ RcvWrites(Txt("size_ok"), "blks")
       \/ fsize' = 0 /\ rpc' = "close" /\ UNCHANGED <<toSnd, conn>>
    /\ UNCHANGED <<sndVars, disk, fp, num_blks, num_last, ri, blk, dst,
                   said, faults>>

RcvBlks ==
    /\ rpc = "blks"
    /\ \E got \in Arrived(toRcv, SndUp) :
         /\ toRcv' = Rest(toRcv, got)
         /\ rbuf' = Kept(got)
         /\ \/ /\ got = ERR
               /\ rpc' = "exited" /\ UNCHANGED <<num_blks, toSnd, conn>>
            \/ /\ got # ERR /\ num_blks' = rbuf'.num
               /\ \/ num_blks' # 0 /\ RcvWrites(Txt("num_blks_ok"), "last")
                  \/ num_blks' = 0 /\ rpc' = "close" /\ UNCHANGED <<toSnd, conn>>
    /\ UNCHANGED <<sndVars, disk, fp, fsize, num_last, ri, blk, dst, said, faults>>

(* The length of the last block is acknowledged if it is the word "none"   *)
(* or a number that is not 0; the loop over the blocks follows either way. *)
RcvLast ==
    /\ rpc = "last"
    /\ \E got \in Arrived(toRcv, SndUp) :
         /\ toRcv' = Rest(toRcv, got)
         /\ rbuf' = Kept(got)
         /\ num_last' = IF got = ERR THEN num_last ELSE rbuf'.num
         /\ \/ got = ERR /\ rpc' = "exited" /\ UNCHANGED <<toSnd, conn>>
            \/ /\ got # ERR /\ (rbuf' = Txt("none") \/ num_last' # 0)
               /\ RcvWrites(Txt("num_last_ok"), "data")
            \/ /\ got # ERR /\ ~(rbuf' = Txt("none") \/ num_last' # 0)
               /\ rpc' = "data" /\ UNCHANGED <<toSnd, conn>>
    /\ UNCHANGED <<sndVars, disk, fp, fsize, num_blks, ri, blk, dst, said, faults>>

(* How many bytes a read of at most k returns: none once the sender is     *)
(* gone, and with ShortReads any number of those that have arrived.        *)
Smaller(a, b) == IF a < b THEN a ELSE b
Delivered(k) ==
    IF toRcv = <<>> THEN (IF SndUp THEN {} ELSE {0})
    ELSE LET most == Smaller(k, Len(toRcv))
         IN  IF ShortReads THEN 1..most ELSE {most}

(* read(dataBuf, k) returning n bytes, then fwrite of k bytes of dataBuf:  *)
(* behind the n new bytes come those of the block before, and behind       *)
(* dataBuf whatever lies there.                                            *)
RcvStores(k, n, next) ==
    /\ toRcv' = SubSeq(toRcv, n + 1, Len(toRcv))
    /\ blk' = [j \in 1..MAXSIZE |-> IF j <= n THEN toRcv[j].num ELSE blk[j]]
    /\ faults' = IF n \in 1..(k - 1) THEN faults \cup {"short"} ELSE faults
    /\ \/ /\ fp = "open" /\ rpc' = next
          /\ dst' = dst \o [j \in 1..k |-> IF j <= MAXSIZE THEN blk'[j] ELSE Junk]
          /\ UNCHANGED conn
       \/ /\ fp = "null" /\ rpc' = "killed"
          /\ conn' = Reset(toRcv')
          /\ UNCHANGED dst

RcvBlock ==
    /\ rpc = "data" /\ ri < num_blks
    /\ \/ /\ \E n \in Delivered(MAXSIZE) : RcvStores(MAXSIZE, n, "data")
          /\ ri' = ri + 1
       \/ /\ conn = "rst" /\ rpc' = "exited"
          /\ UNCHANGED <<ri, blk, dst, toRcv, conn, faults>>
    /\ UNCHANGED <<sndVars, disk, rbuf, fp, fsize, num_blks, num_last, said, toSnd>>

RcvTail ==
    /\ rpc = "data" /\ ri = num_blks /\ num_last # 0
    /\ \E n \in Delivered(num_last) \cup (IF conn = "rst" THEN {0} ELSE {}) :
         RcvStores(num_last, n, "close")
    /\ said' = IF rpc' = "close" /\ fsize = MAXSIZE * ri + num_last
               THEN "all" ELSE said
    /\ UNCHANGED <<sndVars, disk, rbuf, fp, fsize, num_blks, num_last, ri, toSnd>>

RcvNoTail ==
    /\ rpc = "data" /\ ri = num_blks /\ num_last = 0 /\ rpc' = "close"
    /\ UNCHANGED <<sndVars, disk, rbuf, rcvData, connVars, faults>>

(* fclose, "file_recv" whatever happened, close.  Closing with data unread *)
(* resets the connection; fclose of a null pointer kills.                  *)
RcvClose ==
    /\ rpc = "close"
    /\ \/ /\ fp = "open" /\ SndUp
          /\ toSnd' = Append(toSnd, Txt("file_recv")) /\ rpc' = "closed"
          /\ conn' = Reset(toRcv)
       \/ /\ fp = "open" /\ ~SndUp /\ RcvWrites(Txt("file_recv"), "closed")
       \/ /\ fp = "null" /\ rpc' = "killed"
          /\ conn' = Reset(toRcv) /\ UNCHANGED toSnd
    /\ UNCHANGED <<sndVars, disk, rbuf, rcvData, toRcv, faults>>

Receiver ==
    \/ RcvLen \/ RcvNameOk \/ RcvInfo \/ RcvOpen \/ RcvSize \/ RcvBlks
    \/ RcvLast \/ RcvBlock \/ RcvTail \/ RcvNoTail \/ RcvClose

-----------------------------------------------------------------------------
(***************************************************************************)
(* The environment: a process is killed, or another program rewrites or    *)
(* removes the source file.  A killed receiver loses what stdio had not    *)
(* yet written; a process killed with data unread resets the connection.   *)
(* There is one rewrite or removal; a rewrite comes before the first block *)
(* is read (from then on stdio has read ahead), a removal when the sender  *)
(* has yet to open or to reopen the file (later, the open file stays).     *)
(***************************************************************************)
CrashSnd ==
    /\ "snd" \in Crashable /\ SndUp
    /\ spc' = "killed" /\ conn' = Reset(toSnd)
    /\ faults' = faults \cup {"crash"}
    /\ UNCHANGED <<rn, count, si, temp, disk, rcvVars, toRcv, toSnd>>

CrashRcv ==
    /\ "rcv" \in Crashable /\ RcvUp
    /\ rpc' = "killed" /\ conn' = Reset(toRcv)
    /\ \/ UNCHANGED dst
       \/ fp = "open" /\ \E n \in 0..Len(dst) : dst' = SubSeq(dst, 1, n)
    /\ faults' = faults \cup {"crash"}
    /\ UNCHANGED <<sndVars, disk, rbuf, fp, fsize, num_blks, num_last, ri, blk,
                   said, toRcv, toSnd>>

Edit ==
    /\ disk # NoFile /\ si = 0 /\ "edit" \notin faults
    /\ disk' \in Edits /\ faults' = faults \cup {"edit"}
    /\ disk' = NoFile => spc \in {"access", "rnum", "name", "size"}
    /\ UNCHANGED <<sndVars, rcvVars, connVars>>

(* Both processes have ended: not a deadlock.                              *)
Terminating == ~SndUp /\ ~RcvUp /\ UNCHANGED vars

Next == Sender \/ Receiver \/ CrashSnd \/ CrashRcv \/ Edit \/ Terminating

Spec == Init /\ [][Next]_vars

(* Each process runs on while the kernel lets it: its read has returned.   *)
FairSpec == Spec /\ WF_vars(Sender) /\ WF_vars(Receiver)

-----------------------------------------------------------------------------
SndStates == {"access", "rnum", "name", "nofp", "start", "size", "size_ok", "blks_ok",
              "last_ok", "blocks", "confirm"} \cup SndEnds
RcvStates == {"len", "nameok", "info", "open", "size", "blks", "last", "data",
              "close"} \cup RcvEnds

(* Every variable has its type.                                            *)
TypeOK ==
    /\ spc \in SndStates
    /\ rn \in 0..2 /\ count \in Nat /\ si \in Nat
    /\ temp \in [1..MAXSIZE -> Nat]
    /\ disk \in Nat \cup {NoFile}
    /\ rpc \in RcvStates
    /\ rbuf \in Cells /\ fp \in {"none", "open", "null"}
    /\ fsize \in Nat /\ num_blks \in Nat /\ num_last \in Nat /\ ri \in Nat
    /\ blk \in [1..MAXSIZE -> Nat]
    /\ dst \in Seq(Nat \cup {OldByte}) /\ said \in {"nothing", "all"}
    /\ toRcv \in Seq(Cells) /\ toSnd \in Seq(Cells)
    /\ conn \in {"ok", "rst"}
    /\ faults \subseteq {"crash", "short", "edit", "noopen"}

(* The file as the sender counted it.                                      *)
Source(n) == [k \in 1..n |-> k]

(* No file data is ever read where the receiver expects a control message, *)
(* and no control message is ever stored as file data, whatever crashes,   *)
(* short reads or stale buffers came before; the messages to the sender    *)
(* never pile up.                                                          *)
Framing ==
    /\ Len(toSnd) <= 1
    /\ rpc \in {"nameok", "info", "open", "size", "blks", "last"} =>
         /\ Len(toRcv) <= 1
         /\ toRcv # <<>> => toRcv[1].txt # "byte"
    /\ rpc = "data" => \A k \in 1..Len(toRcv) : toRcv[k].txt = "byte"

(* The two blocking dialogues wait for each other only over a file whose   *)
(* length is a positive multiple of MAXSIZE: its last block has length 0,  *)
(* which the receiver does not acknowledge.                                *)
SndWaits ==
    /\ SndUp /\ spc \notin {"access", "size", "blocks"}
    /\ Arrived(toSnd, RcvUp) = {}
RcvWaits ==
    /\ RcvUp /\ rpc \notin {"len", "open", "close"}
    /\ rpc = "data" => ri < num_blks \/ num_last # 0
    /\ Arrived(toRcv, SndUp) = {}
NoMutualWait ==
    SndWaits /\ RcvWaits => count > 0 /\ count % MAXSIZE = 0

(* When the first block leaves the sender, both sides have the same idea   *)
(* of what follows: no crash, late answer or stale buffer makes them talk  *)
(* about files of different sizes.                                         *)
Agreement ==
    spc \in {"blocks", "confirm", "complete"} =>
      /\ fsize = count
      /\ num_blks = count \div MAXSIZE /\ num_last = count % MAXSIZE
      /\ num_blks # 0 /\ num_last # 0

(* "file send complate!!" on the sender's side means that the receiver has *)
(* closed a local copy as long as the file was counted, and, unless a read *)
(* was short or the file was rewritten, holding exactly its bytes.         *)
CompleteMeansCopied ==
    spc = "complete" =>
      /\ rpc = "closed" /\ Len(dst) = count
      /\ faults \cap {"short", "edit"} = {} => dst = Source(count)

(* "All file recv" on the receiver's side means, when nothing went wrong,  *)
(* that the local copy has exactly the bytes of the source.                *)
AllRecvMeansCopied ==
    said = "all" /\ faults = {} => dst = Source(count)

(* Asking for a file the sender never had leaves the receiver's own copy   *)
(* untouched, whatever crashes and lost answers there are: fopen(..., "w") *)
(* comes only after the sender's verdict, never after a stale buffer.      *)
KeepsOldCopy ==
    disk = NoFile /\ "edit" \notin faults => dst = OldCopy

(* A sender entered through dostr, as every request to the server's main   *)
(* is, serves nobody: its second rnum takes the file name for the number,  *)
(* and no crash, reset, stale buffer or rewrite of the file ever lets the  *)
(* client open its local copy or the sender announce a complete transfer.  *)
DostrServesNobody ==
    spc = "rnum" /\ rn = 2 =>
      [](fp = "none" /\ dst = OldCopy /\ spc # "complete")

(* Until a fault happens the transfer is the copy FileCopy promises.       *)
Failed == rpc \in {"exited", "killed"} \/ spc \in {"returned", "exited", "killed"}
Copy == INSTANCE FileCopy WITH
            Sizes  <- FileSizes,
            size   <- IF faults = {} THEN disk ELSE NoFile,
            target <- IF faults = {} THEN dst ELSE <<>>,
            status <- IF faults # {} THEN "disturbed"
                      ELSE IF spc = "complete" THEN "complete"
                      ELSE IF Failed THEN "failed"
                      ELSE IF fp = "open" THEN "copying" ELSE "idle"
ImplementsCopy == Copy!Spec

(* When one end is gone the other one ends too: no process survives its    *)
(* peer, waiting.                                                          *)
PeerFollows ==
    /\ ~SndUp ~> ~RcvUp
    /\ ~RcvUp ~> ~SndUp

(* Every transfer ends on both sides, or the two come to wait for each     *)
(* other over a file that had whole blocks when the sender counted it,     *)
(* whatever length it had when the transfer began.                         *)
TransferEnds ==
    <>( \/ ~SndUp /\ ~RcvUp
        \/ SndWaits /\ RcvWaits /\ count > 0 /\ count % MAXSIZE = 0 )

(* A sender that calls rnum once, as asvn_retr and doftp do, delivers and   *)
(* confirms every file of at least one block and a rest, unless a fault    *)
(* intervenes.                                                             *)
DeliversWell ==
    spc = "rnum" /\ rn = 1 /\ disk > MAXSIZE /\ disk % MAXSIZE # 0 =>
      <>(faults # {} \/ (spc = "complete" /\ dst = Source(disk)))

(* What the messages of the program claim of every transfer.               *)
(* "file_recv": the receiver got the file (handles.c:419, 422).            *)
ClosedMeansCopied ==
    rpc = "closed" /\ faults = {} => dst = Source(count)

(* "All file recv" whatever the connection does (handles.c:417).           *)
AllRecvMeansReceived ==
    said = "all" => dst = Source(count)

(* Every transfer ends on both sides.                                      *)
EveryTransferEnds ==
    <>(~SndUp /\ ~RcvUp)

(* dofile goes on to the "real work" (handles.c:317) if the file exists.   *)
DofileServes ==
    spc = "access" /\ disk # NoFile => <>(spc = "rnum")
=============================================================================
