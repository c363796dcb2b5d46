# Verification of asvn

asvn is a small version-control student project in C: local commands that keep
a log of a directory (`CREAT`, `MKDIR`, `DELETE`, `LOG`, `PWD`, `QUIT`), a file
transfer over TCP (`UP`), a server, and an installer (`ainit`).  This directory
holds TLA+ modules translated from that code, TLC configurations that check them
on small instances, and TLAPS proofs.  Paths below are relative to the repository;
`client/` stands for `asvn_client/.asubversion/`, `server/` for
`asvn_server/.asubversion/`.

Contents: 1 inventory, 2 modules, 3 runs, 4 bounds and fairness, 5 proofs,
6 what the checks found, 7 what is not modelled, 8 plan.

## 1. Inventory

| part | code | state | operations | interacts with |
|---|---|---|---|---|
| file sender | `asvn_retr` (server/asvn.c:15-162), `doftp` (client/handles.c:453-601), `rnum`; entered through `dostr` and `dofile` | `dataBuf`, `temp_buf`, `fp`, `fsize`, `num_blks`, `num_last_blk` | read name, count and reopen the file, announce size / blocks / last block, send, await `file_recv` | receiver, over a socket; the source file |
| file receiver | `docftp` (client/handles.c:266-424, server/handles.c:107-265), called by `doingfile` | `dataBuf`, `fp`, `fsize`, `num_blks`, `num_last_blk`, the local copy | send length and name, acknowledge, store blocks, `file_recv` | sender |
| server process | `main` (server/asvn.c:164-194), `dostr`, `create_socket` (never called) | `sockid` (never set), children | accept, fork, serve | clients; the process table |
| client session | `asvn_update` (client/asvn.c:112-120), `sock`, `rnum` | the local port 6089 | bind, connect, run the sender | server |
| local commands and log | client/asvn.c:3-110, `write_log`, `logfile`, `creat_log` | `HOME/asvn/repos`, `.asvn/log`, directories | CREAT, MKDIR, DELETE, LOG, PWD | one another, through the file system |
| installer | `ainit.c` | `repos`, `.asubversion`, `conf/authz`, `conf/passwd` | five calls | local commands (registry) |
| command line | `main`, `parse_command`, `lookup_cmd`, `lookup`, `response` (client) | `Command` | parse, dispatch | all commands |
| directory scan | `pre/testfunction/dirlist.c` | one shared `Path`, each thread's `filename` and open directory, the list `.asvn/info/struct` | read an entry, stat, record, start and join a thread | other programs that change the tree |
| helpers | `readn`, `writen`, `rstr`, `wstr`, `wnum` | - | never called | - |
| prototypes | the rest of `pre/` | - | an unfinished first draft | - |

What is hard here, and what makes each part correct:

- *Transfer*.  Two blocking processes, one buffer that is used again after a read
  that returned nothing, reads of data that may be short, and a peer that may be
  gone at any point.  Correct: the two sides never confuse control messages and
  data, agree on what is sent before the first block, announce completion only
  over a complete copy, leave the old copy alone when refused, and end when the
  peer ends.
- *Server and session*.  Several clients share one port; conversations are started
  by a process that may die at any point.  Correct: conversations do not mix, a
  process never outlives its peer, and the port comes back.
- *Log*.  Several processes change directories and the log in separate system
  calls, and may die between them.  Correct: every line is true, every change is
  recorded, and the log never loses a line or its header.
- *Command line*.  A line may lack words.  Correct: what is done and logged is what was
  typed, comment included.
- *Directory scan*.  A thread per directory, all of them building paths in one shared
  buffer, over a tree that other programs change and whose links may go round; calls
  fail and threads run out.  Correct: the threads take turns, a path is the one of the
  thread that uses it, the list has every file, nothing else, and none twice that
  was not put back under the scan, and the scan ends.
- *Installer*.  Five calls, not repeatable.  Correct: it completes at most once and
  then everything is there.

`PROJECT.json` lists every hazard at its line, with the properties that cover it or why
none does.

## 2. Modules

| module | models | composition |
|---|---|---|
| `Transfer` | one sender, one receiver, the connection, and the faults around them | implements `FileCopy` |
| `FileCopy` | what a transfer promises: untouched, or a growing prefix; "complete" only over the whole file | instantiated by `Transfer` |
| `MCTransfer` | instances for TLC | extends `Transfer` |
| `TransferProofs` | theorems: types, the old copy | extends `Transfer`, `TLAPS` |
| `TransferDialogueProofs` | theorems: framing, agreement, who waits for whom | extends `TransferProofs` |
| `TransferCopyProofs` | theorems: what is copied, the refinement of `FileCopy` | extends `TransferDialogueProofs` |
| `Session` | clients running `UP`, the port, the server's loop and children, the first reads of both senders | the dialogue continues in `Transfer` |
| `MCSession`, `SessionProofs` | instances, theorems | extend `Session` |
| `CommandLine` | what `main`, `parse_command` and `lookup_cmd` make of a line (operators) | |
| `Repository` | terminals where lines are typed; `ainit`, `CREAT`, `MKDIR`, `DELETE` as processes on one file system | extends `CommandLine` |
| `MCRepository` | instances | extends `Repository` |
| `RepositoryProofs` | theorems: types, what a log says and keeps | extends `Repository`, `TLAPS` |
| `RepositoryOnceProofs` | theorems: what happens at most, or exactly, once | extends `RepositoryProofs` |
| `ScanDir` | the threaded directory scan and the programs that change the tree | implements `SequentialScan` |
| `SequentialScan` | what the threads amount to: one program with a list of paths to do, from which each is taken once, or again when it was put back | instantiated by `ScanDir` |
| `MCScanDir` | instance | extends `ScanDir` |
| `ScanDirProofs` | theorems: types, turns, the shared path | extends `ScanDir`, `TLAPS` |
| `ScanDirListProofs` | theorems: what the list is worth, when a scan is given up | extends `ScanDirProofs` |

**Transfer.**  `spc` and `rpc` are the program counters of sender and receiver; each
action is "one read returns, then everything up to the next read", except that
counting the file (`SndStart`), announcing it (`SndSize`), opening the copy
(`RcvOpen`) and each block (`SndBlock`, `RcvBlock`) are steps of their own, since
other processes can act in between.  `rbuf` is `dataBuf` in the receiver's control
phase: a read that returns 0 or -1 leaves it as it was (`Kept`), which is how the
code comes to act on the same message twice.  `blk` is `dataBuf` in the data phase;
`RcvStores` writes a whole block whatever the read returned.  `temp` is the sender's
`temp_buf`.  Control messages are one cell of the stream each (in the code the two sides
take strict turns, so that no two of them are ever on their way together, and the sender
pads its own to 512 bytes, but for the answer of `rnum`, which has the length of its text);
file data is one cell per byte.  The k-th byte of the source is the number k, so the
copy shows where its bytes came from.  `Entries` names the functions the sender may be
entered through: `doftp` (and `asvn_retr` by itself) call `rnum` once before the name is
read, `dostr`, the only way the server's `main` takes, twice; `dofile` looks for the file
first (`SndAccess`) and then either returns or, because its two paths are one buffer,
fails to change the directory and exits.  The source file may be rewritten or removed
by another program (`Edit`): removed before `fopen`, the sender exits; removed between the
count and the reopening, whose result nobody looks at, `fread` kills it (`SndNoFread`).

The connection gives a reader what has arrived, blocks it while the peer has its
socket open, and gives it an end of file (or, after a reset, an error) when the peer
is gone; writes to a closed peer are accepted, provoke a reset, and after that may
raise SIGPIPE, which nothing handles.

**Session.**  One action per call that others can see: `Bind`, `Connect`, `Accept` (with
its fork), `ClientRnum`, `ChildRnum`, the read of the name, and kills.  The server's
`sockid` is uninitialised in the code, so what it names is chosen at the start: no
socket, or a listening socket the process has inherited.  With a sender at each end
the name that is read can only be empty or `400`; both sides leave when `fopen`
fails, so nothing behind that is needed.

**Repository.**  A process per terminal (`pc`, `job`, `fd`), one action per system call
other processes can see.  The path data is reduced to the paths that matter: `.asvn`,
`.asvn/log` and a plain directory.  A log is the sequence of its lines; the offset
of each write is kept (`WriteHeader` at 0, `AppendLine` at the end).  The histories
`did`, `ended`, `inTime`, `meddled` record which commands changed something, ended,
ran inside a repository that existed, and which logs were deleted by users.

A process starts with a line a user types (`TypedLines`), which is a sequence of words.
`CommandLine` turns it into a command: `Begin` is a line that gets as far as one of the
commands above, `Idle` every other line (a command that changes nothing, an unknown word, a
missing word over which `strcpy` dies).  A job keeps the line it came from, so that
properties can compare what is logged with what was typed.  `creat_log` clears `BSIZE` bytes
of the 500-byte array it is given; in the 32-bit binary kept beside the source the rest falls
on `logpath` of its caller, which is not used again, so the model leaves it out.

**ScanDir.**  Threads are explicit: `pc`, `filename`, `dirp` (the directory it has open), `left`
(how often each entry may yet be returned of it) and `child` per thread, and one `path` for
all.  A step is one access to the shared path or one call.  `present` are the entries there
are now, `touched` those other programs have removed or made.  They may do so to any entry as
often as `MaxChanges` allows (`Change`: `Remove`, `Make`), and `readdir` may or may not return an
entry of `touched`.  A name that is put back is a new entry of its directory (`PutBack`):
whoever has the directory open may be given it once more, the old one read or not, as POSIX
leaves open, and then the code lists the file, or scans the directory, a second time.  `again`
remembers the paths this has happened to.  A
path is a sequence of names from the directory the scan was called in, found by `Walk`, which
follows links up to `MaxLinks` of them (the system's limit is 40) and fails with more.
`write_fp` appends the newline to the shared path itself (`Record`).  A failed `opendir` is
`exit(0)` of the whole process.  A failed `pthread_create` is not looked at: `pthread_join`
then names a thread that has ended (and returns) or an id never set, where the model
allows that it returns, kills the process or never comes back.  `pthread_join` stores eight
bytes through the address of the four-byte `status`; in the binary kept beside the source the
rest falls on `thr_id`, which is not read.  The list itself, `.asvn/info/struct`, is a file of
the tree like any other.

## 3. Runs

| run | shows |
|---|---|
| `transfer_faults` | through all entries, with short reads, crashes, resets, a source rewritten or removed and a target that cannot be opened: `Framing` (data and control never mix), `NoMutualWait` (both sides wait for each other only over whole-block files), `Agreement` (same sizes on both sides before the first block), `CompleteMeansCopied`, `AllRecvMeansCopied`, `KeepsOldCopy`, and `ImplementsCopy`, the refinement of `FileCopy`; with both processes scheduled, `PeerFollows` (nobody survives the peer), `TransferEnds` (both end, or both wait over a file that had whole blocks when it was counted), `DeliversWell` (what is delivered, when nothing goes wrong); and `DostrServesNobody` (a sender entered the way the server enters it delivers nothing to anybody, whatever else happens) |
| `repository` | `HeaderFirst`, `LogOnlyGrows` (once a CREAT has ended its log loses nothing), `LoggedWasDone` (a logged change was made, by the command and on the path typed), `DoneIsLogged`, `InstalledOnce` |
| `session` | `OneConversation`, `Mute` (two live senders never say anything), `PeerFollows`, `PortComesBack` |
| `scan_dir` | `OneRuns` (threads take turns), `OwnPath` (the shared path is the one of the thread that uses it), `ListedOnce` (a path is listed twice only if a name on it was put back in a directory that was being read), `RightList` (only files, and every file that stayed), `GivesUpDisturbed` (the scan of a quiet tree is not given up), `ImplementsSequential` (the refinement of `SequentialScan`: only a path that was put back is taken up twice, and main does not return over another thread's work), `ScanEnds` |
| `transfer_small`, `transfer_whole`, `transfer_short`, `transfer_dofile`, `repository_race`, `repository_sub`, `repository_comment`, `session_up` | counterexamples to what the code says of itself, see section 6 |

Every property of a passing run has a mutant in its module: a changed copy of one
operator, the way a slip in that code would change it, under which TLC finds the
property violated.

`CHECK_DEADLOCK FALSE` stands in `Transfer.cfg`, `TransferWhole.cfg` and `SessionUp.cfg`,
because there the program really stops with both sides reading (which states those are is
what `NoMutualWait` says), and in `ScanDir.cfg`, because a scan comes to its end or, after a
failed `pthread_create`, to a join that never returns.

## 4. Bounds and fairness

- `transfer_faults`: `MAXSIZE = 3`, every length from 0 to 7 and the missing file: the empty file,
  less than a block, whole blocks, one and two blocks and a rest; with blocks of 3
  bytes a short read can return one or two.  At most one rewrite of the source, to less than
  a block, to one or two whole blocks or to a block and a rest, before the first block is
  read, or one removal while it is not open (`Edits`).  A file that had a rest may so be
  counted as whole blocks, and the other way round, which is why `TransferEnds` looks at the
  count.  One transfer, since the processes end with it.
- `repository`: two terminals, one directory, four commands: `ainit`, `CREAT` and any
  two others, or any mixture, of lines with and without a comment, without the path, and of
  a command that changes nothing; each hazard listed needs two concurrent commands
  behind an installation.  `repository_sub` has a directory with a subdirectory.
- `scan_dir`: two directories, a file in each, in the inner one a link back to the outer; any
  part of them there at the start and two changes at any time (`MaxChanges = 2`: enough to
  take a directory away between `stat` and `opendir`, or to remove an entry and to put it back
  while its directory is read, so that it is listed twice); `MaxLinks = 1`, so that paths
  are cut off by the system's limit on links, and four threads, which is what the walk
  round the links takes; that a thread cannot be had happens at any `pthread_create`.
  A name that is put back leads where it led before (`Tree` has one entry of a name in a
  directory), and once the process has ended the tree stays as it is.
- `session`: three clients and room for two children, so that the third conversation
  finds no process to serve it; each client process is one run of `UP`.
- Fairness: weak fairness of each process's own steps, that is, a process whose call
  has returned runs on; in `Session` also of `Accept` and of the kernel's release of
  the port, and in `ScanDir` of each thread, which the system schedules.  No fairness is put on
  other programs, crashes, kills, rewrites, short reads, or on a
  user's starting a command.  The code has no other scheduling of its own: it is
  straight-line code with blocking calls and no timeouts.

## 5. Proofs

TLAPS checks, for every value of the constants under `ConstantsOK`, every safety invariant,
the action property, the two refinements and `DostrServesNobody`, that is, all that the passing
runs check but liveness.  Where an invariant
is not inductive by itself the run was used to find the strengthening first.

**Transfer.**

- `TypeCorrect`: `Spec => []TypeOK`.  `TypeOK` is not inductive: that the
  counted size is a natural number needs that the sender only counts a file it has
  opened, and that the name is read after the last `rnum`.  `TypeInv` adds both.
- `OldCopyKept`: `Spec => []KeepsOldCopy`.  The invariant `Refused` says what
  is true of every reachable state while the source does not exist: the sender is
  before or at its failed `fopen`, no message in flight carries 500, `dataBuf` does
  not hold it either, and the receiver has not opened its copy.  It is what shows
  that the re-used buffer is harmless here.  `RefusedStep` keeps it as long as the sender
  gets no name of a file it has (`NoFileNamed`).
- `NobodyServed`: `Spec => DostrServesNobody`.  The invariant `Doomed`, which starts from an
  entry with two calls of `rnum` to come, is `Refused` and `NameEaten`: with two calls
  to come the receiver has sent its number at most, with one its name at most, and when the
  sender reads the name nothing is on its way and the receiver is past writing it.  So
  `NoFileNamed` holds for another reason than a missing file, and the rest is `RefusedStep`
  again.
- `FramingKept`, `BothAgree` and `OnlyWholeBlocksWait` (`Framing`, `Agreement`,
  `NoMutualWait`) rest on one invariant, `DialogueInv`.  While both processes are up, they
  are in one of seven phases (`Lockstep`: `Greeting` to `Sending`), each of which says where
  both can be and which single message is on its way.  Once one of them is gone its peer
  reads what was left and then nothing, so `Lockstep` says nothing any more; what is
  kept is what each message means whoever is left to read it (`Heard`: `num_last_ok` and
  `file_recv` are only written by a receiver that knows the sizes), what a receiver knows by
  itself (`Receiving`) and that no byte of the file waits for a receiver that expects a number
  (`Streams`).  `OnlyUnevenComplete` says what `Agreement` means for the files that
  can be reported complete.  `NoMutualWait` follows because `Resting` with a last block of 0 is the only
  phase in which nothing is on its way and both read.
- `CompleteCopies` and `AllRecvCopies` (`CompleteMeansCopied`, `AllRecvMeansCopied`) add
  `CopyInv`: byte k on its way is byte k behind what was stored (`InTransit`), so that, as long
  as no read is short, the copy is a prefix of the source and at the close the whole of it
  (`Stored`); and without faults the sender outlives the receiver's start (`Faultless`).  The
  arithmetic is in lemmas (`WholeBlocks`, `SourceGrows`).
- `CopyImplemented`: `Spec => ImplementsCopy`.  Initial states map to initial states; under
  `CopyInv` each step maps to one of `Begin`, `Store`, `Finish`, `GiveUp`, `Disturb` or to a
  stutter, argued action by action.

**Session.**

- `SessionTypeCorrect`, `OnlyOneConversation` (`Spec => []OneConversation`,
  inductive given the types) and `SendersAreMute` (`Spec => []Mute`).  `Mute` is not
  inductive: a conversation must start with nothing in flight, so `MuteInv` also
  speaks of clients before their connect.  The step is that an open, silent
  connection lets a read return only an error, after which `rnum` exits.

**ScanDir**, for any tree (finite or not), number of threads, limit on links, changes and faults.
Besides the obvious, `ConstantsOK` assumes that an entry is in a directory and that a
directory has one entry of a name.

- `ScanTypeCorrect`, `OneThreadRuns` (`OneRuns`) and `PathIsOwn` (`OwnPath`).  `OneRuns` alone is
  not inductive: `Waits` adds that a waiting thread's child is there and is nobody else's, so
  that `Join` wakes the parent of the one thread that has just ended.  `Clean` says that no
  newline of an earlier line is in the path when it is looked up, recorded or copied; with
  it `OwnPath` is kept through the hand-over from parent to child (`Create`).
- `PathsListedOnce` (`ListedOnce`).  What a thread has yet to do are trees, each named by the
  path at its root: those of the entries it has not read, or of the directory it is about to
  open (`Due`), and the one path that is being handed on (`Handed`).  `OnceInv` says that no
  two of these trees overlap (`AllApart`) and that nothing listed lies in any of them
  (`Unlisted`).  A line is the root of the tree being handed on; opening a directory
  replaces a tree by those of its entries, which differ in their next name because one
  open directory is one place (`OneDir`).  All of it is said of paths no name of which was put
  back in a directory being read (`Firm`): putting back adds a tree that may have been
  scanned, and makes every path in it infirm by the same step (`HasPutBack`, `NotFirm`,
  `FirmAbove`).
- `RightListKept` (`RightList`).  The other half: a file that stays where it is is listed or lies in
  one of these trees (`Cover`), as long as nothing was passed over in silence.  The walk
  along its path goes through every directory on the way (`WalkThrough`), so `opendir`
  finds the next name of it, and what is still unread of a directory belongs to where the
  thread's path led all the time (`DirKept`).  When main ends nobody waits (`NobodyWaits`:
  of the threads that wait one has the shortest path, and its parent's is shorter), so
  nothing is left to do.  The invariant (`Complete`) speaks of paths of any length; `RightList`
  bounds them, for TLC, by what a tree can hold.
- `GivenUpDisturbed` (`GivesUpDisturbed`): in a quiet tree the path that is handed on, or about to
  be opened, leads to a directory (`Openable`).
- `ScanImplemented` (`Spec => ImplementsSequential`).  The list of things to do is the union
  of `Due` and `Handed`.  Copying, reading an entry, starting and joining a thread leave it
  as it is; putting an entry back is a step of the abstraction too
  (`SequentialPutsBack`), and a path that was put back may be taken off the list and stay on
  it (`RestOf`); that a step of one thread changes it only by what this thread does
  (`TurnOfOne`) is `AllApart` again; that main ends over one directory is `NobodyWaits`
  (`OneDirLeft`).  `SequentialListsOnce` shows that the abstraction is worth implementing:
  `SequentialScan` by itself lists no path twice that was not put back, because its trees are
  disjoint but for those (`Disjoint`, kept by `ExpandDisjoint` and `RecordDisjoint`).
- The lemmas about `Walk` (`WalkOne`: a path leads to one place; `WalkGrows`, `WalkThrough`) need
  induction along a path.  The library's induction theorems, which take an operator, cannot be
  used; `LeastOf`, `NatInductive` and `PathInductive` state it over sets and are proved
  from the theorem on minimal elements of a well-founded relation.  `WalkExists` and
  `WalkTaken` show that the recursion in `Walk` has a solution, and `WalkGoesOn` that it
  does what its text says; `Walk` takes each step by the operator `Onward` so that this can be
  said.

**Repository.**  Every safety property that `repository` checks is proved, for any
number of terminals, directories, paths and commands.  Besides the obvious,
`ConstantsOK` assumes that nobody works in a directory called like the registry file
(`ReposPath`) and that nobody makes a directory called `.asvn/log`.

- `RepositoryTypeCorrect`.  The types need to know which command a process runs at
  each call (`JobOK`): only then is a line that is written the line of a `MKDIR` or
  `DELETE`, and `job[p].dir` a directory.  What the parser does with any typed line is in
  the lemmas `RunOK` and `BeginOK`.
- `LogTellsTheTruth` (`LoggedWasDone`): a process comes to the log only behind a call that
  succeeded (`DoneFirst`), and its job still is what was typed (`AsTyped`, part of `JobOK`).
- `HeaderComesFirst` and `LogsOnlyGrow`.  The danger is `MakeLog`, which empties the log,
  and `WriteHeader`, which writes at offset 0.  `LogInv(d)` says of a directory nobody
  meddled with that at most one process is at these calls, that `.asvn` is there while it
  is, and that no CREAT has ended there yet.  `mkdir` of `.asvn` is what lets only
  one through.  A step that brings nobody to these calls (`Quiet`) keeps it by
  `QuietKeeps`; `MakeMeta`, `MakeLog` and `WriteHeader` are argued one by one.
- `OneInstall` (`InstalledOnce`): the `mkdir` of `exe` plays the same part for `ainit`, and
  `MadeBefore` says what each later call finds made.
- `LoggedExactlyOnce` (`DoneIsLogged`).  At least once: a command holds its own directory's
  log open (`OwnLog`, from `repos \subseteq {ReposPath}`) and what is written there stays
  (`LogsOnlyGrow`).  At most once: commands have different numbers (`Ids`) and a
  command that still runs has no line (`NotYet`).

Only model-checked: liveness under fairness, which is outside what the prover supports
(`PeerFollows`, `TransferEnds` and `DeliversWell` of `Transfer`, `ScanEnds`, `PeerFollows` and
`PortComesBack` of `Session`).  The claims of the runs that expect a violation
are false of the code, so there is nothing to prove of them.

## 6. What the checks found

1. A file shorter than one block arrives empty and is acknowledged with `file_recv`
   (`transfer_small`).
2. A file of exactly whole blocks makes both sides wait for ever: the sender announces a
   last block of `0`, the receiver knows `none` (`transfer_whole`).
3. A short read stores stale bytes and still prints `All file recv` (`transfer_short`).
4. `dofile` never comes to the transfer it exists for: the directory and the file's path share
   a buffer, so it changes its directory into the file and exits (`transfer_dofile`).
5. A `CREAT` under way wipes the line of a `MKDIR` that has ended (`repository_race`).
6. `CREAT` registers the registry instead of the repository, so in a subdirectory
   `MKDIR` and `DELETE` act and are not logged (`repository_sub`).
7. The comment of a command is never collected, so no line of a log has one
   (`repository_comment`).
8. `UP` runs a sender against a sender: both read first (`session_up`).

The scan holds up better than the comment in it fears ("garbage in p->path after a thread
was entered and left", dirlist.c:40): the threads take turns, and every path is rebuilt from
the thread's own copy before it is used (`OwnPath`).
What it does not survive is another program that removes a name and makes it again in a
directory that is being read: all below that name may be listed twice (`ListedOnce`, which
is false without `Firm`).  Nothing in the repository promises otherwise, so this is no finding.

Through `dostr` no transfer at all completes: the second `rnum` takes the file name for
a number and the receiver takes the second 400 for a refusal.  `DostrServesNobody` says so
and is proved for every file and fault; `DeliversWell` is therefore stated of senders that
call `rnum` once.

## 7. Not modelled

- `readn`, `writen`, `rstr`, `wstr`, `wnum` (server/handles.c:373-441), `doingstr` (an empty
  body) and `create_socket`: nothing calls them, and what the five helpers ought to promise
  depends on the protocol of a caller that does not exist.
- The names `parse_command` knows and the header does not declare (`COMMIT`, `CHECKOUT`,
  `UPDATE`, `ADD`, `MV`, ...): no word maps to them, so `CommandLine` takes them for unknown
  words, as `lookup_cmd` does; the modules follow the functions, not the build.
- `pre/` but for `dirlist.c`: `handles.c`, `server/asvn_server.c` and `testfunction/thread.c` do
  not compile, `server.c` never accepts a connection, `init.c`, `local.c` and `creat.c` are first
  versions of `ainit` and `CREAT`, and `thread2.c` is the scan without its list.
- In `ScanDir`: a `getcwd` that fails (the program ends before it has begun), paths longer than
  `BSIZE`, special files other than "neither", a line that is written in part.
- The text of log lines, paths longer than their buffers, and the effect of `strcat` on
  the value `getenv` returns: one process runs one command and appends once.
- A read that returns part of a control message; the sizes of socket buffers (a
  write never blocks).

## 8. Plan

1. Done: `Transfer`, `FileCopy`, `CommandLine`, `Repository`, `Session`, `ScanDir`, with their
   runs.
2. Done: the proofs of all safety properties, of the action property and of both refinements;
   what each abstraction and each agreement is worth (`SequentialListsOnce`,
   `OnlyUnevenComplete`); that the server's entry serves nobody (`NobodyServed`).
3. Left to TLC: liveness under fairness.  What could still be proved towards it is safety: for
   `ScanEnds`, that paths have a bounded length in a finite tree, since no thread opens one
   with more than `MaxLinks` links; for `PeerFollows`, what a process can still read once its
   peer is gone.
