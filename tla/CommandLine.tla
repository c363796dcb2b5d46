---------------------------- MODULE CommandLine ----------------------------
(***************************************************************************)
(* What main of the client makes of a command line.  A line is the         *)
(* sequence of the words typed, the program's name first; every word is    *)
(* taken whole, and so is every path.                                      *)
(***************************************************************************)
EXTENDS Integers, Sequences

argc(line)    == Len(line)
args(line, i) == line[i + 1]

Unset == "-"                 \* cmd->arg as malloc left it

cmdlist == {"CREAT", "UP", "LOG", "MKDIR", "DELETE", "PWD", "QUIT"}

(* The enumerators are named like the words; any other word is -1.  The    *)
(* names parse_command also knows (COMMIT, UPDATE, ...) are not in the     *)
(* list, so they are unknown words too.                                    *)
lookup_cmd(word) == IF word \in cmdlist THEN word ELSE "unknown"

TakesPath(line) == lookup_cmd(args(line, 1)) \in {"MKDIR", "DELETE"}

(* strcpy of a word that was not typed ends the process.                   *)
WordMissing(line) ==
    \/ argc(line) < 2
    \/ TakesPath(line) /\ argc(line) < 3

(* The path, and the words from n on, short of the last three of argc, as  *)
(* comment.                                                                *)
parse_command(line) ==
    LET n == argc(line) - 2 - (IF TakesPath(line) THEN 1 ELSE 0)
    IN  [arg |-> IF TakesPath(line) THEN args(line, 2) ELSE Unset,
         cmt |-> SubSeq(line, n + 1, argc(line) - 3)]

Died == [op |-> "none", arg |-> Unset, cmt |-> <<>>]

(* main: the command that response dispatches, with what parse_command has *)
(* set.                                                                    *)
Command(line) ==
    IF WordMissing(line) THEN Died
    ELSE [op  |-> lookup_cmd(args(line, 1)),
          arg |-> parse_command(line).arg, cmt |-> parse_command(line).cmt]
=============================================================================
