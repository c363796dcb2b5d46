---------------------------- MODULE MCRepository ----------------------------
(* Instances of Repository for TLC: a directory "top" with "sub" in it,    *)
(* two terminals, up to four commands.                                     *)
EXTENDS Repository

TopDir == {"top"}
BothDirs == {"top", "sub"}
TopParent == [d \in TopDir |-> NoDir]
BothParent == [d \in BothDirs |-> IF d = "sub" THEN "top" ELSE NoDir]

Type(words) == {<<"asvn">> \o w : w \in words}

\* Every command that changes something, on every path that matters, and one
\* line each of those that do not get that far.
AllLines == {Ainit} \cup Type(
    {<<"CREAT">>, <<"LOG">>, <<"MKDIR">>}
      \cup {<<"MKDIR", "d", "why">>, <<"MKDIR", Meta>>}
      \cup {<<"DELETE", arg>> : arg \in {"d", Meta, MetaLog}})
PlainLines == {Ainit} \cup Type({<<"CREAT">>, <<"MKDIR", "d">>})
CommentLines == {Ainit} \cup Type({<<"CREAT">>, <<"MKDIR", "d", "why">>})
=============================================================================
