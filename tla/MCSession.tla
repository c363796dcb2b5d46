----------------------------- MODULE MCSession -----------------------------
(* Instances of Session for TLC: one client to see it hang, three to see   *)
(* them compete for the port, and more of them than the server may have    *)
(* children.                                                               *)
EXTENDS Session

AnySockid == {"none", "listener"}
Listening == {"listener"}
=============================================================================
