----------------------------- MODULE MCSession -----------------------------
(* Model-checking instances of Session.  The server's ring is as small as  *)
(* a ring can be, so that its receiver meets a full one.                   *)
EXTENDS Session

MCRingRoom == [client |-> 2, server |-> 1]
=============================================================================
