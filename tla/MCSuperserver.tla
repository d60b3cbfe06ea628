--------------------------- MODULE MCSuperserver ---------------------------
(* Model-checking instance of Superserver.                                 *)
EXTENDS Superserver
=============================================================================
