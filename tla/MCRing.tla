------------------------------- MODULE MCRing -------------------------------
(* Model-checking instance of Ring: a ring of order 2, as on the client,   *)
(* and more packets than slots, so that both indexes wrap.                 *)
EXTENDS Ring

CONSTANTS p1, p2

MCPacket == {p1, p2}
=============================================================================
