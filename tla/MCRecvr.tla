------------------------------ MODULE MCRecvr ------------------------------
(* Model-checking instances of Recvr: packets of every kind, on either     *)
(* transport or on a socket only.                                          *)
EXTENDS Recvr

MCKinds == Kind
MCTransports == {"tcp", "pipe"}
MCSocket == {"tcp"}
=============================================================================
