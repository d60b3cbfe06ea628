--------------------------- MODULE MCClientArrays ---------------------------
(* Model-checking instance of ClientArrays.                                *)
EXTENDS ClientArrays
=============================================================================
