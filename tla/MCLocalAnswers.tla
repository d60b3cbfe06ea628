--------------------------- MODULE MCLocalAnswers ---------------------------
(* Model-checking instances of LocalAnswers.                               *)
EXTENDS LocalAnswers
=============================================================================
