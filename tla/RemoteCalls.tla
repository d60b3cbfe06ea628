---------------------------- MODULE RemoteCalls ----------------------------
(***************************************************************************)
(* What a session promises to the application: its calls are executed      *)
(* elsewhere, one by one and in the order it made them, without a gap,     *)
(* each with its own data and never with another's; and a call that asks   *)
(* for a result returns the result of that very call.                      *)
(* After a failure the rest is not executed; a call is never tried again.  *)
(*                                                                         *)
(* Module Session implements this one.                                     *)
(***************************************************************************)
EXTENDS Naturals, Sequences

(***************************************************************************)
(* A call changes a state, or carries data too, or asks for a result.      *)
(***************************************************************************)
CallKinds == {"state", "data", "query"}

VARIABLES calls,       \* the kinds of the calls made
          caller,      \* "running", "waiting" for a result, "ended"
          executed,    \* the calls executed: their numbers and whose data they used
          returned     \* the numbers of the calls whose results were returned

vars == <<calls, caller, executed, returned>>

Init ==
  /\ calls = <<>>
  /\ caller = "running"
  /\ executed = <<>>
  /\ returned = <<>>

Call(k) ==
  /\ caller = "running"
  /\ calls' = Append(calls, k)
  /\ caller' = IF k = "query" THEN "waiting" ELSE "running"
  /\ UNCHANGED <<executed, returned>>

Execute ==
  /\ Len(executed) < Len(calls)
  /\ LET n == Len(executed) + 1
     IN  executed' = Append(executed,
                            [n |-> n, input |-> IF calls[n] = "data" THEN n ELSE 0])
  /\ UNCHANGED <<calls, caller, returned>>

Return ==
  /\ caller = "waiting"
  /\ Len(executed) = Len(calls)
  /\ returned' = Append(returned, Len(calls))
  /\ caller' = "running"
  /\ UNCHANGED <<calls, executed>>

(***************************************************************************)
(* The program ends, by itself or because a call failed.                   *)
(***************************************************************************)
End ==
  /\ caller # "ended"
  /\ caller' = "ended"
  /\ UNCHANGED <<calls, executed, returned>>

Next == (\E k \in CallKinds : Call(k)) \/ Execute \/ Return \/ End

Spec == Init /\ [][Next]_vars
=============================================================================
