---------------------------- MODULE PacketQueue ----------------------------
(***************************************************************************)
(* What a packet ring promises to its two threads: a bounded FIFO queue    *)
(* with an end-of-data mark.  The writer (the thread of common/recvr.c)    *)
(* appends packets and finally closes; the reader (glserver_handle_packets *)
(* on the server) handles the packet at the head while it still sits in    *)
(* the queue, then frees its place, and may stop only after the close.     *)
(*                                                                         *)
(* Module Ring, which models common/ring.h instruction by instruction,     *)
(* implements this specification.                                          *)
(***************************************************************************)
EXTENDS Naturals, Sequences

CONSTANTS Packet,      \* what a slot may hold once a packet is complete
          Capacity     \* packets that may wait in the queue, a natural number

VARIABLES queue,       \* packets pushed and not yet freed, oldest first
          open,        \* the writer has not closed its side
          accepted,    \* history: packets pushed
          delivered,   \* history: packets handled
          busy,        \* the head of the queue has been handled, not yet freed
          phase        \* "running", "stopped" (the reader has left its loop), "deleted"

vars == <<queue, open, accepted, delivered, busy, phase>>

TypeOK ==
  /\ queue \in Seq(Packet)
  /\ open \in BOOLEAN
  /\ accepted \in Seq(Packet)
  /\ delivered \in Seq(Packet)
  /\ busy \in BOOLEAN
  /\ phase \in {"running", "stopped", "deleted"}

Init ==
  /\ queue = <<>>
  /\ open = TRUE
  /\ accepted = <<>>
  /\ delivered = <<>>
  /\ busy = FALSE
  /\ phase = "running"

(***************************************************************************)
(* ring_push_ptr_get, fill, ring_push_ptr_next seen as one step.           *)
(***************************************************************************)
Push(p) ==
  /\ open
  /\ Len(queue) < Capacity
  /\ queue' = Append(queue, p)
  /\ accepted' = Append(accepted, p)
  /\ UNCHANGED <<open, delivered, busy, phase>>

(***************************************************************************)
(* ring_writer_close.                                                      *)
(***************************************************************************)
Close ==
  /\ open
  /\ open' = FALSE
  /\ UNCHANGED <<queue, accepted, delivered, busy, phase>>

(***************************************************************************)
(* ring_pop_ptr_get and the handler run on the packet in place.            *)
(***************************************************************************)
Deliver ==
  /\ phase = "running"
  /\ ~busy
  /\ queue # <<>>
  /\ delivered' = Append(delivered, Head(queue))
  /\ busy' = TRUE
  /\ UNCHANGED <<queue, open, accepted, phase>>

(***************************************************************************)
(* ring_pop_ptr_next.                                                      *)
(***************************************************************************)
Release ==
  /\ busy
  /\ queue' = Tail(queue)
  /\ busy' = FALSE
  /\ UNCHANGED <<open, accepted, delivered, phase>>

(***************************************************************************)
(* The reader's loop ends: never while the writer may still push, and      *)
(* never in the middle of a packet.  What is still queued is abandoned.    *)
(***************************************************************************)
Stop ==
  /\ phase = "running"
  /\ ~open
  /\ ~busy
  /\ phase' = "stopped"
  /\ UNCHANGED <<queue, open, accepted, delivered, busy>>

(***************************************************************************)
(* recvr_stop, once both threads are through with the queue: ring_delete.  *)
(***************************************************************************)
Delete ==
  /\ phase = "stopped"
  /\ phase' = "deleted"
  /\ queue' = <<>>
  /\ UNCHANGED <<open, accepted, delivered, busy>>

Next ==
  \/ \E p \in Packet : Push(p)
  \/ Close
  \/ Deliver
  \/ Release
  \/ Stop
  \/ Delete

Fairness == WF_vars(Deliver) /\ WF_vars(Release) /\ WF_vars(Stop \/ Delete)

SafeSpec == Init /\ [][Next]_vars
Spec == SafeSpec /\ Fairness

-----------------------------------------------------------------------------
(***************************************************************************)
(* Every packet pushed is accounted for, in order: what was handled        *)
(* followed by what still waits (without the head when it was handled      *)
(* already) is what was pushed.  No packet is lost, duplicated or          *)
(* overtaken between the two threads.                                      *)
(***************************************************************************)
Fifo ==
  phase # "deleted" =>
    accepted = delivered \o (IF busy THEN Tail(queue) ELSE queue)

(***************************************************************************)
(* The inductive invariant behind Fifo: a packet being handled occupies    *)
(* the head of the queue, and nothing is handled once the reader is out.   *)
(***************************************************************************)
QueueInv ==
  /\ TypeOK
  /\ Fifo
  /\ busy => queue # <<>> /\ phase = "running"
  /\ phase # "running" => ~open
=============================================================================
