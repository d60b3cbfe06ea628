-------------------------------- MODULE Ring --------------------------------
(***************************************************************************)
(* The packet ring of common/ring.h between its two threads on the server: *)
(* the writer is the thread started by recvr_run_loop (common/recvr.c),    *)
(* the reader is glserver_handle_packets (gl_server/glserver.c).  There is *)
(* no lock: the threads share two indexes, the slots, and a pipe that      *)
(* carries one byte per pushed packet and whose closing ends the reader.   *)
(*                                                                         *)
(* Each action is one access to the shared state, so every interleaving    *)
(* of the two threads is explored.  The transport is left out (see module  *)
(* Recvr): here it may offer a packet, stop in the middle of one, or end,  *)
(* at any time.                                                            *)
(***************************************************************************)
EXTENDS Naturals, Sequences

CONSTANTS RingSize,      \* slots; 1 << ring_size_order in the code
          PipeCapacity,  \* bytes the notification pipe takes before write() blocks
          Packet,        \* complete packets
          Partial,       \* content of a slot that does not hold a complete packet
          MaxPackets     \* bound on the packets the transport offers

(***************************************************************************)
(* ring_init makes the size a power of two, so "& (ring_size - 1)" is      *)
(* "% RingSize"; nothing below needs more than a positive size.            *)
(***************************************************************************)
ASSUME RingAssumption ==
  /\ RingSize \in Nat \ {0}
  /\ PipeCapacity \in Nat
  /\ RingSize - 1 <= PipeCapacity
  /\ Partial \notin Packet
  /\ MaxPackets \in Nat

VARIABLES buffer,      \* the slots
          idx_reader,  \* next slot to read
          idx_writer,  \* next slot to write
          pipe,        \* bytes waiting in the notification pipe
          pipe_wr,     \* the write end of the pipe is open
          wpc,         \* where the writer thread is
          rpc,         \* where the reader thread is
          popptr_cmd,  \* what the reader saw when it dispatched the slot
          sent,        \* history: packets pushed
          handled      \* history: packets executed

vars == <<buffer, idx_reader, idx_writer, pipe, pipe_wr, wpc, rpc,
          popptr_cmd, sent, handled>>
writerVars == <<wpc, sent>>
readerVars == <<rpc, popptr_cmd, handled>>

Slot == 0 .. RingSize - 1

(***************************************************************************)
(* Writer: "poll" waits for the transport, "sleep" is the pause on a full  *)
(* ring, "header" and "body" fill the slot, "commit" moves idx_writer,     *)
(* "notify" writes the byte, "close" closes the pipe, "done" is over.      *)
(* Reader: "poll" waits for the pipe, "get" reads the indexes, "dispatch"  *)
(* looks at the command, "execute" runs it on the slot, "pop" takes the    *)
(* byte, "advance" moves idx_reader, "join" waits for the writer thread,   *)
(* "deleted" is after recvr_stop.                                          *)
(***************************************************************************)
WriterPC == {"poll", "sleep", "header", "body", "commit", "notify", "close", "done"}
ReaderPC == {"poll", "get", "dispatch", "execute", "pop", "advance", "join", "deleted"}

TypeOK ==
  /\ buffer \in [Slot -> Packet \cup {Partial}]
  /\ idx_reader \in Slot
  /\ idx_writer \in Slot
  /\ pipe \in Nat
  /\ pipe_wr \in BOOLEAN
  /\ wpc \in WriterPC
  /\ rpc \in ReaderPC
  /\ popptr_cmd \in Packet \cup {Partial}
  /\ sent \in Seq(Packet)
  /\ handled \in Seq(Packet \cup {Partial})

(***************************************************************************)
(* ring_init: malloc does not clear the slots.                             *)
(***************************************************************************)
Init ==
  /\ buffer = [s \in Slot |-> Partial]
  /\ idx_reader = 0
  /\ idx_writer = 0
  /\ pipe = 0
  /\ pipe_wr = TRUE
  /\ wpc = "poll"
  /\ rpc = "poll"
  /\ popptr_cmd = Partial
  /\ sent = <<>>
  /\ handled = <<>>

NextIdxNoWrap(i) == IF i = RingSize THEN 0 ELSE i + 1 \* mutant: wraps one slot late
NextIdx(i) == (i + 1) % RingSize

RingIsEmpty == idx_reader = idx_writer

RingIsFull == NextIdx(idx_writer) = idx_reader

-----------------------------------------------------------------------------
(* The writer: recvr_tport_to_ring_loop and recvr_handle_packet.           *)

(***************************************************************************)
(* The transport is readable and ring_push_ptr_get returns a slot.         *)
(***************************************************************************)
PushPtrGet ==
  /\ wpc = "poll"
  /\ Len(sent) < MaxPackets
  /\ ~RingIsFull
  /\ wpc' = "header"
  /\ UNCHANGED <<buffer, idx_reader, idx_writer, pipe, pipe_wr, sent, readerVars>>

(***************************************************************************)
(* ring_push_ptr_get returns NULL: usleep, then back to polling.           *)
(***************************************************************************)
PushPtrFull ==
  /\ wpc = "poll"
  /\ Len(sent) < MaxPackets
  /\ RingIsFull
  /\ wpc' = "sleep"
  /\ UNCHANGED <<buffer, idx_reader, idx_writer, pipe, pipe_wr, sent, readerVars>>

SleepOver ==
  /\ wpc = "sleep"
  /\ wpc' = "poll"
  /\ UNCHANGED <<buffer, idx_reader, idx_writer, pipe, pipe_wr, sent, readerVars>>

FillHeaderOnly == \* mutant: pushed once its header is there
  /\ wpc = "header"
  /\ buffer' = [buffer EXCEPT ![idx_writer] = Partial]
  /\ wpc' = "commit"
  /\ UNCHANGED <<idx_reader, idx_writer, pipe, pipe_wr, sent, readerVars>>

(***************************************************************************)
(* The slot is written in place: the header first, then the body.          *)
(***************************************************************************)
FillHeader ==
  /\ wpc = "header"
  /\ buffer' = [buffer EXCEPT ![idx_writer] = Partial]
  /\ wpc' = "body"
  /\ UNCHANGED <<idx_reader, idx_writer, pipe, pipe_wr, sent, readerVars>>

FillBody(p) ==
  /\ wpc = "body"
  /\ buffer' = [buffer EXCEPT ![idx_writer] = p]
  /\ wpc' = "commit"
  /\ UNCHANGED <<idx_reader, idx_writer, pipe, pipe_wr, sent, readerVars>>

(***************************************************************************)
(* The transport ends between two packets or in the middle of one: what    *)
(* the slot holds is not pushed.                                           *)
(***************************************************************************)
TransportEnds ==
  /\ wpc \in {"poll", "header", "body"}
  /\ wpc' = "close"
  /\ UNCHANGED <<buffer, idx_reader, idx_writer, pipe, pipe_wr, sent, readerVars>>

(***************************************************************************)
(* ring_push_ptr_next, first half: the assertion of the code is            *)
(* WriterAssert below; the index moves before the byte is written.         *)
(***************************************************************************)
PushCommit ==
  /\ wpc = "commit"
  /\ idx_writer' = NextIdx(idx_writer)
  /\ sent' = Append(sent, buffer[idx_writer])
  /\ wpc' = "notify"
  /\ UNCHANGED <<buffer, idx_reader, pipe, pipe_wr, readerVars>>

PushNotifyTwice == \* mutant: the byte is written again after a short count
  /\ wpc = "notify"
  /\ pipe < PipeCapacity
  /\ \E n \in {1, 2} : pipe' = pipe + n
  /\ wpc' = "poll"
  /\ UNCHANGED <<buffer, idx_reader, idx_writer, pipe_wr, sent, readerVars>>

PushNotifyLost == \* mutant: no byte when the pipe already holds one
  /\ wpc = "notify"
  /\ pipe' = IF pipe = 0 THEN 1 ELSE pipe
  /\ wpc' = "poll"
  /\ UNCHANGED <<buffer, idx_reader, idx_writer, pipe_wr, sent, readerVars>>

(***************************************************************************)
(* ring_push_ptr_next, second half: write() blocks on a full pipe.         *)
(***************************************************************************)
PushNotify ==
  /\ wpc = "notify"
  /\ pipe < PipeCapacity
  /\ pipe' = pipe + 1
  /\ wpc' = "poll"
  /\ UNCHANGED <<buffer, idx_reader, idx_writer, pipe_wr, sent, readerVars>>

WriterCloseSkipped == \* mutant: the thread ends without ring_writer_close
  /\ wpc = "close"
  /\ wpc' = "done"
  /\ UNCHANGED <<buffer, idx_reader, idx_writer, pipe, pipe_wr, sent, readerVars>>

(***************************************************************************)
(* ring_writer_close, at the end of the thread.                            *)
(***************************************************************************)
WriterClose ==
  /\ wpc = "close"
  /\ pipe_wr' = FALSE
  /\ wpc' = "done"
  /\ UNCHANGED <<buffer, idx_reader, idx_writer, pipe, sent, readerVars>>

Writer ==
  \/ PushPtrGet
  \/ PushPtrFull
  \/ SleepOver
  \/ FillHeader
  \/ \E p \in Packet : FillBody(p)
  \/ TransportEnds
  \/ PushCommit
  \/ PushNotify
  \/ WriterClose

-----------------------------------------------------------------------------
(* The reader: glserver_handle_packets and glse_handle_ring_packet.        *)

PollHupUnbound == \* mutant: leaves on an empty pipe too
  /\ rpc = "poll"
  /\ ~pipe_wr \/ pipe = 0
  /\ rpc' = "join"
  /\ UNCHANGED <<buffer, idx_reader, idx_writer, pipe, pipe_wr, popptr_cmd,
                 handled, writerVars>>

(***************************************************************************)
(* The write end is closed, so poll reports POLLHUP, with POLLIN as well   *)
(* while bytes are left.  The code tests POLLHUP first and leaves the loop.*)
(***************************************************************************)
PollHup ==
  /\ rpc = "poll"
  /\ ~pipe_wr
  /\ rpc' = "join"
  /\ UNCHANGED <<buffer, idx_reader, idx_writer, pipe, pipe_wr, popptr_cmd,
                 handled, writerVars>>

PollIn ==
  /\ rpc = "poll"
  /\ pipe_wr
  /\ pipe > 0
  /\ rpc' = "get"
  /\ UNCHANGED <<buffer, idx_reader, idx_writer, pipe, pipe_wr, popptr_cmd,
                 handled, writerVars>>

(***************************************************************************)
(* ring_pop_ptr_get; on an empty ring the handler only logs and returns.   *)
(***************************************************************************)
PopPtrGet ==
  /\ rpc = "get"
  /\ rpc' = IF RingIsEmpty THEN "poll" ELSE "dispatch"
  /\ UNCHANGED <<buffer, idx_reader, idx_writer, pipe, pipe_wr, popptr_cmd,
                 handled, writerVars>>

DispatchAndAdvance == \* mutant: the slot is given back before the command ran
  /\ rpc = "dispatch"
  /\ popptr_cmd' = buffer[idx_reader]
  /\ idx_reader' = NextIdx(idx_reader)
  /\ rpc' = "execute"
  /\ UNCHANGED <<buffer, idx_writer, pipe, pipe_wr, handled, writerVars>>

(***************************************************************************)
(* switch (c->cmd): the command is read from the slot ...                  *)
(***************************************************************************)
Dispatch ==
  /\ rpc = "dispatch"
  /\ popptr_cmd' = buffer[idx_reader]
  /\ rpc' = "execute"
  /\ UNCHANGED <<buffer, idx_reader, idx_writer, pipe, pipe_wr, handled, writerVars>>

(***************************************************************************)
(* ... and its implementation gets the slot by pointer: the arguments are  *)
(* read there, later.                                                      *)
(***************************************************************************)
Execute ==
  /\ rpc = "execute"
  /\ handled' = Append(handled, buffer[idx_reader])
  /\ rpc' = "pop"
  /\ UNCHANGED <<buffer, idx_reader, idx_writer, pipe, pipe_wr, popptr_cmd, writerVars>>

(***************************************************************************)
(* ring_pop_ptr_next, first half: a read() that blocks on an empty pipe    *)
(* whose write end is open.  The assertion of the code is ReaderAssert.    *)
(***************************************************************************)
PopByte ==
  /\ rpc = "pop"
  /\ pipe > 0 \/ ~pipe_wr
  /\ pipe' = IF pipe > 0 THEN pipe - 1 ELSE 0
  /\ rpc' = "advance"
  /\ UNCHANGED <<buffer, idx_reader, idx_writer, pipe_wr, popptr_cmd, handled, writerVars>>

PopAdvanceLoop == \* mutant: looks for the next packet without polling the pipe
  /\ rpc = "advance"
  /\ idx_reader' = NextIdx(idx_reader)
  /\ rpc' = "get"
  /\ UNCHANGED <<buffer, idx_writer, pipe, pipe_wr, popptr_cmd, handled, writerVars>>

(***************************************************************************)
(* ring_pop_ptr_next, second half: only now may the writer reuse the slot. *)
(***************************************************************************)
PopAdvance ==
  /\ rpc = "advance"
  /\ idx_reader' = NextIdx(idx_reader)
  /\ rpc' = "poll"
  /\ UNCHANGED <<buffer, idx_writer, pipe, pipe_wr, popptr_cmd, handled, writerVars>>

(***************************************************************************)
(* pthread_join, then ring_delete (in recvr_stop): the slots are freed and *)
(* both ends of the pipe closed.                                           *)
(***************************************************************************)
JoinAndDelete ==
  /\ rpc = "join"
  /\ wpc = "done"
  /\ rpc' = "deleted"
  /\ buffer' = [s \in Slot |-> Partial]
  /\ idx_reader' = 0
  /\ idx_writer' = 0
  /\ pipe' = 0
  /\ pipe_wr' = FALSE
  /\ UNCHANGED <<popptr_cmd, handled, writerVars>>

Reader ==
  \/ PollHup
  \/ PollIn
  \/ PopPtrGet
  \/ Dispatch
  \/ Execute
  \/ PopByte
  \/ PopAdvance
  \/ JoinAndDelete

(***************************************************************************)
(* Both threads are over: the child process exits.                         *)
(***************************************************************************)
Terminated ==
  /\ rpc = "deleted"
  /\ wpc = "done"
  /\ UNCHANGED vars

Next == Writer \/ Reader \/ Terminated

(***************************************************************************)
(* The threads are scheduled; the transport is not: a packet need not      *)
(* come, and one that has begun need not be completed.  The sleep on a     *)
(* full ring ends, and a writer with something to commit goes on.          *)
(***************************************************************************)
Fairness ==
  /\ WF_vars(SleepOver \/ PushCommit \/ PushNotify \/ WriterClose)
  /\ WF_vars(Reader)

SafeSpec == Init /\ [][Next]_vars
Spec == SafeSpec /\ Fairness

-----------------------------------------------------------------------------
(* Safety.                                                                 *)

(***************************************************************************)
(* The two assertions of common/ring.h and the "should not happen" of      *)
(* glse_handle_ring_packet: whatever the interleaving, ring_push_ptr_next  *)
(* still finds the ring not full, ring_pop_ptr_next finds it not empty,    *)
(* and a reader woken by the pipe finds a packet.                          *)
(***************************************************************************)
WriterAssert == wpc = "commit" => NextIdx(idx_writer) # idx_reader
ReaderAssert == rpc = "pop" => ~RingIsEmpty
PollRocks == rpc = "get" => ~RingIsEmpty
AssertsHold == WriterAssert /\ ReaderAssert /\ PollRocks

(***************************************************************************)
(* The read() in ring_pop_ptr_next always finds its byte and the write()   *)
(* in ring_push_ptr_next always finds room: neither thread ever waits on   *)
(* the pipe outside poll, although the bytes and the indexes are updated   *)
(* in separate steps.                                                      *)
(***************************************************************************)
PipeNeverBlocks ==
  /\ rpc = "pop" => pipe > 0
  /\ wpc = "notify" => pipe < PipeCapacity

(***************************************************************************)
(* A command is executed on the packet it was dispatched on: the writer    *)
(* leaves the slot alone until ring_pop_ptr_next, so the arguments read    *)
(* from the slot belong to the command read from it, and are complete.     *)
(***************************************************************************)
SlotStable ==
  rpc = "execute" => popptr_cmd \in Packet /\ buffer[idx_reader] = popptr_cmd

(***************************************************************************)
(* The slots from r to w, oldest first, as the indexes delimit them.       *)
(***************************************************************************)
SlotAt(i, k) == (i + k) % RingSize
OccupancyOf(r, w) == IF r <= w THEN w - r ELSE w - r + RingSize
ContentsOf(b, r, w) ==
  [i \in 1 .. OccupancyOf(r, w) |-> b[SlotAt(r, i - 1)]]

Occupancy == OccupancyOf(idx_reader, idx_writer)
Contents == ContentsOf(buffer, idx_reader, idx_writer)
SlotHandled == rpc \in {"pop", "advance"}

(***************************************************************************)
(* What the ring holds is what was pushed and not yet executed, in order,  *)
(* across every wrap of the indexes: nothing pushed is lost, executed      *)
(* twice or reordered.                                                     *)
(***************************************************************************)
RingContents ==
  rpc # "deleted" =>
    sent = handled \o (IF SlotHandled THEN Tail(Contents) ELSE Contents)

(***************************************************************************)
(* The child leaves its loop only when its receiver thread is over, so     *)
(* pthread_join returns and recvr_stop frees a ring nobody uses.           *)
(***************************************************************************)
JoinNeverBlocks == rpc \in {"join", "deleted"} => wpc = "done"

(***************************************************************************)
(* "signal end of data to reader" (common/ring.h:97): the end is signalled *)
(* after the data, so a reader that has seen it has executed every packet. *)
(* The code breaks this: the loop tests POLLHUP before POLLIN.             *)
(***************************************************************************)
DataBeforeEnd == rpc = "join" => handled = sent

-----------------------------------------------------------------------------
(***************************************************************************)
(* The inductive invariant.  The bytes in the pipe count the packets       *)
(* between the indexes, but for the two moments where an index and its     *)
(* byte disagree; what the reader found in the pipe stays there until it   *)
(* takes it; a slot being filled is outside the indexes.                   *)
(***************************************************************************)
IndexInv ==
  /\ rpc # "deleted" =>
       Occupancy = pipe + (IF wpc = "notify" THEN 1 ELSE 0)
                        + (IF rpc = "advance" THEN 1 ELSE 0)
  /\ wpc \in {"header", "body", "commit"} => Occupancy < RingSize - 1
  /\ rpc \in {"get", "dispatch", "execute", "pop"} => pipe > 0
  /\ rpc \in {"join", "deleted"} => wpc = "done"
  /\ rpc # "deleted" => (pipe_wr <=> wpc # "done")

SlotInv ==
  /\ wpc = "commit" => buffer[idx_writer] \in Packet
  /\ rpc = "execute" => popptr_cmd = buffer[idx_reader]
  /\ Contents \in Seq(Packet)
  /\ handled \in Seq(Packet)

IInv == TypeOK /\ IndexInv /\ SlotInv /\ RingContents

-----------------------------------------------------------------------------
(* Liveness.                                                               *)

(***************************************************************************)
(* A packet that was pushed is executed, unless the connection ends.       *)
(***************************************************************************)
EveryPacketHandled ==
  \A n \in 1 .. MaxPackets : (Len(sent) >= n) ~> (Len(handled) >= n \/ ~pipe_wr)

(***************************************************************************)
(* When the receiver thread stops, the child process ends.                 *)
(***************************************************************************)
ChildEnds == (wpc = "close") ~> (rpc = "deleted")

-----------------------------------------------------------------------------
(***************************************************************************)
(* The ring implements the queue of module PacketQueue: a push is the move *)
(* of idx_writer, a packet is delivered when it is executed and released   *)
(* when idx_reader moves.                                                  *)
(***************************************************************************)
Phase ==
  IF rpc = "join" THEN "stopped" ELSE IF rpc = "deleted" THEN "deleted" ELSE "running"

PQ == INSTANCE PacketQueue WITH
        Capacity <- RingSize - 1,
        queue <- Contents,
        open <- pipe_wr,
        accepted <- sent,
        delivered <- handled,
        busy <- SlotHandled,
        phase <- Phase

RefinesPacketQueue == PQ!Spec
=============================================================================
