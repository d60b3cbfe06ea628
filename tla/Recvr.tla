------------------------------- MODULE Recvr -------------------------------
(***************************************************************************)
(* The receiver thread of common/recvr.c: it cuts the byte stream of a     *)
(* transport into packets and puts them into the ring, in place when they  *)
(* fit a slot, in a buffer of their own when they do not.                  *)
(*                                                                         *)
(* The stream is a sequence of units: the cmd and the cmd_size that make   *)
(* the header of a packet, then the two halves of its body if it has one.  *)
(* The peer may stop after any unit.                                       *)
(* The ring is the bounded queue that module Ring implements; its slots    *)
(* are kept, because what a slot still holds from an earlier packet        *)
(* matters when a read fails.                                              *)
(***************************************************************************)
EXTENDS Naturals, Sequences, FiniteSets

CONSTANTS RingSize,       \* slots of the ring
          MaxPackets,     \* bound on the packets the peer sends
          Kinds,          \* the packets the peer may send, see Kind
          Transports,     \* "tcp" (a socket), "pipe" (stdio, qrexecpipe) or both
          MayReset,       \* a socket may be reset by the peer
          MallocMayFail   \* malloc may return NULL

(***************************************************************************)
(* cmd: SEND_DATA or any API call.  size: "bare" is a header alone,        *)
(* "small" fits a ring packet, "large" does not.  A SEND_DATA is never     *)
(* bare (it has its zero field), and a client has no larger calls than its *)
(* out_buf, which fits a slot of the server.                               *)
(***************************************************************************)
Kind == {[cmd |-> "CALL", size |-> "bare"],
         [cmd |-> "CALL", size |-> "small"],
         [cmd |-> "SEND_DATA", size |-> "small"],
         [cmd |-> "SEND_DATA", size |-> "large"]}

ASSUME RecvrAssumption ==
  /\ RingSize \in Nat /\ RingSize >= 2
  /\ MaxPackets \in Nat
  /\ Kinds \subseteq Kind
  /\ Transports \subseteq {"tcp", "pipe"}
  /\ MayReset \in BOOLEAN
  /\ MallocMayFail \in BOOLEAN

VARIABLES
  transport,   \* the transport the program was configured with
  offered,     \* the packets the peer has begun to send, by their number
  partial,     \* units of the last one it has not written yet
  wire,        \* units written and not read
  link,        \* "open", "eof" (peer gone), "reset"
  sockerr,     \* the socket error of the reset has not been reported yet
  fd_open,     \* our end of the transport has not been closed
  pc,          \* where the receiver thread is
  remaining,   \* units of the header, or of the body, still to read
  dest,        \* 0: the body goes into the slot; else a malloc'd buffer
  slots,       \* the ring's packets
  idx_reader, idx_writer, ring_open,
  heap,        \* malloc'd buffers: the halves each one holds
  live,        \* those not freed
  busy,        \* the reader is on the slot at idx_reader
  stopped,     \* the reader has left its loop
  taken,       \* buffers whose ownership went to the reader
  pushed,      \* history: what the receiver pushed
  delivered    \* history: what the reader saw

peerVars == <<transport, offered, partial>>
readerVars == <<idx_reader, busy, stopped, taken, delivered>>
vars == <<peerVars, wire, link, sockerr, fd_open, pc, remaining, dest, slots,
          idx_writer, ring_open, heap, live, pushed, readerVars>>

Slot == 0 .. RingSize - 1
Garbage == 0                         \* not from any packet
PacketId == 1 .. MaxPackets
Field == PacketId \cup {Garbage}
Header == [cmd : Field, size : Field]   \* the packet each field came from
NoHeader == [cmd |-> Garbage, size |-> Garbage]
Halves == [1 .. 2 -> Field]
NoHalves == [h \in 1 .. 2 |-> Garbage]
PacketView == [hdr : Header, body : Halves]

RecvrPC == {"poll", "sleep", "header", "route", "body", "discard", "close", "done",
            "exited", "aborted"}

TypeOK ==
  /\ transport \in Transports
  /\ offered \in Seq(Kinds) /\ Len(offered) <= MaxPackets
  /\ partial \in 0 .. 3
  /\ wire \in Seq([id : PacketId, part : 1 .. 4])
  /\ link \in {"open", "eof", "reset"}
  /\ sockerr \in BOOLEAN
  /\ fd_open \in BOOLEAN
  /\ pc \in RecvrPC
  /\ remaining \in 0 .. 2
  /\ dest \in 0 .. MaxPackets
  /\ slots \in [Slot -> [hdr : Header, body : Halves, dataptr : 0 .. MaxPackets]]
  /\ idx_reader \in Slot /\ idx_writer \in Slot
  /\ ring_open \in BOOLEAN
  /\ heap \in Seq(Halves)
  /\ live \subseteq DOMAIN heap
  /\ taken \subseteq DOMAIN heap
  /\ busy \in BOOLEAN /\ stopped \in BOOLEAN
  /\ pushed \in Seq(PacketView) /\ delivered \in Seq(PacketView)

Init ==
  /\ transport \in Transports
  /\ offered = <<>> /\ partial = 0
  /\ wire = <<>> /\ link = "open" /\ sockerr = FALSE /\ fd_open = TRUE
  /\ pc = "poll" /\ remaining = 0 /\ dest = 0
  /\ slots = [s \in Slot |-> [hdr |-> NoHeader, body |-> NoHalves, dataptr |-> 0]]
  /\ idx_reader = 0 /\ idx_writer = 0 /\ ring_open = TRUE
  /\ heap = <<>> /\ live = {} /\ taken = {}
  /\ busy = FALSE /\ stopped = FALSE
  /\ pushed = <<>> /\ delivered = <<>>

BodyUnits(size) == IF size = "bare" THEN 0 ELSE 2
NextIdxNoWrap(i) == IF i = RingSize THEN 0 ELSE i + 1 \* mutant: wraps one slot late
NextIdx(i) == (i + 1) % RingSize
RingIsFull == NextIdx(idx_writer) = idx_reader
CurrentSlot == slots[idx_writer]
CmdOf(hdr) == IF hdr.cmd = Garbage THEN "CALL" ELSE offered[hdr.cmd].cmd
SizeOf(hdr) == IF hdr.size = Garbage THEN "zero" ELSE offered[hdr.size].size
CurrentCmd == CmdOf(CurrentSlot.hdr)
CurrentSize == SizeOf(CurrentSlot.hdr)

-----------------------------------------------------------------------------
(* The peer and the transport.                                             *)

PeerStarts(k) ==
  /\ link = "open"
  /\ partial = 0
  /\ Len(offered) < MaxPackets
  /\ offered' = Append(offered, k)
  /\ wire' = Append(wire, [id |-> Len(offered) + 1, part |-> 1])
  /\ partial' = 1 + BodyUnits(k.size)
  /\ UNCHANGED <<transport, link, sockerr, fd_open, pc, remaining, dest, slots, idx_writer,
                 ring_open, heap, live, pushed, readerVars>>

NextPart ==
  2 + BodyUnits(offered[Len(offered)].size) - partial + 1

PeerContinues ==
  /\ link = "open"
  /\ partial > 0
  /\ wire' = Append(wire, [id |-> Len(offered), part |-> NextPart])
  /\ partial' = partial - 1
  /\ UNCHANGED <<transport, offered, link, sockerr, fd_open, pc, remaining, dest,
                 slots, idx_writer, ring_open, heap, live, pushed, readerVars>>

(***************************************************************************)
(* The peer closes or dies, maybe in the middle of a packet; what it wrote *)
(* can still be read.  After a reset one read fails, later ones see the    *)
(* end of the stream.                                                      *)
(***************************************************************************)
PeerEnds ==
  /\ link = "open"
  /\ link' \in IF MayReset /\ transport = "tcp" THEN {"eof", "reset"} ELSE {"eof"}
  /\ sockerr' = (link' = "reset")
  /\ UNCHANGED <<peerVars, wire, fd_open, pc, remaining, dest, slots, idx_writer,
                 ring_open, heap, live, pushed, readerVars>>

(***************************************************************************)
(* A peer that has closed its socket answers our writes with a reset; the  *)
(* end of the stream remains what a read reports.                          *)
(***************************************************************************)
PeerResets ==
  /\ link = "eof"
  /\ MayReset /\ transport = "tcp"
  /\ link' = "reset"
  /\ UNCHANGED <<peerVars, wire, sockerr, fd_open, pc, remaining, dest, slots,
                 idx_writer, ring_open, heap, live, pushed, readerVars>>

(***************************************************************************)
(* What poll and read report.  POLLHUP needs both directions down on a     *)
(* socket, hence a reset; a pipe has it as soon as its writer is gone.     *)
(***************************************************************************)
PollHup == IF transport = "pipe" THEN link # "open" ELSE link = "reset"
PollIn == wire # <<>> \/ link # "open"
ReadsData == wire # <<>>
ReadFails == wire = <<>> /\ sockerr
ReadsEof == wire = <<>> /\ link # "open" /\ ~sockerr

-----------------------------------------------------------------------------
(* The receiver thread: recvr_tport_to_ring_loop.                          *)

HangupOnEof == \* mutant: the end of the stream counts as a hangup, data or not
  /\ pc = "poll"
  /\ link # "open"
  /\ pc' = "close"
  /\ UNCHANGED <<peerVars, wire, link, sockerr, fd_open, remaining, dest, slots,
                 idx_writer, ring_open, heap, live, pushed, readerVars>>

Hangup ==
  /\ pc = "poll"
  /\ PollHup
  /\ pc' = "close"
  /\ UNCHANGED <<peerVars, wire, link, sockerr, fd_open, remaining, dest, slots,
                 idx_writer, ring_open, heap, live, pushed, readerVars>>

StartPacketAnyway == \* mutant: the result of ring_push_ptr_get is not checked
  /\ pc = "poll"
  /\ ~PollHup
  /\ PollIn
  /\ pc' = "header"
  /\ remaining' = 2
  /\ UNCHANGED <<peerVars, wire, link, sockerr, fd_open, dest, slots, idx_writer,
                 ring_open, heap, live, pushed, readerVars>>

(***************************************************************************)
(* POLLIN: recvr_handle_packet asks for a slot and sleeps on a full ring.  *)
(***************************************************************************)
StartPacket ==
  /\ pc = "poll"
  /\ ~PollHup
  /\ PollIn
  /\ pc' = IF RingIsFull THEN "sleep" ELSE "header"
  /\ remaining' = 2
  /\ UNCHANGED <<peerVars, wire, link, sockerr, fd_open, dest, slots, idx_writer,
                 ring_open, heap, live, pushed, readerVars>>

SleepStays == \* mutant: the sleeping thread waits for a notification
  /\ pc = "sleep"
  /\ ~ring_open
  /\ pc' = "poll"
  /\ UNCHANGED <<peerVars, wire, link, sockerr, fd_open, remaining, dest, slots,
                 idx_writer, ring_open, heap, live, pushed, readerVars>>

SleepOver ==
  /\ pc = "sleep"
  /\ pc' = "poll"
  /\ UNCHANGED <<peerVars, wire, link, sockerr, fd_open, remaining, dest, slots,
                 idx_writer, ring_open, heap, live, pushed, readerVars>>

HeaderRead ==
  /\ pc = "header"
  /\ ReadsData
  /\ slots' = IF remaining = 2
              THEN [slots EXCEPT ![idx_writer].hdr.cmd = Head(wire).id]
              ELSE [slots EXCEPT ![idx_writer].hdr.size = Head(wire).id]
  /\ wire' = Tail(wire)
  /\ remaining' = remaining - 1
  /\ pc' = IF remaining' = 0 THEN "route" ELSE "header"
  /\ UNCHANGED <<peerVars, link, sockerr, fd_open, dest, idx_writer, ring_open, heap,
                 live, pushed, readerVars>>

(***************************************************************************)
(* recvr_read returns the size it was asked for even when the read failed: *)
(* the thread goes on with what the slot held before in the missing part.  *)
(***************************************************************************)
HeaderReadFails ==
  /\ pc = "header"
  /\ ReadFails
  /\ sockerr' = FALSE
  /\ pc' = "route"
  /\ UNCHANGED <<peerVars, wire, link, fd_open, remaining, dest, slots, idx_writer,
                 ring_open, heap, live, pushed, readerVars>>

HeaderEof ==
  /\ pc = "header"
  /\ ReadsEof
  /\ fd_open' = FALSE
  /\ pc' = "close"
  /\ UNCHANGED <<peerVars, wire, link, sockerr, remaining, dest, slots, idx_writer,
                 ring_open, heap, live, pushed, readerVars>>

RouteSmallHeaderOnly == \* mutant: the size is taken to include no body
  /\ pc = "route"
  /\ CurrentSize \in {"bare", "small"}
  /\ dest' = 0
  /\ remaining' = 0
  /\ pc' = "body"
  /\ UNCHANGED <<peerVars, wire, link, sockerr, fd_open, slots, idx_writer,
                 ring_open, heap, live, pushed, readerVars>>

(***************************************************************************)
(* The header is sane and the packet fits the slot.                        *)
(***************************************************************************)
RouteToSlot ==
  /\ pc = "route"
  /\ CurrentSize \in {"bare", "small"}
  /\ dest' = 0
  /\ remaining' = BodyUnits(CurrentSize)
  /\ pc' = "body"
  /\ UNCHANGED <<peerVars, wire, link, sockerr, fd_open, slots, idx_writer,
                 ring_open, heap, live, pushed, readerVars>>

RouteReusesBuffer == \* mutant: the buffer of the previous large packet is used again
  /\ pc = "route"
  /\ CurrentCmd = "SEND_DATA"
  /\ CurrentSize = "large"
  /\ heap' = IF heap = <<>> THEN <<NoHalves>> ELSE heap
  /\ dest' = 1
  /\ live' = {1}
  /\ slots' = [slots EXCEPT ![idx_writer].dataptr = dest']
  /\ remaining' = 2
  /\ pc' = "body"
  /\ UNCHANGED <<peerVars, wire, link, sockerr, fd_open, idx_writer, ring_open,
                 pushed, readerVars>>

(***************************************************************************)
(* A large SEND_DATA gets a buffer, and the slot points to it.             *)
(***************************************************************************)
RouteToBuffer ==
  /\ pc = "route"
  /\ CurrentCmd = "SEND_DATA"
  /\ CurrentSize = "large"
  /\ heap' = Append(heap, NoHalves)
  /\ dest' = Len(heap')
  /\ live' = live \cup {dest'}
  /\ slots' = [slots EXCEPT ![idx_writer].dataptr = dest']
  /\ remaining' = 2
  /\ pc' = "body"
  /\ UNCHANGED <<peerVars, wire, link, sockerr, fd_open, idx_writer, ring_open,
                 pushed, readerVars>>

(***************************************************************************)
(* No memory for it, or not a SEND_DATA.                                   *)
(***************************************************************************)
RouteToDiscard ==
  /\ pc = "route"
  /\ CurrentSize = "large"
  /\ CurrentCmd # "SEND_DATA" \/ MallocMayFail
  /\ remaining' = 2
  /\ pc' = "discard"
  /\ UNCHANGED <<peerVars, wire, link, sockerr, fd_open, dest, slots, idx_writer,
                 ring_open, heap, live, pushed, readerVars>>

(***************************************************************************)
(* assert(c->cmd_size >= sizeof(gls_command_t)): a slot nobody wrote holds *)
(* zeros (a ring of the server's size is fresh pages from malloc).         *)
(***************************************************************************)
RouteAsserts ==
  /\ pc = "route"
  /\ CurrentSize = "zero"
  /\ pc' = "aborted"
  /\ UNCHANGED <<peerVars, wire, link, sockerr, fd_open, remaining, dest, slots,
                 idx_writer, ring_open, heap, live, pushed, readerVars>>

(***************************************************************************)
(* Half h of the body goes where dest points.  The first half of a small   *)
(* packet covers the field that dataptr shares.                            *)
(***************************************************************************)
BodyRead ==
  /\ pc = "body"
  /\ remaining > 0
  /\ ReadsData
  /\ LET h == 3 - remaining
     IN  IF dest = 0
         THEN /\ slots' = [slots EXCEPT ![idx_writer].body[h] = Head(wire).id,
                                        ![idx_writer].dataptr = 0]
              /\ UNCHANGED heap
         ELSE /\ heap' = [heap EXCEPT ![dest][h] = Head(wire).id]
              /\ UNCHANGED slots
  /\ wire' = Tail(wire)
  /\ remaining' = remaining - 1
  /\ UNCHANGED <<peerVars, link, sockerr, fd_open, pc, dest, idx_writer, ring_open,
                 live, pushed, readerVars>>

(***************************************************************************)
(* A failed read counts as a complete one here too.                        *)
(***************************************************************************)
BodyReadFails ==
  /\ pc = "body"
  /\ remaining > 0
  /\ ReadFails
  /\ sockerr' = FALSE
  /\ remaining' = 0
  /\ UNCHANGED <<peerVars, wire, link, fd_open, pc, dest, slots, idx_writer, ring_open,
                 heap, live, pushed, readerVars>>

BodyEofPushes == \* mutant: the end of the stream ends the packet
  /\ pc = "body"
  /\ remaining > 0
  /\ ReadsEof
  /\ remaining' = 0
  /\ UNCHANGED <<peerVars, wire, link, sockerr, fd_open, pc, dest, slots, idx_writer,
                 ring_open, heap, live, pushed, readerVars>>

(***************************************************************************)
(* The stream ends inside a packet: it is not pushed, and a buffer it had  *)
(* is not freed.                                                           *)
(***************************************************************************)
BodyEof ==
  /\ pc = "body"
  /\ remaining > 0
  /\ ReadsEof
  /\ fd_open' = FALSE
  /\ pc' = "close"
  /\ UNCHANGED <<peerVars, wire, link, sockerr, remaining, dest, slots, idx_writer,
                 ring_open, heap, live, pushed, readerVars>>

(***************************************************************************)
(* ring_push_ptr_next, after the zero field of a small SEND_DATA has been  *)
(* cleared.                                                                *)
(***************************************************************************)
PushPacket ==
  /\ pc = "body"
  /\ remaining = 0
  /\ slots' = IF CurrentCmd = "SEND_DATA" /\ CurrentSize # "large"
              THEN [slots EXCEPT ![idx_writer].dataptr = 0] ELSE slots
  /\ pushed' = Append(pushed,
                      [hdr |-> CurrentSlot.hdr,
                       body |-> IF dest = 0 THEN CurrentSlot.body ELSE heap[dest]])
  /\ idx_writer' = NextIdx(idx_writer)
  /\ pc' = "poll"
  /\ UNCHANGED <<peerVars, wire, link, sockerr, fd_open, remaining, dest, ring_open,
                 heap, live, readerVars>>

(***************************************************************************)
(* discard_bytes reads as much as its scratch buffer, the slot, holds and  *)
(* not as much as is left of the packet, which its assertion denies.  The  *)
(* slot is left with payload where its header was.                         *)
(***************************************************************************)
Discard ==
  /\ pc = "discard"
  /\ ReadsData
  /\ \E n \in 1 .. Len(wire) :
       /\ wire' = SubSeq(wire, n + 1, Len(wire))
       /\ remaining' = IF n <= remaining THEN remaining - n ELSE 0
       /\ pc' = IF n > remaining THEN "aborted"
                ELSE IF n = remaining THEN "poll" ELSE "discard"
  /\ \E c, z \in 0 .. Len(offered) :
       slots' = [slots EXCEPT ![idx_writer].hdr = [cmd |-> c, size |-> z]]
  /\ UNCHANGED <<peerVars, link, sockerr, fd_open, dest, idx_writer, ring_open, heap,
                 live, pushed, readerVars>>

(***************************************************************************)
(* The end of the stream while discarding ends the process; an error, as   *)
(* an unsigned size, is larger than what is left.                          *)
(***************************************************************************)
DiscardEof ==
  /\ pc = "discard"
  /\ ReadsEof
  /\ fd_open' = FALSE
  /\ pc' = "exited"
  /\ UNCHANGED <<peerVars, wire, link, sockerr, remaining, dest, slots, idx_writer,
                 ring_open, heap, live, pushed, readerVars>>

DiscardFails ==
  /\ pc = "discard"
  /\ ReadFails
  /\ sockerr' = FALSE
  /\ pc' = "aborted"
  /\ UNCHANGED <<peerVars, wire, link, fd_open, remaining, dest, slots, idx_writer,
                 ring_open, heap, live, pushed, readerVars>>

EndThreadSilently == \* mutant: the ring is left open
  /\ pc = "close"
  /\ pc' = "done"
  /\ UNCHANGED <<peerVars, wire, link, sockerr, fd_open, remaining, dest, slots,
                 idx_writer, ring_open, heap, live, pushed, readerVars>>

(***************************************************************************)
(* ring_writer_close, and the thread is over.                              *)
(***************************************************************************)
EndThread ==
  /\ pc = "close"
  /\ ring_open' = FALSE
  /\ pc' = "done"
  /\ UNCHANGED <<peerVars, wire, link, sockerr, fd_open, remaining, dest, slots,
                 idx_writer, heap, live, pushed, readerVars>>

Receiver ==
  \/ Hangup \/ StartPacket \/ SleepOver
  \/ HeaderRead \/ HeaderReadFails \/ HeaderEof
  \/ RouteToSlot \/ RouteToBuffer \/ RouteToDiscard \/ RouteAsserts
  \/ BodyRead \/ BodyReadFails \/ BodyEof \/ PushPacket
  \/ Discard \/ DiscardEof \/ DiscardFails
  \/ EndThread

-----------------------------------------------------------------------------
(* The reader of the ring, as in module PacketQueue; the process is alive. *)

Alive == pc \notin {"exited", "aborted"}
RingIsEmpty == idx_reader = idx_writer

(***************************************************************************)
(* The handler looks at the packet and, for a large SEND_DATA, takes over  *)
(* the buffer.                                                             *)
(***************************************************************************)
Deliver ==
  /\ Alive
  /\ ~stopped /\ ~busy /\ ~RingIsEmpty
  /\ LET c == slots[idx_reader]
         isLarge == CmdOf(c.hdr) = "SEND_DATA" /\ c.dataptr # 0
     IN  /\ delivered' = Append(delivered,
                                [hdr |-> c.hdr,
                                 body |-> IF isLarge THEN heap[c.dataptr] ELSE c.body])
         /\ taken' = IF isLarge THEN taken \cup {c.dataptr} ELSE taken
  /\ busy' = TRUE
  /\ UNCHANGED <<peerVars, wire, link, sockerr, fd_open, pc, remaining, dest, slots,
                 idx_reader, idx_writer, ring_open, heap, live, stopped, pushed>>

Release ==
  /\ Alive
  /\ busy
  /\ idx_reader' = NextIdx(idx_reader)
  /\ busy' = FALSE
  /\ UNCHANGED <<peerVars, wire, link, sockerr, fd_open, pc, remaining, dest, slots,
                 idx_writer, ring_open, heap, live, stopped, taken, pushed, delivered>>

Stop ==
  /\ Alive
  /\ ~ring_open /\ ~busy /\ ~stopped
  /\ stopped' = TRUE
  /\ UNCHANGED <<peerVars, wire, link, sockerr, fd_open, pc, remaining, dest, slots,
                 idx_reader, idx_writer, ring_open, heap, live, busy, taken, pushed,
                 delivered>>

Reader == Deliver \/ Release \/ Stop

Terminated ==
  /\ pc \in {"exited", "aborted"} \/ stopped
  /\ UNCHANGED vars

Peer == (\E k \in Kinds : PeerStarts(k)) \/ PeerContinues \/ PeerEnds \/ PeerResets

Next == Peer \/ Receiver \/ Reader \/ Terminated

(***************************************************************************)
(* Both threads are scheduled; the peer owes nothing.                      *)
(***************************************************************************)
Fairness == WF_vars(Receiver) /\ WF_vars(Reader)

SafeSpec == Init /\ [][Next]_vars
Spec == SafeSpec /\ Fairness

-----------------------------------------------------------------------------
(* Properties.                                                             *)

(***************************************************************************)
(* Unless the connection is reset, what the receiver pushes are packets of *)
(* the peer, whole, in order and each once: a header and a body never come *)
(* from two packets, nothing is pushed of a packet the stream ended in,    *)
(* and none is passed over but a large one there was no memory for.        *)
(***************************************************************************)
IsPacket(v, id) ==
  /\ v.hdr = [cmd |-> id, size |-> id]
  /\ offered[id].size # "bare" => v.body = [h \in 1 .. 2 |-> id]

MayBeDiscarded(id) == MallocMayFail /\ offered[id].size = "large"
IdPushed(i) == IF i = 0 THEN 0 ELSE pushed[i].hdr.cmd

PushedFaithful ==
  link # "reset" =>
    \A i \in 1 .. Len(pushed) :
      /\ IdPushed(i) > IdPushed(i - 1)
      /\ IsPacket(pushed[i], IdPushed(i))
      /\ \A j \in IdPushed(i - 1) + 1 .. IdPushed(i) - 1 :
           MayBeDiscarded(j)

(***************************************************************************)
(* Between two packets the stream is at a packet boundary: the receiver    *)
(* never takes payload for a header, after a discarded packet either.      *)
(***************************************************************************)
Framing ==
  link # "reset" /\ pc \in {"poll", "sleep"} /\ wire # <<>> => Head(wire).part = 1

(***************************************************************************)
(* The reader sees what was pushed, in order: while a packet waits or is   *)
(* used, the receiver changes neither its slot nor its buffer.             *)
(***************************************************************************)
DeliveredIsPushed ==
  /\ Len(delivered) <= Len(pushed)
  /\ \A i \in 1 .. Len(delivered) : delivered[i] = pushed[i]

(***************************************************************************)
(* Every malloc'd buffer has exactly one owner: the packet being received, *)
(* one queued slot, or the reader.  One is ownerless only when the stream  *)
(* ended inside its packet.                                                *)
(***************************************************************************)
QueuedSlots ==
  LET n == (idx_writer + RingSize - idx_reader) % RingSize
      unread == {k \in 0 .. RingSize - 1 : k < n /\ ~(busy /\ k = 0)}
  IN  {(idx_reader + k) % RingSize : k \in unread}

Owners(b) ==
  {<<"slot", s>> : s \in {q \in QueuedSlots : /\ CmdOf(slots[q].hdr) = "SEND_DATA"
                                             /\ slots[q].dataptr = b}}
  \cup {<<"receiver", d>> : d \in {dest} \cap (IF pc = "body" THEN {b} ELSE {})}
  \cup {<<"reader", d>> : d \in taken \cap {b}}

HeapOwned ==
  \A b \in live :
    \/ Cardinality(Owners(b)) = 1
    \/ Owners(b) = {} /\ ~fd_open /\ b = dest

(***************************************************************************)
(* On a socket an orderly end of the peer loses nothing: when the thread   *)
(* is over, every packet the peer wrote completely has been pushed, but    *)
(* for those discarded.  On a pipe POLLHUP ends the thread with packets    *)
(* unread.                                                                 *)
(***************************************************************************)
Complete == IF partial = 0 THEN Len(offered) ELSE Len(offered) - 1
IsPushed(id) == \E i \in 1 .. Len(pushed) : pushed[i].hdr.cmd = id

EofPushesAll ==
  transport = "tcp" /\ link = "eof" /\ pc = "done" =>
    \A id \in 1 .. Complete : IsPushed(id) \/ MayBeDiscarded(id)

(***************************************************************************)
(* The receiver passes recvr_handle_packet's sanity check on the size of   *)
(* every header ("minimum sanity", recvr.c).                               *)
(***************************************************************************)
HeaderSane == pc = "route" => CurrentSize # "zero"

(***************************************************************************)
(* A packet the peer has written completely to a socket is pushed, however *)
(* full the ring is meanwhile, unless it is discarded, the connection is   *)
(* reset or discarding another one has ended the process.                  *)
(***************************************************************************)
PacketsArrive ==
  \A id \in PacketId :
    (transport = "tcp" /\ Complete >= id /\ ~MayBeDiscarded(id)) ~>
      (IsPushed(id) \/ link = "reset" \/ pc \in {"exited", "aborted"})

(***************************************************************************)
(* When the peer is gone the thread ends, and the ring is closed unless    *)
(* the process is.                                                         *)
(***************************************************************************)
ReceiverEnds ==
  (link # "open") ~> (pc \in {"exited", "aborted"} \/ (pc = "done" /\ ~ring_open))

=============================================================================
