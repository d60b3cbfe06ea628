---------------------------- MODULE RecvrProofs ----------------------------
(***************************************************************************)
(* Proofs about module Recvr, for every ring, every bound on the packets,  *)
(* every set of packet kinds, both transports and every fault.             *)
(***************************************************************************)
EXTENDS Recvr, FiniteSetTheorems, SequenceTheorems, TLAPS

-----------------------------------------------------------------------------
(* The inductive invariant: the stream.                                    *)

Units(id) == 2 + BodyUnits(offered[id].size)

After(u) ==
  IF u.part < Units(u.id) THEN [id |-> u.id, part |-> u.part + 1]
                          ELSE [id |-> u.id + 1, part |-> 1]

(***************************************************************************)
(* The unit the peer writes next, and the one the receiver reads next.     *)
(***************************************************************************)
NextWritten ==
  IF partial = 0 THEN [id |-> Len(offered) + 1, part |-> 1]
                 ELSE [id |-> Len(offered), part |-> NextPart]
UnitAt(i) == IF i = Len(wire) + 1 THEN NextWritten ELSE wire[i]
Due == UnitAt(1)

WireInv ==
  /\ partial > 0 => /\ Len(offered) > 0
                    /\ partial <= 1 + BodyUnits(offered[Len(offered)].size)
  /\ \A i \in 1 .. Len(wire) :
       /\ wire[i].id \in 1 .. Len(offered)
       /\ wire[i].part \in 1 .. Units(wire[i].id)
       /\ UnitAt(i + 1) = After(wire[i])

(***************************************************************************)
(* No read has failed yet: one fails only when nothing is left to read     *)
(* after a reset, and once.                                                *)
(***************************************************************************)
InSync == link # "reset" \/ sockerr \/ wire # <<>>

LinkInv == /\ sockerr => link = "reset"
           /\ link = "reset" => transport = "tcp"
           /\ pc \in {"close", "done"} => link # "open"
           /\ ~fd_open => pc \in {"close", "done", "exited"}

(***************************************************************************)
(* Where the receiver is in a packet agrees with what it reads next.       *)
(***************************************************************************)
HdrId == CurrentSlot.hdr.cmd
HeaderIs(id) == id \in 1 .. Len(offered) /\ CurrentSlot.hdr = [cmd |-> id, size |-> id]
Received == IF dest = 0 THEN CurrentSlot.body ELSE heap[dest]

AtPoll == pc \in {"poll", "sleep"} => Due.part = 1
AtHeader ==
  pc = "header" =>
    \/ /\ remaining = 2 /\ Due.part = 1
       /\ wire # <<>> \/ (link # "open" /\ ~sockerr)
    \/ remaining = 1 /\ Due.part = 2 /\ HdrId = Due.id
AtRoute ==
  pc = "route" =>
    HeaderIs(HdrId) /\ Due = After([id |-> HdrId, part |-> 2])
AtBody ==
  pc = "body" =>
    /\ HeaderIs(HdrId)
    /\ remaining > 0 => Units(HdrId) = 4
    /\ Due = IF remaining = 0 THEN [id |-> HdrId + 1, part |-> 1]
                              ELSE [id |-> HdrId, part |-> 5 - remaining]
    /\ offered[HdrId].size # "bare" =>
         \A h \in 1 .. 2 - remaining : Received[h] = HdrId
AtDiscard ==
  pc = "discard" =>
    /\ Due.part = 5 - remaining
    /\ Due.id \in 1 .. Len(offered) /\ MayBeDiscarded(Due.id)
AtEnd == pc \in {"close", "done"} /\ transport = "tcp" /\ link = "eof" => wire = <<>>

(***************************************************************************)
(* The packet being received: all before it have been pushed or discarded. *)
(***************************************************************************)
Receiving == IF pc \in {"route", "body"} THEN HdrId ELSE Due.id
LastPushed == IdPushed(Len(pushed))
Before(id) ==
  /\ \A i \in 1 .. id - 1 : IsPushed(i) \/ MayBeDiscarded(i)
  /\ LastPushed < id
  /\ \A i \in LastPushed + 1 .. id - 1 : MayBeDiscarded(i)
Behind == pc # "exited" => Receiving \in 1 .. Len(offered) + 1 /\ Before(Receiving)
Allocated ==
  /\ pc \in {"poll", "sleep", "header", "route", "discard"} => Len(heap) < Receiving
  /\ pc = "body" => Len(heap) <= Receiving

Position ==
  InSync /\ pc # "aborted" =>
    /\ AtPoll /\ AtHeader /\ AtRoute /\ AtBody /\ AtDiscard /\ AtEnd
    /\ Behind /\ Allocated

(***************************************************************************)
(* At most one buffer for each packet the peer has begun.                  *)
(***************************************************************************)
HeapBound ==
  /\ Len(heap) <= Len(offered)
  /\ pc = "route" => Len(heap) < Len(offered)

RemainingInv == pc \in {"header", "discard"} => remaining \in 1 .. 2

-----------------------------------------------------------------------------
(* The inductive invariant: the ring and the buffers.                      *)

Occupancy == (idx_writer + RingSize - idx_reader) % RingSize
SlotAt(i, k) == (i + k) % RingSize
Queued(k) == slots[SlotAt(idx_reader, k)]
FirstUnread == IF busy THEN 1 ELSE 0
Unread == {k \in Slot : FirstUnread <= k /\ k < Occupancy}
IsLarge(c) == CmdOf(c.hdr) = "SEND_DATA" /\ c.dataptr # 0
View(c) == [hdr |-> c.hdr, body |-> IF IsLarge(c) THEN heap[c.dataptr] ELSE c.body]

RefsInv ==
  /\ \A s \in Slot :
       /\ slots[s].hdr.cmd \in 0 .. Len(offered) /\ slots[s].hdr.size \in 0 .. Len(offered)
       /\ slots[s].dataptr \in 0 .. Len(heap)
  /\ \A i \in 1 .. Len(pushed) : pushed[i].hdr.cmd \in 0 .. Len(offered)

(***************************************************************************)
(* The slot being filled is not one the reader may look at.                *)
(***************************************************************************)
SlotFree == pc \in {"header", "route", "body", "discard"} => Occupancy < RingSize - 1

DestInv ==
  pc = "body" =>
    /\ dest # 0 => /\ dest \in 1 .. Len(heap)
                   /\ CurrentSlot.dataptr = dest
                   /\ CurrentCmd = "SEND_DATA" /\ CurrentSize = "large"
    /\ dest = 0 => CurrentSize # "large"

(***************************************************************************)
(* What is in the ring is what was pushed last.                            *)
(***************************************************************************)
QueueInv ==
  /\ FirstUnread <= Occupancy
  /\ Len(pushed) = Len(delivered) + Occupancy - FirstUnread
  /\ \A i \in 1 .. Len(delivered) : delivered[i] = pushed[i]
  /\ \A k \in Unread : View(Queued(k)) = pushed[Len(delivered) + 1 + k - FirstUnread]

LargeUnread == {k \in Unread : IsLarge(Queued(k))}

OwnerInv ==
  /\ live = 1 .. Len(heap)
  /\ \A k \in LargeUnread :
       /\ Queued(k).dataptr \notin taken
       /\ pc = "body" => Queued(k).dataptr # dest
       /\ \A m \in LargeUnread : Queued(m).dataptr = Queued(k).dataptr => m = k
  /\ pc = "body" => dest \notin taken
  /\ \A b \in live :
       \/ b \in taken
       \/ pc = "body" /\ dest = b
       \/ \E k \in LargeUnread : Queued(k).dataptr = b
       \/ ~fd_open /\ b = dest

IInv ==
  /\ TypeOK
  /\ WireInv /\ LinkInv /\ Position /\ PushedFaithful /\ HeapBound /\ RemainingInv
  /\ RefsInv /\ SlotFree /\ DestInv /\ QueueInv /\ OwnerInv

-----------------------------------------------------------------------------
(* The stream of units.                                                    *)

LEMMA KindOf ==
  ASSUME TypeOK, NEW id \in 1 .. Len(offered)
  PROVE  /\ offered[id] \in Kind
         /\ Units(id) = IF offered[id].size = "bare" THEN 2 ELSE 4
         /\ BodyUnits(offered[id].size) = Units(id) - 2
  <1>1. offered[id] \in Kind
    BY RecvrAssumption DEF TypeOK
  <1> QED
    BY <1>1 DEF Units, BodyUnits, Kind

LEMMA NextWrittenType ==
  ASSUME TypeOK, WireInv
  PROVE  /\ NextWritten.id \in 1 .. Len(offered) + 1
         /\ NextWritten = [id |-> NextWritten.id, part |-> NextWritten.part]
         /\ partial = 0 => NextWritten.part = 1 /\ NextWritten.id = Len(offered) + 1
         /\ partial > 0 => /\ NextWritten.part \in 2 .. Units(NextWritten.id)
                           /\ NextWritten.id = Len(offered)
  <1>1. Len(offered) \in Nat /\ partial \in Nat
    BY DEF TypeOK
  <1>2. CASE partial = 0
    BY <1>1, <1>2 DEF NextWritten
  <1>3. CASE partial > 0
    <2>1. Len(offered) \in 1 .. Len(offered)
      BY <1>1, <1>3 DEF WireInv
    <2>2. /\ Units(Len(offered)) \in Nat
          /\ partial <= Units(Len(offered)) - 1
          /\ NextPart = Units(Len(offered)) - partial + 1
      BY <1>1, <1>3, <2>1, KindOf DEF WireInv, NextPart
    <2>3. NextWritten = [id |-> Len(offered), part |-> NextPart]
      BY <1>3 DEF NextWritten
    <2>4. NextWritten.id = Len(offered) /\ NextWritten.part = NextPart
      BY <2>3
    <2>5. NextPart \in 2 .. Units(Len(offered))
      BY <1>1, <1>3, <2>2
    <2> QED
      BY <1>1, <1>3, <2>1, <2>3, <2>4, <2>5
  <1> QED
    BY <1>1, <1>2, <1>3

LEMMA DueType ==
  ASSUME TypeOK, WireInv
  PROVE  /\ Due.id \in 1 .. Len(offered) + 1
         /\ Due = [id |-> Due.id, part |-> Due.part]
         /\ Due.part \in Nat
         /\ Due.part # 1 => Due.id <= Len(offered)
         /\ wire # <<>> => /\ Due = Head(wire) /\ Due = wire[1]
                           /\ Due.id \in 1 .. Len(offered)
                           /\ Due.part \in 1 .. Units(Due.id)
         /\ wire = <<>> => Due = NextWritten
  <1>1. Len(offered) \in Nat /\ Len(wire) \in Nat
    BY DEF TypeOK
  <1>2. CASE wire = <<>>
    <2>1. Due = NextWritten
      BY <1>2, EmptySeq DEF Due, UnitAt
    <2>2. NextWritten.part \in Nat
      BY NextWrittenType DEF TypeOK
    <2> QED
      BY <1>1, <1>2, <2>1, <2>2, NextWrittenType DEF TypeOK
  <1>3. CASE wire # <<>>
    <2>1. 1 \in 1 .. Len(wire) /\ Due = wire[1] /\ Due = Head(wire)
      BY <1>1, <1>3, EmptySeq DEF Due, UnitAt, TypeOK
    <2>2. Due \in [id : PacketId, part : 1 .. 4]
      <3>1. wire \in Seq([id : PacketId, part : 1 .. 4])
        BY DEF TypeOK
      <3>2. wire[1] \in [id : PacketId, part : 1 .. 4]
        BY <2>1, <3>1, ElementOfSeq, Zenon
      <3> QED
        BY <2>1, <3>2, Zenon
    <2> QED
      BY <1>1, <1>3, <2>1, <2>2 DEF WireInv
  <1> QED
    BY <1>2, <1>3

(***************************************************************************)
(* Nothing of the stream changes.                                          *)
(***************************************************************************)
LEMMA SameStream ==
  ASSUME UNCHANGED <<peerVars, wire>>
  PROVE  /\ WireInv' <=> WireInv
         /\ Due' = Due
         /\ \A id : MayBeDiscarded(id)' <=> MayBeDiscarded(id)
         /\ \A id : Units(id)' = Units(id)
         /\ \A u : After(u)' = After(u)
  BY DEF peerVars, WireInv, Due, UnitAt, NextWritten, NextPart, After, Units, MayBeDiscarded

(***************************************************************************)
(* The receiver has read n units.                                          *)
(***************************************************************************)
LEMMA ReadStream ==
  ASSUME TypeOK, WireInv, NEW n \in 1 .. Len(wire),
         wire' = SubSeq(wire, n + 1, Len(wire)), UNCHANGED peerVars
  PROVE  /\ WireInv'
         /\ Due' = UnitAt(n + 1)
         /\ wire' \in Seq([id : PacketId, part : 1 .. 4])
  <1> DEFINE Unit == [id : PacketId, part : 1 .. 4]
  <1>1. /\ wire \in Seq(Unit) /\ Len(wire) \in Nat
        /\ n + 1 \in 1 .. Len(wire) + 1 /\ Len(wire) \in n .. Len(wire)
    BY DEF TypeOK
  <1>2. /\ wire' \in Seq(Unit) /\ Len(wire') = Len(wire) - n
        /\ \A i \in 1 .. Len(wire') : wire'[i] = wire[i + n]
    <2>1. \A i \in n + 1 .. Len(wire) : wire[i] \in Unit
      <3> HIDE DEF Unit
      <3> QED
        BY <1>1
    <2>2. /\ SubSeq(wire, n + 1, Len(wire)) \in Seq(Unit)
          /\ Len(SubSeq(wire, n + 1, Len(wire)))
               = IF n + 1 <= Len(wire) THEN Len(wire) - (n + 1) + 1 ELSE 0
          /\ \A i \in 1 .. Len(wire) - (n + 1) + 1 :
               SubSeq(wire, n + 1, Len(wire))[i] = wire[(n + 1) + i - 1]
      BY <1>1, <2>1, SubSeqProperties
    <2>3. Len(wire') = Len(wire) - n
      BY <1>1, <2>2
    <2>4. ASSUME NEW i \in 1 .. Len(wire')
          PROVE  wire'[i] = wire[i + n]
      <3>1. i \in 1 .. Len(wire) - (n + 1) + 1 /\ (n + 1) + i - 1 = i + n
        BY <1>1, <2>3, <2>4
      <3> QED
        BY <2>2, <3>1
    <2> QED
      BY <2>2, <2>3, <2>4
  <1>3. NextWritten' = NextWritten
    BY DEF peerVars, NextWritten, NextPart
  <1>4. ASSUME NEW i \in 1 .. Len(wire') + 1
        PROVE  UnitAt(i)' = UnitAt(i + n)
    <2>1. CASE i = Len(wire') + 1
      BY <1>1, <1>2, <1>3, <2>1 DEF UnitAt
    <2>2. CASE i # Len(wire') + 1
      <3>1. i \in 1 .. Len(wire')
        BY <1>1, <1>2, <2>2
      <3>2. i + n # Len(wire) + 1
        BY <1>1, <1>2, <3>1
      <3>3. UnitAt(i)' = wire'[i]
        BY <2>2 DEF UnitAt
      <3>4. UnitAt(i + n) = wire[i + n]
        BY <3>2 DEF UnitAt
      <3> QED
        BY <1>2, <3>1, <3>3, <3>4
    <2> QED
      BY <2>1, <2>2
  <1>5. \A id : Units(id)' = Units(id)
    BY DEF peerVars, Units
  <1>6. \A u : After(u)' = After(u)
    BY <1>5 DEF After
  <1>7. ASSUME NEW i \in 1 .. Len(wire')
        PROVE  /\ wire'[i].id \in 1 .. Len(offered')
               /\ wire'[i].part \in 1 .. Units(wire[i].id)'
               /\ UnitAt(i + 1)' = After(wire[i])'
    <2>1. i + n \in 1 .. Len(wire) /\ i + 1 \in 1 .. Len(wire') + 1
      BY <1>1, <1>2
    <2>2. wire'[i] = wire[i + n] /\ UnitAt(i + 1)' = UnitAt((i + n) + 1)
      <3>1. wire'[i] = wire[i + n]
        BY <1>2
      <3>2. UnitAt(i + 1)' = UnitAt((i + 1) + n)
        BY <1>4, <2>1
      <3>3. (i + 1) + n = (i + n) + 1
        BY <1>1, <2>1
      <3> QED
        BY <3>1, <3>2, <3>3, Zenon
    <2>3. /\ wire[i + n].id \in 1 .. Len(offered)
          /\ wire[i + n].part \in 1 .. Units(wire[i + n].id)
          /\ UnitAt((i + n) + 1) = After(wire[i + n])
      BY <2>1 DEF WireInv
    <2>4. After(wire[i])' = After(wire[i + n]) /\ Units(wire[i].id)' = Units(wire[i + n].id)
      BY <1>5, <1>6, <2>2
    <2> QED
      BY <2>2, <2>3, <2>4 DEF peerVars
  <1>8. WireInv'
    BY <1>7 DEF WireInv, peerVars
  <1>9. Due' = UnitAt(n + 1)
    BY <1>1, <1>2, <1>4 DEF Due
  <1> QED
    BY <1>2, <1>8, <1>9

LEMMA ReadOne ==
  ASSUME TypeOK, WireInv, wire # <<>>, wire' = Tail(wire), UNCHANGED peerVars
  PROVE  /\ WireInv'
         /\ Due' = After(Due)
         /\ wire' \in Seq([id : PacketId, part : 1 .. 4])
  <1>1. wire \in Seq([id : PacketId, part : 1 .. 4]) /\ 1 \in 1 .. Len(wire)
    BY EmptySeq DEF TypeOK
  <1>2. wire' = SubSeq(wire, 1 + 1, Len(wire))
    BY <1>1, TailIsSubSeq
  <1>3. Due = wire[1] /\ UnitAt(1 + 1) = After(wire[1])
    BY <1>1, DueType DEF WireInv
  <1> QED
    BY <1>1, <1>2, <1>3, ReadStream

(***************************************************************************)
(* The peer writes the next unit.                                          *)
(***************************************************************************)
LEMMA Written ==
  ASSUME TypeOK, WireInv,
         NEW u, u = NextWritten, wire' = Append(wire, u),
         Len(offered') \in Nat, Len(offered) <= Len(offered'),
         \A id \in 1 .. Len(offered) : offered'[id] = offered[id],
         u.id \in 1 .. Len(offered'), u.part \in 1 .. Units(u.id)',
         NextWritten' = After(u)',
         partial' > 0 => /\ Len(offered') > 0
                         /\ partial' <= 1 + BodyUnits(offered'[Len(offered')].size)
  PROVE  WireInv' /\ Due' = Due
  <1>1. /\ wire \in Seq([id : PacketId, part : 1 .. 4]) /\ Len(wire) \in Nat
        /\ Len(offered) \in Nat
    BY DEF TypeOK
  <1>2. /\ Len(wire') = Len(wire) + 1
        /\ \A i \in 1 .. Len(wire) : wire'[i] = wire[i]
        /\ wire'[Len(wire) + 1] = u
    BY <1>1
  <1>3. \A i \in 1 .. Len(wire) + 1 : UnitAt(i)' = UnitAt(i)
    <2> SUFFICES ASSUME NEW i \in 1 .. Len(wire) + 1
                 PROVE  UnitAt(i)' = UnitAt(i)
      OBVIOUS
    <2>1. i # Len(wire') + 1
      BY <1>1, <1>2
    <2> QED
      BY <1>1, <1>2, <2>1 DEF UnitAt
  <1>5. \A id \in 1 .. Len(offered) : Units(id)' = Units(id)
    BY DEF Units
  <1>6. ASSUME NEW i \in 1 .. Len(wire')
        PROVE  /\ wire'[i].id \in 1 .. Len(offered')
               /\ wire'[i].part \in 1 .. Units(wire[i].id)'
               /\ UnitAt(i + 1)' = After(wire[i])'
    <2>1. CASE i = Len(wire) + 1
      <3>1. wire'[i] = u
        BY <1>2, <2>1
      <3>2. UnitAt(i + 1)' = NextWritten'
        BY <1>1, <1>2, <2>1 DEF UnitAt
      <3>3. After(wire[i])' = After(u)' /\ Units(wire[i].id)' = Units(u.id)'
        BY <3>1
      <3> QED
        BY <3>1, <3>2, <3>3
    <2>2. CASE i \in 1 .. Len(wire)
      <3>1. /\ wire[i].id \in 1 .. Len(offered) /\ wire[i].part \in 1 .. Units(wire[i].id)
            /\ UnitAt(i + 1) = After(wire[i])
        BY <2>2 DEF WireInv
      <3>2. wire'[i] = wire[i]
        BY <1>2, <2>2
      <3>3. Units(wire[i].id)' = Units(wire[i].id)
        BY <1>5, <3>1, <3>2
      <3>4. After(wire[i])' = After(wire[i])
        BY <3>2, <3>3 DEF After
      <3>5. i + 1 \in 1 .. Len(wire) + 1
        BY <1>1, <2>2
      <3>6. UnitAt(i + 1)' = UnitAt(i + 1)
        BY <1>3, <3>5
      <3>7. wire'[i].id \in 1 .. Len(offered')
        BY <1>1, <3>1, <3>2
      <3> QED
        BY <3>1, <3>2, <3>3, <3>4, <3>6, <3>7
    <2> QED
      BY <1>1, <1>2, <2>1, <2>2
  <1>7. WireInv'
    BY <1>6 DEF WireInv
  <1>8. Due' = Due
    BY <1>1, <1>3 DEF Due
  <1> QED
    BY <1>7, <1>8

(***************************************************************************)
(* NextWritten when a packet has been begun, from its kind and what of it  *)
(* is not written.                                                         *)
(***************************************************************************)
LEMMA NextWrittenValue ==
  /\ partial = 0 => NextWritten = [id |-> Len(offered) + 1, part |-> 1]
  /\ partial # 0 => NextWritten =
       [id |-> Len(offered),
        part |-> 2 + BodyUnits(offered[Len(offered)].size) - partial + 1]
  BY DEF NextWritten, NextPart

LEMMA PeerStartsStream ==
  ASSUME TypeOK, WireInv, NEW k \in Kinds, PeerStarts(k)
  PROVE  /\ WireInv' /\ Due' = Due
         /\ Len(offered') = Len(offered) + 1
         /\ \A id \in 1 .. Len(offered) : offered'[id] = offered[id]
  <1> SUFFICES ASSUME NEW n, n = Len(offered) + 1,
                      NEW u, u = [id |-> n, part |-> 1],
                      NEW b, b = BodyUnits(k.size)
               PROVE  /\ WireInv' /\ Due' = Due
                      /\ Len(offered') = n
                      /\ \A id \in 1 .. Len(offered) : offered'[id] = offered[id]
    OBVIOUS
  <1>1. /\ offered \in Seq(Kinds) /\ Len(offered) \in Nat /\ partial = 0 /\ k \in Kind
        /\ n \in Nat
    BY RecvrAssumption DEF TypeOK, PeerStarts
  <1>2. /\ Len(offered') = n
        /\ \A id \in 1 .. Len(offered) : offered'[id] = offered[id]
        /\ offered'[n] = k
    BY <1>1, AppendProperties DEF PeerStarts
  <1>3. u = NextWritten /\ wire' = Append(wire, u) /\ partial' = 1 + b
    BY <1>1, NextWrittenValue DEF PeerStarts
  <1>4. b \in {0, 2}
    BY <1>1 DEF Kind, BodyUnits
  <1>5. Units(n)' = 2 + b
    BY <1>2 DEF Units
  <1>6. BodyUnits(offered'[Len(offered')].size) = b
    BY <1>2
  <1>7. NextWritten' = [id |-> n, part |-> 2]
    <2>1. NextWritten' = [id |-> n, part |-> 2 + b - (1 + b) + 1]
      BY <1>2, <1>3, <1>4, <1>6 DEF NextWritten, NextPart
    <2> QED
      BY <1>4, <2>1
  <1>8. After(u)' = [id |-> n, part |-> 2]
    <2>1. u.id = n /\ u.part = 1
      OBVIOUS
    <2>2. Units(u.id)' = 2 + b
      BY <1>5, <2>1
    <2> QED
      BY <1>4, <2>1, <2>2 DEF After
  <1>9. /\ u.id \in 1 .. Len(offered') /\ u.part \in 1 .. Units(u.id)'
        /\ Len(offered') \in Nat /\ Len(offered) <= Len(offered')
    BY <1>1, <1>2, <1>4, <1>5
  <1>10. partial' > 0 => /\ Len(offered') > 0
                         /\ partial' <= 1 + BodyUnits(offered'[Len(offered')].size)
    BY <1>1, <1>2, <1>3, <1>4, <1>6
  <1> QED
    BY <1>2, <1>3, <1>7, <1>8, <1>9, <1>10, Written

LEMMA PeerContinuesStream ==
  ASSUME TypeOK, WireInv, PeerContinues
  PROVE  /\ WireInv' /\ Due' = Due
         /\ UNCHANGED offered
  <1> SUFFICES ASSUME NEW n, n = Len(offered),
                      NEW p, p = partial,
                      NEW u, u = [id |-> n, part |-> NextPart]
               PROVE  WireInv' /\ Due' = Due /\ UNCHANGED offered
    OBVIOUS
  <1>1. /\ offered' = offered /\ n \in 1 .. n /\ n \in Nat
        /\ p \in Nat /\ p > 0 /\ partial' = p - 1
    BY DEF TypeOK, PeerContinues, WireInv
  <1>2. u = NextWritten /\ wire' = Append(wire, u)
    BY <1>1 DEF PeerContinues, NextWritten
  <1>3. Units(n) \in {2, 4} /\ BodyUnits(offered[n].size) = Units(n) - 2
    BY <1>1, KindOf
  <1>4. p <= Units(n) - 1 /\ NextPart = Units(n) - p + 1
    BY <1>1, <1>3 DEF WireInv, NextPart
  <1>5. Units(n)' = Units(n)
    BY <1>1 DEF Units
  <1>6. NextWritten' = IF p = 1 THEN [id |-> n + 1, part |-> 1]
                       ELSE [id |-> n, part |-> Units(n) - (p - 1) + 1]
    BY <1>1, <1>3 DEF NextWritten, NextPart
  <1>7. u.id = n /\ u.part = Units(n) - p + 1
    BY <1>4
  <1>8. After(u)' = IF Units(n) - p + 1 < Units(n)
                    THEN [id |-> n, part |-> Units(n) - p + 1 + 1]
                    ELSE [id |-> n + 1, part |-> 1]
    BY <1>5, <1>7 DEF After
  <1>9. NextWritten' = After(u)'
    BY <1>1, <1>3, <1>4, <1>6, <1>8
  <1>10. u.id \in 1 .. Len(offered') /\ u.part \in 1 .. Units(u.id)'
    <2>1. Units(u.id)' = Units(n)
      BY <1>5, <1>7
    <2>2. Units(n) - p + 1 \in 1 .. Units(n)
      <3>1. Units(n) \in Nat
        BY <1>3
      <3> QED
        BY <1>1, <1>4, <3>1
    <2> QED
      BY <1>1, <1>7, <2>1, <2>2
  <1>11. partial' > 0 => /\ Len(offered') > 0
                         /\ partial' <= 1 + BodyUnits(offered'[Len(offered')].size)
    BY <1>1, <1>3, <1>4
  <1> QED
    BY <1>1, <1>2, <1>9, <1>10, <1>11, Written

-----------------------------------------------------------------------------
(* The ring's indexes, as in the proofs of module Ring.                    *)

LEMMA SlotArith ==
  ASSUME NEW i \in Slot, NEW k \in Slot
  PROVE  /\ SlotAt(i, k) = IF i + k < RingSize THEN i + k ELSE i + k - RingSize
         /\ SlotAt(i, k) \in Slot
  BY RecvrAssumption DEF Slot, SlotAt

LEMMA NextIdxValue ==
  ASSUME NEW i \in Slot
  PROVE  /\ NextIdx(i) = IF i + 1 = RingSize THEN 0 ELSE i + 1
         /\ NextIdx(i) \in Slot
  BY RecvrAssumption DEF Slot, NextIdx

LEMMA OccupancyValue ==
  ASSUME idx_reader \in Slot, idx_writer \in Slot
  PROVE  /\ Occupancy = IF idx_writer >= idx_reader THEN idx_writer - idx_reader
                        ELSE idx_writer + RingSize - idx_reader
         /\ Occupancy \in Slot
         /\ Occupancy = 0 <=> RingIsEmpty
         /\ Occupancy = RingSize - 1 <=> RingIsFull
  <1>1. /\ Occupancy = IF idx_writer >= idx_reader THEN idx_writer - idx_reader
                        ELSE idx_writer + RingSize - idx_reader
        /\ Occupancy \in Slot
    BY RecvrAssumption DEF Slot, Occupancy
  <1> QED
    BY <1>1, NextIdxValue, RecvrAssumption DEF Slot, RingIsEmpty, RingIsFull

(***************************************************************************)
(* The writer's slot comes after the last packet and is none of theirs.    *)
(***************************************************************************)
LEMMA WriterSlot ==
  ASSUME idx_reader \in Slot, idx_writer \in Slot
  PROVE  /\ SlotAt(idx_reader, Occupancy) = idx_writer
         /\ \A k \in Slot : k < Occupancy => SlotAt(idx_reader, k) # idx_writer
  <1>1. SlotAt(idx_reader, Occupancy) = idx_writer
    BY OccupancyValue, SlotArith, RecvrAssumption DEF Slot
  <1>2. ASSUME NEW k \in Slot, k < Occupancy
        PROVE  SlotAt(idx_reader, k) # idx_writer
    <2>1. SlotAt(idx_reader, k) = IF idx_reader + k < RingSize THEN idx_reader + k
                                  ELSE idx_reader + k - RingSize
      BY SlotArith
    <2> QED
      BY <1>2, <2>1, OccupancyValue, RecvrAssumption DEF Slot
  <1> QED
    BY <1>1, <1>2

LEMMA SlotInjective ==
  ASSUME NEW i \in Slot, NEW k \in Slot, NEW m \in Slot, SlotAt(i, k) = SlotAt(i, m)
  PROVE  k = m
  <1>1. /\ SlotAt(i, k) = IF i + k < RingSize THEN i + k ELSE i + k - RingSize
        /\ SlotAt(i, m) = IF i + m < RingSize THEN i + m ELSE i + m - RingSize
    BY SlotArith
  <1>2. /\ RingSize \in Nat /\ i \in Nat /\ k \in Nat /\ m \in Nat
        /\ i < RingSize /\ k < RingSize /\ m < RingSize
    BY RecvrAssumption DEF Slot
  <1>3. (IF i + k < RingSize THEN i + k ELSE i + k - RingSize)
          = (IF i + m < RingSize THEN i + m ELSE i + m - RingSize)
    BY <1>1
  <1> QED
    BY <1>2, <1>3

LEMMA WriterMoves ==
  ASSUME idx_reader \in Slot, idx_writer \in Slot, Occupancy < RingSize - 1,
         idx_writer' = NextIdx(idx_writer), UNCHANGED idx_reader
  PROVE  Occupancy' = Occupancy + 1
  <1>1. idx_writer' \in Slot /\ idx_reader' \in Slot
    BY NextIdxValue
  <1>2. Occupancy' = IF idx_writer' >= idx_reader' THEN idx_writer' - idx_reader'
                     ELSE idx_writer' + RingSize - idx_reader'
    BY <1>1, RecvrAssumption DEF Slot, Occupancy
  <1> QED
    BY <1>1, <1>2, OccupancyValue, NextIdxValue, RecvrAssumption DEF Slot

LEMMA ReaderMoves ==
  ASSUME idx_reader \in Slot, idx_writer \in Slot, Occupancy > 0,
         idx_reader' = NextIdx(idx_reader), UNCHANGED idx_writer
  PROVE  /\ Occupancy' = Occupancy - 1
         /\ \A k \in Slot : k + 1 < RingSize =>
              SlotAt(NextIdx(idx_reader), k) = SlotAt(idx_reader, k + 1)
  <1>1. idx_writer' \in Slot /\ idx_reader' \in Slot
    BY NextIdxValue
  <1>2. Occupancy' = IF idx_writer' >= idx_reader' THEN idx_writer' - idx_reader'
                     ELSE idx_writer' + RingSize - idx_reader'
    BY <1>1, RecvrAssumption DEF Slot, Occupancy
  <1>3. Occupancy' = Occupancy - 1
    BY <1>1, <1>2, OccupancyValue, NextIdxValue, RecvrAssumption DEF Slot
  <1>4. ASSUME NEW k \in Slot, k + 1 < RingSize
        PROVE  SlotAt(NextIdx(idx_reader), k) = SlotAt(idx_reader, k + 1)
    <2>1. k + 1 \in Slot
      BY <1>4, RecvrAssumption DEF Slot
    <2>2. SlotAt(NextIdx(idx_reader), k) = IF NextIdx(idx_reader) + k < RingSize
            THEN NextIdx(idx_reader) + k ELSE NextIdx(idx_reader) + k - RingSize
      BY NextIdxValue, SlotArith
    <2>3. SlotAt(idx_reader, k + 1) = IF idx_reader + (k + 1) < RingSize
            THEN idx_reader + (k + 1) ELSE idx_reader + (k + 1) - RingSize
      BY <2>1, SlotArith
    <2> QED
      BY <1>4, <2>2, <2>3, NextIdxValue, RecvrAssumption DEF Slot
  <1> QED
    BY <1>3, <1>4

-----------------------------------------------------------------------------
(* Type correctness.                                                       *)

Unit == [id : PacketId, part : 1 .. 4]
SlotContent == [hdr : Header, body : Halves, dataptr : 0 .. MaxPackets]

LEMMA CurrentSlotType ==
  ASSUME TypeOK
  PROVE  /\ idx_writer \in Slot /\ CurrentSlot \in SlotContent
         /\ CurrentSlot.hdr \in Header /\ CurrentSlot.body \in Halves
         /\ CurrentSlot.dataptr \in 0 .. MaxPackets
         /\ CurrentSlot.hdr.cmd \in Field /\ CurrentSlot.hdr.size \in Field
  BY DEF TypeOK, CurrentSlot, SlotContent, Header

LEMMA HeadOfWire ==
  ASSUME TypeOK, wire # <<>>
  PROVE  /\ Head(wire) \in Unit /\ Head(wire).id \in Field
         /\ Tail(wire) \in Seq(Unit)
  <1>1. wire \in Seq(Unit)
    BY DEF TypeOK, Unit
  <1>2. Head(wire) \in Unit /\ Tail(wire) \in Seq(Unit)
    BY <1>1, HeadTailProperties
  <1>3. Head(wire).id \in PacketId
    BY <1>2 DEF Unit
  <1> QED
    BY <1>2, <1>3 DEF Field

LEMMA PeerType ==
  ASSUME TypeOK, WireInv, Peer
  PROVE  TypeOK'
  <1>1. ASSUME NEW k \in Kinds, PeerStarts(k)
        PROVE  TypeOK'
    <2>1. /\ offered \in Seq(Kinds) /\ wire \in Seq(Unit) /\ Len(offered) \in Nat
          /\ Len(offered) + 1 \in PacketId /\ k \in Kind
      BY <1>1, RecvrAssumption DEF TypeOK, Unit, PeerStarts, PacketId
    <2>2. [id |-> Len(offered) + 1, part |-> 1] \in Unit
      BY <2>1 DEF Unit
    <2>3. wire' \in Seq(Unit) /\ offered' \in Seq(Kinds) /\ Len(offered') = Len(offered) + 1
      BY <1>1, <2>1, <2>2, AppendProperties DEF PeerStarts
    <2>4. partial' \in 0 .. 3
      BY <1>1, <2>1 DEF PeerStarts, BodyUnits, Kind
    <2>5. Len(offered') <= MaxPackets
      BY <1>1, <2>1, <2>3, RecvrAssumption DEF PeerStarts
    <2> QED
      BY <1>1, <2>3, <2>4, <2>5 DEF TypeOK, PeerStarts, Unit, readerVars
  <1>2. CASE PeerContinues
    <2>0. partial > 0 /\ partial # 0 /\ Len(offered) > 0 /\ Len(offered) \in Nat
      BY <1>2 DEF PeerContinues, TypeOK, WireInv
    <2>1. /\ NextWritten = [id |-> Len(offered), part |-> NextPart]
          /\ NextWritten.part \in 2 .. Units(NextWritten.id)
          /\ Len(offered) \in 1 .. Len(offered) /\ Len(offered) \in PacketId
          /\ NextWritten.id = Len(offered)
      <3>1. NextWritten = [id |-> Len(offered), part |-> NextPart]
        BY <2>0 DEF NextWritten
      <3>2. NextWritten.part \in 2 .. Units(NextWritten.id) /\ NextWritten.id = Len(offered)
        BY <2>0, NextWrittenType
      <3> QED
        BY <2>0, <3>1, <3>2, RecvrAssumption DEF TypeOK, PacketId
    <2>2. Units(Len(offered)) \in {2, 4}
      BY <2>1, KindOf
    <2>3. NextPart \in 1 .. 4
      <3>1. NextPart = NextWritten.part
        BY <2>1
      <3> QED
        BY <2>1, <2>2, <3>1
    <2>4. [id |-> Len(offered), part |-> NextPart] \in Unit
      BY <2>1, <2>3 DEF Unit
    <2>5. wire' \in Seq(Unit)
      <3>1. wire \in Seq(Unit)
        BY DEF TypeOK, Unit
      <3> QED
        BY <1>2, <2>4, <3>1, AppendProperties DEF PeerContinues
    <2>6. partial' \in 0 .. 3
      BY <1>2 DEF PeerContinues, TypeOK
    <2> QED
      BY <1>2, <2>5, <2>6 DEF TypeOK, PeerContinues, Unit, readerVars
  <1>3. CASE PeerEnds \/ PeerResets
    BY <1>3 DEF PeerEnds, PeerResets, TypeOK, peerVars, readerVars
  <1> QED
    BY <1>1, <1>2, <1>3 DEF Peer

(***************************************************************************)
(* The steps of the receiver that leave all data alone.                    *)
(***************************************************************************)
Idle ==
  \/ Hangup \/ StartPacket \/ SleepOver \/ HeaderReadFails \/ HeaderEof
  \/ RouteToSlot \/ RouteToDiscard \/ RouteAsserts \/ BodyReadFails \/ BodyEof
  \/ DiscardEof \/ DiscardFails \/ EndThread

LEMMA ControlType ==
  ASSUME TypeOK,
         UNCHANGED <<peerVars, wire, slots, idx_writer, heap, live, pushed, readerVars>>,
         link' = link, sockerr' \in BOOLEAN, fd_open' \in BOOLEAN, pc' \in RecvrPC,
         remaining' \in 0 .. 2, dest' \in 0 .. MaxPackets, ring_open' \in BOOLEAN
  PROVE  TypeOK'
  BY DEF TypeOK, peerVars, readerVars

LEMMA IdleType ==
  ASSUME TypeOK, Idle
  PROVE  TypeOK'
  <1> DEFINE Controls ==
        /\ UNCHANGED <<peerVars, wire, slots, idx_writer, heap, live, pushed, readerVars>>
        /\ link' = link /\ sockerr' \in BOOLEAN /\ fd_open' \in BOOLEAN /\ pc' \in RecvrPC
        /\ remaining' \in 0 .. 2 /\ dest' \in 0 .. MaxPackets /\ ring_open' \in BOOLEAN
  <1>0. /\ sockerr \in BOOLEAN /\ fd_open \in BOOLEAN /\ pc \in RecvrPC
        /\ remaining \in 0 .. 2 /\ dest \in 0 .. MaxPackets /\ ring_open \in BOOLEAN
    BY DEF TypeOK
  <1>1. Controls => TypeOK'
    BY ControlType
  <1>7. CASE Hangup \/ StartPacket \/ SleepOver
    BY <1>0, <1>1, <1>7 DEF Hangup, StartPacket, SleepOver, RecvrPC
  <1>2. CASE HeaderReadFails \/ HeaderEof
    BY <1>0, <1>1, <1>2 DEF HeaderReadFails, HeaderEof, RecvrPC
  <1>3. CASE RouteToSlot
    <2>1. BodyUnits(CurrentSize) \in 0 .. 2
      BY DEF BodyUnits
    <2> QED
      BY <1>0, <1>1, <1>3, <2>1, RecvrAssumption DEF RouteToSlot, RecvrPC
  <1>4. CASE RouteToDiscard \/ RouteAsserts
    BY <1>0, <1>1, <1>4 DEF RouteToDiscard, RouteAsserts, RecvrPC
  <1>5. CASE BodyReadFails
    <2>1. UNCHANGED <<peerVars, wire, slots, idx_writer, heap, live, pushed, readerVars>>
      BY <1>5 DEF BodyReadFails
    <2>2. /\ link' = link /\ fd_open' = fd_open /\ pc' = pc
          /\ dest' = dest /\ ring_open' = ring_open
      BY <1>5 DEF BodyReadFails
    <2>3. sockerr' \in BOOLEAN
      BY <1>5 DEF BodyReadFails
    <2>4. remaining' \in 0 .. 2
      BY <1>5 DEF BodyReadFails
    <2> QED
      BY <1>0, <1>1, <2>1, <2>2, <2>3, <2>4
  <1>8. CASE BodyEof
    BY <1>0, <1>1, <1>8 DEF BodyEof, RecvrPC
  <1>6. CASE DiscardEof \/ DiscardFails \/ EndThread
    BY <1>0, <1>1, <1>6 DEF DiscardEof, DiscardFails, EndThread, RecvrPC
  <1> QED
    BY <1>1, <1>2, <1>3, <1>4, <1>5, <1>6, <1>7, <1>8 DEF Idle

LEMMA HeaderReadType ==
  ASSUME TypeOK, RemainingInv, HeaderRead
  PROVE  TypeOK'
  <1>1. wire # <<>> /\ remaining \in 1 .. 2
    BY DEF HeaderRead, ReadsData, RemainingInv
  <1>2. wire' \in Seq(Unit) /\ Head(wire).id \in Field
    BY <1>1, HeadOfWire DEF HeaderRead
  <1>3. slots' \in [Slot -> SlotContent]
    <2>1. slots \in [Slot -> SlotContent]
      BY DEF TypeOK, SlotContent
    <2> QED
      BY <1>2, <2>1 DEF HeaderRead, SlotContent, Header
  <1>4. remaining' \in 0 .. 2 /\ pc' \in RecvrPC
    BY <1>1 DEF HeaderRead, RecvrPC
  <1> QED
    BY <1>2, <1>3, <1>4 DEF HeaderRead, TypeOK, Unit, SlotContent, peerVars, readerVars

LEMMA RouteToBufferType ==
  ASSUME TypeOK, HeapBound, RouteToBuffer
  PROVE  TypeOK'
  <1>1. heap \in Seq(Halves) /\ Len(heap) \in Nat /\ NoHalves \in Halves
    BY DEF TypeOK, NoHalves, Halves, Field
  <1>2. /\ heap' \in Seq(Halves) /\ Len(heap') = Len(heap) + 1
        /\ heap' = Append(heap, NoHalves)
    BY <1>1, AppendProperties DEF RouteToBuffer
  <1>3. dest' = Len(heap) + 1 /\ dest' \in 0 .. MaxPackets
    BY <1>1, <1>2, RecvrAssumption DEF RouteToBuffer, HeapBound, TypeOK
  <1>4. live' \subseteq DOMAIN heap' /\ taken \subseteq DOMAIN heap'
    <2>1. DOMAIN heap = 1 .. Len(heap) /\ DOMAIN heap' = 1 .. Len(heap')
      BY <1>1, <1>2, LenProperties
    <2> QED
      BY <1>1, <1>2, <1>3, <2>1 DEF RouteToBuffer, TypeOK
  <1>5. slots' \in [Slot -> SlotContent]
    <2>1. slots \in [Slot -> SlotContent]
      BY DEF TypeOK, SlotContent
    <2> QED
      BY <1>3, <2>1 DEF RouteToBuffer, SlotContent
  <1>6. remaining' \in 0 .. 2 /\ pc' \in RecvrPC
    BY DEF RouteToBuffer, RecvrPC
  <1> QED
    BY <1>2, <1>3, <1>4, <1>5, <1>6
    DEF RouteToBuffer, TypeOK, SlotContent, peerVars, readerVars

LEMMA BodyReadType ==
  ASSUME TypeOK, DestInv, BodyRead
  PROVE  TypeOK'
  <1>1. wire # <<>> /\ remaining \in 1 .. 2 /\ 3 - remaining \in 1 .. 2
    BY DEF BodyRead, ReadsData, TypeOK
  <1>2. wire' \in Seq(Unit) /\ Head(wire).id \in Field
    BY <1>1, HeadOfWire DEF BodyRead
  <1>3. slots \in [Slot -> SlotContent] /\ heap \in Seq(Halves)
    BY DEF TypeOK, SlotContent
  <1>4. remaining' \in 0 .. 2
    BY <1>1 DEF BodyRead
  <1>5. CASE dest = 0
    <2>1. slots' \in [Slot -> SlotContent]
      <3> SUFFICES ASSUME NEW s \in Slot
                   PROVE  slots'[s] \in SlotContent
        BY <1>3, <1>5 DEF BodyRead
      <3>1. /\ CurrentSlot \in SlotContent /\ CurrentSlot.body \in Halves
            /\ [CurrentSlot.body EXCEPT ![3 - remaining] = Head(wire).id] \in Halves
        BY <1>1, <1>2, CurrentSlotType DEF Halves
      <3>2. slots'[idx_writer] = [CurrentSlot EXCEPT
               !.body = [CurrentSlot.body EXCEPT ![3 - remaining] = Head(wire).id],
               !.dataptr = 0]
        BY <1>3, <1>5, CurrentSlotType DEF BodyRead, CurrentSlot
      <3>3. slots'[idx_writer] \in SlotContent
        <4>1. \A c \in SlotContent, b \in Halves, d \in 0 .. MaxPackets :
                [c EXCEPT !.body = b, !.dataptr = d] \in SlotContent
          BY DEF SlotContent
        <4>2. 0 \in 0 .. MaxPackets
          BY RecvrAssumption
        <4> QED
          <5>1. [CurrentSlot EXCEPT
                   !.body = [CurrentSlot.body EXCEPT ![3 - remaining] = Head(wire).id],
                   !.dataptr = 0] \in SlotContent
            BY <3>1, <4>1, <4>2, Zenon
          <5> QED
            BY <3>2, <5>1, Zenon
      <3>4. s # idx_writer => slots'[s] = slots[s]
        BY <1>3, <1>5 DEF BodyRead
      <3> QED
        BY <1>3, <3>3, <3>4
    <2>2. heap' = heap
      BY <1>5 DEF BodyRead
    <2> QED
      BY <1>2, <1>4, <2>1, <2>2
      DEF BodyRead, TypeOK, Unit, SlotContent, peerVars, readerVars
  <1>6. CASE dest # 0
    <2>1. dest \in 1 .. Len(heap)
      BY <1>6 DEF BodyRead, DestInv
    <2>2. heap' = [heap EXCEPT ![dest] = [heap[dest] EXCEPT ![3 - remaining] = Head(wire).id]]
      BY <1>6 DEF BodyRead
    <2>3. heap[dest] \in Halves
      BY <1>3, <2>1, ElementOfSeq
    <2>4. [heap[dest] EXCEPT ![3 - remaining] = Head(wire).id] \in Halves
      BY <1>1, <1>2, <2>3 DEF Halves
    <2>5. heap' \in Seq(Halves) /\ Len(heap') = Len(heap)
      BY <1>3, <2>1, <2>2, <2>4, ExceptSeq
    <2>6. DOMAIN heap' = DOMAIN heap
      BY <2>2
    <2>7. slots' = slots
      BY <1>6 DEF BodyRead
    <2> QED
      BY <1>2, <1>4, <2>5, <2>6, <2>7
      DEF BodyRead, TypeOK, Unit, SlotContent, peerVars, readerVars
  <1> QED
    BY <1>5, <1>6

LEMMA PushPacketType ==
  ASSUME TypeOK, DestInv, PushPacket
  PROVE  TypeOK'
  <1>1. slots \in [Slot -> SlotContent] /\ heap \in Seq(Halves) /\ pushed \in Seq(PacketView)
    BY DEF TypeOK, SlotContent
  <1>2. slots' \in [Slot -> SlotContent]
    <2>1. 0 \in 0 .. MaxPackets
      BY RecvrAssumption
    <2>2. [slots EXCEPT ![idx_writer].dataptr = 0] \in [Slot -> SlotContent]
      BY <1>1, <2>1 DEF SlotContent
    <2> QED
      BY <1>1, <2>2 DEF PushPacket
  <1>3. (IF dest = 0 THEN CurrentSlot.body ELSE heap[dest]) \in Halves
    <2>1. CASE dest = 0
      BY <2>1, CurrentSlotType
    <2>2. CASE dest # 0
      BY <1>1, <2>2, ElementOfSeq DEF DestInv, PushPacket
    <2> QED
      BY <2>1, <2>2
  <1>4. pushed' \in Seq(PacketView)
    <2>1. [hdr |-> CurrentSlot.hdr,
           body |-> IF dest = 0 THEN CurrentSlot.body ELSE heap[dest]] \in PacketView
      BY <1>3, CurrentSlotType DEF PacketView
    <2> QED
      BY <1>1, <2>1, AppendProperties DEF PushPacket
  <1>5. idx_writer' \in Slot /\ pc' \in RecvrPC
    BY NextIdxValue DEF PushPacket, TypeOK, RecvrPC
  <1> QED
    BY <1>2, <1>4, <1>5 DEF PushPacket, TypeOK, SlotContent, peerVars, readerVars

LEMMA DiscardType ==
  ASSUME TypeOK, RemainingInv, Discard
  PROVE  TypeOK'
  <1>1. PICK n \in 1 .. Len(wire) :
          /\ wire' = SubSeq(wire, n + 1, Len(wire))
          /\ remaining' = IF n <= remaining THEN remaining - n ELSE 0
          /\ pc' = IF n > remaining THEN "aborted"
                   ELSE IF n = remaining THEN "poll" ELSE "discard"
    BY DEF Discard
  <1>2. PICK c \in 0 .. Len(offered), z \in 0 .. Len(offered) :
          slots' = [slots EXCEPT ![idx_writer].hdr = [cmd |-> c, size |-> z]]
    BY DEF Discard
  <1>3. wire' \in Seq(Unit)
    <2>1. wire \in Seq(Unit) /\ Len(wire) \in Nat
      BY DEF TypeOK, Unit
    <2>2. \A i \in n + 1 .. Len(wire) : wire[i] \in Unit
      BY <2>1
    <2> QED
      BY <1>1, <2>1, <2>2, SubSeqProperties
  <1>4. remaining' \in 0 .. 2 /\ pc' \in RecvrPC
    BY <1>1 DEF TypeOK, RecvrPC
  <1>5. slots' \in [Slot -> SlotContent]
    <2>1. slots \in [Slot -> SlotContent]
      BY DEF TypeOK, SlotContent
    <2>2. c \in Field /\ z \in Field
      BY RecvrAssumption DEF TypeOK, Field, PacketId, Garbage
    <2> QED
      BY <1>2, <2>1, <2>2 DEF SlotContent, Header
  <1> QED
    BY <1>3, <1>4, <1>5 DEF Discard, TypeOK, Unit, SlotContent, peerVars, readerVars

LEMMA ReaderType ==
  ASSUME TypeOK, RefsInv, Reader
  PROVE  TypeOK'
  <1>1. CASE Deliver
    <2> DEFINE c == slots[idx_reader]
               large == CmdOf(c.hdr) = "SEND_DATA" /\ c.dataptr # 0
    <2>1. /\ c \in SlotContent /\ c.hdr \in Header /\ c.body \in Halves
          /\ c.dataptr \in 0 .. Len(heap)
      BY DEF TypeOK, SlotContent, RefsInv
    <2>2. heap \in Seq(Halves) /\ DOMAIN heap = 1 .. Len(heap) /\ Len(heap) \in Nat
      BY LenProperties DEF TypeOK
    <2>3. large => c.dataptr \in DOMAIN heap /\ heap[c.dataptr] \in Halves
      BY <2>1, <2>2, ElementOfSeq
    <2>4. [hdr |-> c.hdr, body |-> IF large THEN heap[c.dataptr] ELSE c.body] \in PacketView
      BY <2>1, <2>3 DEF PacketView
    <2>5. delivered' \in Seq(PacketView)
      <3>1. delivered \in Seq(PacketView)
        BY DEF TypeOK
      <3> QED
        BY <1>1, <2>4, <3>1, AppendProperties DEF Deliver
    <2>6. taken' \subseteq DOMAIN heap
      BY <1>1, <2>3 DEF Deliver, TypeOK
    <2> HIDE DEF c, large
    <2> QED
      BY <1>1, <2>5, <2>6 DEF Deliver, TypeOK, peerVars, readerVars
  <1>2. CASE Release
    <2>1. idx_reader' \in Slot
      BY <1>2, NextIdxValue DEF Release, TypeOK
    <2> QED
      BY <1>2, <2>1 DEF Release, TypeOK, peerVars, readerVars
  <1>3. CASE Stop
    BY <1>3 DEF Stop, TypeOK, peerVars, readerVars
  <1> QED
    BY <1>1, <1>2, <1>3 DEF Reader

LEMMA StepType ==
  ASSUME IInv, [Next]_vars
  PROVE  TypeOK'
  <1>1. CASE Peer
    BY <1>1, PeerType DEF IInv
  <1>2. CASE Idle
    BY <1>2, IdleType DEF IInv
  <1>3. CASE HeaderRead \/ RouteToBuffer \/ BodyRead \/ PushPacket \/ Discard
    BY <1>3, HeaderReadType, RouteToBufferType, BodyReadType, PushPacketType, DiscardType
    DEF IInv
  <1>4. CASE Reader
    BY <1>4, ReaderType DEF IInv
  <1>5. CASE UNCHANGED vars
    BY <1>5 DEF IInv, TypeOK, vars, peerVars, readerVars
  <1> QED
    BY <1>1, <1>2, <1>3, <1>4, <1>5 DEF Next, Receiver, Idle, Terminated

-----------------------------------------------------------------------------
(* What a kind of step leaves alone.                                       *)

LEMMA PeerFrame ==
  ASSUME Peer
  PROVE  /\ UNCHANGED <<transport, fd_open, pc, remaining, dest, slots, idx_writer, ring_open,
                        heap, live, pushed, readerVars>>
         /\ link = "open" \/ (link = "eof" /\ UNCHANGED <<peerVars, wire, sockerr>>)
  BY DEF Peer, PeerStarts, PeerContinues, PeerEnds, PeerResets, peerVars

LEMMA IdleFrame ==
  ASSUME Idle
  PROVE  UNCHANGED <<peerVars, wire, link, slots, idx_writer, heap, live, pushed, readerVars>>
  BY DEF Idle, Hangup, StartPacket, SleepOver, HeaderReadFails, HeaderEof, RouteToSlot,
    RouteToDiscard, RouteAsserts, BodyReadFails, BodyEof, DiscardEof, DiscardFails, EndThread

LEMMA ReaderFrame ==
  ASSUME Reader
  PROVE  UNCHANGED <<peerVars, wire, link, sockerr, fd_open, pc, remaining, dest, slots,
                     idx_writer, ring_open, heap, live, pushed>>
  BY DEF Reader, Deliver, Release, Stop

(***************************************************************************)
(* What is known of offered packets when the peer has taken a step.        *)
(***************************************************************************)
LEMMA PeerStream ==
  ASSUME TypeOK, WireInv, Peer
  PROVE  /\ WireInv' /\ Due' = Due
         /\ Len(offered') \in Nat /\ Len(offered) <= Len(offered')
         /\ \A id \in 1 .. Len(offered) : offered'[id] = offered[id]
  <1>1. Len(offered) \in Nat
    BY DEF TypeOK
  <1>2. ASSUME NEW k \in Kinds, PeerStarts(k)
        PROVE  /\ WireInv' /\ Due' = Due
               /\ Len(offered') \in Nat /\ Len(offered) <= Len(offered')
               /\ \A id \in 1 .. Len(offered) : offered'[id] = offered[id]
    BY <1>1, <1>2, PeerStartsStream
  <1>3. CASE PeerContinues
    BY <1>1, <1>3, PeerContinuesStream
  <1>4. CASE PeerEnds \/ PeerResets
    <2>1. UNCHANGED <<peerVars, wire>>
      BY <1>4 DEF PeerEnds, PeerResets
    <2> QED
      BY <1>1, <2>1, SameStream DEF peerVars
  <1> QED
    BY <1>2, <1>3, <1>4 DEF Peer

LEMMA StepWire ==
  ASSUME IInv, [Next]_vars
  PROVE  WireInv'
  <1> USE DEF IInv
  <1>1. CASE Peer
    BY <1>1, PeerStream
  <1>2. CASE HeaderRead \/ BodyRead
    BY <1>2, ReadOne DEF HeaderRead, BodyRead, ReadsData
  <1>3. CASE Discard
    BY <1>3, ReadStream DEF Discard
  <1>4. CASE Idle \/ Reader \/ RouteToBuffer \/ PushPacket \/ UNCHANGED vars
    <2>1. UNCHANGED <<peerVars, wire>>
      BY <1>4, IdleFrame, ReaderFrame DEF RouteToBuffer, PushPacket, vars
    <2> QED
      BY <2>1, SameStream
  <1> QED
    BY <1>1, <1>2, <1>3, <1>4 DEF Next, Receiver, Idle, Terminated

LEMMA StepLink ==
  ASSUME IInv, [Next]_vars
  PROVE  LinkInv' /\ RemainingInv'
  <1> USE DEF IInv, LinkInv, RemainingInv
  <1>0. remaining \in 0 .. 2 /\ sockerr \in BOOLEAN /\ link \in {"open", "eof", "reset"}
    BY DEF TypeOK
  <1>1. CASE Peer
    <2>1. LinkInv'
      BY <1>0, <1>1
      DEF Peer, PeerStarts, PeerContinues, PeerEnds, PeerResets, peerVars
    <2> QED
      BY <1>1, <2>1, PeerFrame
  <1>2. CASE HeaderRead
    BY <1>2 DEF HeaderRead, peerVars
  <1>3. CASE RouteToBuffer \/ BodyRead \/ PushPacket
    BY <1>3 DEF RouteToBuffer, BodyRead, PushPacket, peerVars
  <1>4. CASE Discard
    <2> PICK n \in 1 .. Len(wire) :
          /\ remaining' = IF n <= remaining THEN remaining - n ELSE 0
          /\ pc' = IF n > remaining THEN "aborted"
                   ELSE IF n = remaining THEN "poll" ELSE "discard"
      BY <1>4 DEF Discard
    <2>1. LinkInv'
      BY <1>4 DEF Discard, peerVars
    <2>3. Len(wire) \in Nat /\ pc' # "header"
      BY DEF TypeOK
    <2>2. pc' = "discard" => n <= remaining /\ n # remaining
      BY <1>0, <2>3
    <2> QED
      BY <1>0, <2>1, <2>2, <2>3
  <1>5. CASE Hangup \/ StartPacket \/ SleepOver \/ HeaderReadFails \/ HeaderEof
    BY <1>0, <1>5 DEF Hangup, PollHup, StartPacket, SleepOver, HeaderReadFails, HeaderEof,
      ReadsEof, peerVars
  <1>6. CASE RouteToSlot \/ RouteToDiscard \/ RouteAsserts
    BY <1>0, <1>6 DEF RouteToSlot, RouteToDiscard, RouteAsserts, peerVars
  <1>7. CASE BodyReadFails \/ BodyEof \/ DiscardEof \/ DiscardFails \/ EndThread
    BY <1>0, <1>7 DEF BodyReadFails, BodyEof, ReadsEof, DiscardEof, DiscardFails, EndThread,
      peerVars
  <1>8. CASE Reader \/ UNCHANGED vars
    BY <1>8, ReaderFrame DEF vars, peerVars
  <1> QED
    BY <1>1, <1>2, <1>3, <1>4, <1>5, <1>6, <1>7, <1>8 DEF Next, Receiver, Terminated

-----------------------------------------------------------------------------
(* The slots of the ring.                                                  *)

(***************************************************************************)
(* What a header says does not change as the peer goes on.                 *)
(***************************************************************************)
LEMMA KindStable ==
  ASSUME \A id \in 1 .. Len(offered) : offered'[id] = offered[id],
         NEW h, h.cmd \in 0 .. Len(offered), h.size \in 0 .. Len(offered),
         Len(offered) \in Nat
  PROVE  CmdOf(h)' = CmdOf(h) /\ SizeOf(h)' = SizeOf(h)
  <1>1. h.cmd # Garbage => offered'[h.cmd] = offered[h.cmd]
    BY DEF Garbage
  <1>2. h.size # Garbage => offered'[h.size] = offered[h.size]
    BY DEF Garbage
  <1> QED
    BY <1>1, <1>2 DEF CmdOf, SizeOf

LEMMA HeadRefs ==
  ASSUME TypeOK, WireInv, wire # <<>>
  PROVE  Head(wire).id \in 1 .. Len(offered)
  BY DueType

(***************************************************************************)
(* A half of a small body goes into the slot at idx_writer.                *)
(***************************************************************************)
LEMMA FilledSlot ==
  ASSUME TypeOK, BodyRead, dest = 0
  PROVE  /\ \A s \in Slot : s # idx_writer => slots'[s] = slots[s]
         /\ \A s \in Slot : slots'[s].hdr = slots[s].hdr
         /\ slots'[idx_writer] = [CurrentSlot EXCEPT
              !.body = [CurrentSlot.body EXCEPT ![3 - remaining] = Head(wire).id],
              !.dataptr = 0]
         /\ slots'[idx_writer].dataptr = 0
         /\ heap' = heap
  <1>1. /\ slots \in [Slot -> SlotContent] /\ idx_writer \in Slot
        /\ CurrentSlot \in SlotContent
    BY CurrentSlotType DEF TypeOK, SlotContent
  <1>2. slots'[idx_writer] = [CurrentSlot EXCEPT
          !.body = [CurrentSlot.body EXCEPT ![3 - remaining] = Head(wire).id],
          !.dataptr = 0]
    BY <1>1 DEF BodyRead, CurrentSlot
  <1>3. \A s \in Slot : s # idx_writer => slots'[s] = slots[s]
    BY <1>1 DEF BodyRead
  <1>4. \A c \in SlotContent : \A b :
          /\ [c EXCEPT !.body = b, !.dataptr = 0].hdr = c.hdr
          /\ [c EXCEPT !.body = b, !.dataptr = 0].dataptr = 0
    BY DEF SlotContent
  <1>5. slots'[idx_writer].hdr = CurrentSlot.hdr /\ slots'[idx_writer].dataptr = 0
    BY <1>1, <1>2, <1>4
  <1>6. \A s \in Slot : slots'[s].hdr = slots[s].hdr
    BY <1>3, <1>5 DEF CurrentSlot
  <1>7. heap' = heap
    BY DEF BodyRead
  <1> QED
    BY <1>2, <1>3, <1>5, <1>6, <1>7

LEMMA StepRefs ==
  ASSUME IInv, [Next]_vars
  PROVE  RefsInv'
  <1> USE DEF IInv
  <1>0. /\ Len(offered) \in Nat /\ Len(heap) \in Nat /\ idx_writer \in Slot
        /\ slots \in [Slot -> SlotContent] /\ heap \in Seq(Halves)
    BY DEF TypeOK, SlotContent
  <1>1. CASE Peer
    BY <1>0, <1>1, PeerStream, PeerFrame DEF RefsInv
  <1>2. CASE HeaderRead
    <2>1. Head(wire).id \in 0 .. Len(offered)
      BY <1>0, <1>2, HeadRefs DEF HeaderRead, ReadsData
    <2> QED
      BY <1>0, <1>2, <2>1 DEF HeaderRead, RefsInv, SlotContent, Header, peerVars
  <1>3. CASE RouteToBuffer
    <2>1. Len(heap') = Len(heap) + 1 /\ dest' = Len(heap) + 1
      BY <1>0, <1>3, AppendProperties DEF RouteToBuffer, NoHalves, Halves, Field
    <2>2. \A s \in Slot : /\ slots'[s].hdr = slots[s].hdr
                          /\ slots'[s].dataptr \in {slots[s].dataptr, Len(heap) + 1}
      BY <1>0, <1>3, <2>1 DEF RouteToBuffer, SlotContent
    <2>3. /\ Len(heap) + 1 \in 0 .. Len(heap')
          /\ \A d \in 0 .. Len(heap) : d \in 0 .. Len(heap')
          /\ UNCHANGED <<offered, pushed>>
      BY <1>0, <1>3, <2>1 DEF RouteToBuffer, peerVars
    <2>4. \A s \in Slot : slots'[s].dataptr \in 0 .. Len(heap')
      BY <2>2, <2>3 DEF RefsInv
    <2>5. \A s \in Slot : /\ slots'[s].hdr.cmd \in 0 .. Len(offered')
                          /\ slots'[s].hdr.size \in 0 .. Len(offered')
      BY <2>2, <2>3 DEF RefsInv
    <2>6. \A i \in 1 .. Len(pushed') : pushed'[i].hdr.cmd \in 0 .. Len(offered')
      BY <2>3 DEF RefsInv
    <2> QED
      BY <2>4, <2>5, <2>6, Zenon DEF RefsInv
  <1>4. CASE BodyRead
    <2>1. CASE dest = 0
      <3>1. UNCHANGED <<offered, pushed, heap>>
        BY <1>4, <2>1 DEF BodyRead, peerVars
      <3>2. /\ \A s \in Slot : slots'[s].hdr = slots[s].hdr
            /\ \A s \in Slot : s # idx_writer => slots'[s].dataptr = slots[s].dataptr
            /\ slots'[idx_writer].dataptr = 0
        BY <1>4, <2>1, FilledSlot
      <3>3. \A s \in Slot : slots'[s].dataptr \in 0 .. Len(heap)
        BY <1>0, <3>2 DEF RefsInv
      <3> QED
        BY <3>1, <3>2, <3>3 DEF RefsInv
    <2>2. CASE dest # 0
      <3>1. Len(heap') = Len(heap)
        BY <1>0, <1>4, <2>2 DEF BodyRead, DestInv
      <3> QED
        BY <1>4, <2>2, <3>1 DEF BodyRead, RefsInv, peerVars
    <2> QED
      BY <2>1, <2>2
  <1>5. CASE PushPacket
    <2>1. CurrentSlot.hdr.cmd \in 0 .. Len(offered)
      BY <1>0 DEF RefsInv, CurrentSlot
    <2>2. /\ Len(pushed') = Len(pushed) + 1 /\ Len(pushed) \in Nat
          /\ \A i \in 1 .. Len(pushed) : pushed'[i] = pushed[i]
          /\ pushed'[Len(pushed) + 1].hdr = CurrentSlot.hdr
      BY <1>5 DEF PushPacket, TypeOK
    <2>3. \A i \in 1 .. Len(pushed') : pushed'[i].hdr.cmd \in 0 .. Len(offered)
      BY <2>1, <2>2 DEF RefsInv
    <2>4. ASSUME NEW s \in Slot
          PROVE  /\ slots'[s].hdr = slots[s].hdr
                 /\ slots'[s].dataptr \in 0 .. Len(heap)
      BY <1>0, <1>5, <2>4 DEF PushPacket, RefsInv, SlotContent
    <2> QED
      BY <1>5, <2>3, <2>4 DEF PushPacket, RefsInv, peerVars
  <1>6. CASE Discard
    <2> PICK c \in 0 .. Len(offered), z \in 0 .. Len(offered) :
          slots' = [slots EXCEPT ![idx_writer].hdr = [cmd |-> c, size |-> z]]
      BY <1>6 DEF Discard
    <2> QED
      BY <1>0, <1>6 DEF Discard, RefsInv, SlotContent, peerVars
  <1>7. CASE Idle \/ Reader \/ UNCHANGED vars
    BY <1>7, IdleFrame, ReaderFrame DEF RefsInv, vars, peerVars
  <1> QED
    BY <1>1, <1>2, <1>3, <1>4, <1>5, <1>6, <1>7 DEF Next, Receiver, Idle, Terminated

LEMMA StepSlotFree ==
  ASSUME IInv, [Next]_vars
  PROVE  SlotFree'
  <1> USE DEF IInv, SlotFree
  <1>0. /\ idx_writer \in Slot /\ idx_reader \in Slot
        /\ Occupancy \in Slot /\ Occupancy \in Nat
    BY OccupancyValue DEF TypeOK, Slot
  <1>1. CASE UNCHANGED <<idx_writer, idx_reader, pc>>
    BY <1>1 DEF Occupancy
  <1>2. CASE Release
    <2>1. Occupancy > 0
      BY <1>0, <1>2 DEF Release, QueueInv, FirstUnread
    <2>2. Occupancy' = Occupancy - 1
      BY <1>0, <1>2, <2>1, ReaderMoves DEF Release
    <2> QED
      BY <1>0, <1>2, <2>2, RecvrAssumption DEF Release
  <1>3. CASE StartPacket
    <2>1. Occupancy' = Occupancy
      BY <1>3 DEF StartPacket, Occupancy, readerVars
    <2>2. pc' = "header" => Occupancy # RingSize - 1
      BY <1>0, <1>3, OccupancyValue DEF StartPacket
    <2> QED
      BY <1>0, <1>3, <2>1, <2>2, RecvrAssumption DEF StartPacket, Slot
  <1>4. CASE PushPacket
    BY <1>4 DEF PushPacket
  <1>5. CASE /\ UNCHANGED <<idx_writer, idx_reader>>
             /\ pc' \in {"header", "route", "body", "discard"} =>
                  pc \in {"header", "route", "body", "discard"}
    BY <1>5 DEF Occupancy
  <1>6. CASE Peer
    BY <1>1, <1>6, PeerFrame DEF readerVars
  <1>7. CASE Deliver \/ Stop \/ UNCHANGED vars
    BY <1>1, <1>7 DEF Deliver, Stop, vars, readerVars
  <1>8. CASE HeaderRead \/ RouteToBuffer \/ BodyRead \/ Discard
    BY <1>5, <1>8 DEF HeaderRead, RouteToBuffer, BodyRead, Discard, readerVars
  <1>9. CASE Hangup \/ SleepOver \/ HeaderReadFails \/ HeaderEof
    BY <1>5, <1>9 DEF Hangup, SleepOver, HeaderReadFails, HeaderEof, readerVars
  <1>10. CASE RouteToSlot \/ RouteToDiscard \/ RouteAsserts
    BY <1>5, <1>10 DEF RouteToSlot, RouteToDiscard, RouteAsserts, readerVars
  <1>11. CASE BodyReadFails \/ BodyEof \/ DiscardEof \/ DiscardFails \/ EndThread
    BY <1>5, <1>11 DEF BodyReadFails, BodyEof, DiscardEof, DiscardFails, EndThread, readerVars
  <1> QED
    BY <1>2, <1>3, <1>4, <1>6, <1>7, <1>8, <1>9, <1>10, <1>11
    DEF Next, Receiver, Reader, Terminated

LEMMA StepDest ==
  ASSUME IInv, [Next]_vars
  PROVE  DestInv'
  <1> USE DEF IInv
  <1>0. /\ Len(offered) \in Nat /\ Len(heap) \in Nat /\ idx_writer \in Slot
        /\ slots \in [Slot -> SlotContent] /\ heap \in Seq(Halves)
    BY DEF TypeOK, SlotContent
  <1>1. CASE Peer
    <2>1. /\ UNCHANGED <<pc, dest, slots, idx_writer, heap>>
          /\ \A id \in 1 .. Len(offered) : offered'[id] = offered[id]
      BY <1>1, PeerFrame, PeerStream
    <2>2. /\ CurrentSlot' = CurrentSlot
          /\ CurrentSlot.hdr.cmd \in 0 .. Len(offered)
          /\ CurrentSlot.hdr.size \in 0 .. Len(offered)
      BY <1>0, <2>1 DEF CurrentSlot, RefsInv
    <2>3. CurrentCmd' = CurrentCmd /\ CurrentSize' = CurrentSize
      BY <1>0, <2>1, <2>2, KindStable DEF CurrentCmd, CurrentSize
    <2> QED
      BY <2>1, <2>2, <2>3 DEF DestInv
  <1>2. CASE RouteToSlot
    <2>1. CurrentSize' = CurrentSize
      BY <1>2 DEF RouteToSlot, CurrentSize, CurrentSlot, SizeOf, peerVars
    <2> QED
      BY <1>2, <2>1 DEF RouteToSlot, DestInv
  <1>3. CASE RouteToBuffer
    <2>1. Len(heap') = Len(heap) + 1 /\ dest' = Len(heap) + 1
      BY <1>0, <1>3, AppendProperties DEF RouteToBuffer, NoHalves, Halves, Field
    <2>2. CurrentSlot'.dataptr = dest' /\ CurrentSlot'.hdr = CurrentSlot.hdr
      BY <1>0, <1>3 DEF RouteToBuffer, CurrentSlot, SlotContent
    <2>3. CurrentCmd' = CurrentCmd /\ CurrentSize' = CurrentSize
      BY <1>3, <2>2 DEF RouteToBuffer, CurrentCmd, CurrentSize, CmdOf, SizeOf, peerVars
    <2> QED
      BY <1>0, <1>3, <2>1, <2>2, <2>3 DEF RouteToBuffer, DestInv
  <1>4. CASE BodyRead
    <2>0. UNCHANGED <<dest, idx_writer, offered, pc>>
      BY <1>4 DEF BodyRead, peerVars
    <2>1. CASE dest = 0
      <3>1. CurrentSlot'.hdr = CurrentSlot.hdr
        BY <1>0, <1>4, <2>0, <2>1, FilledSlot DEF CurrentSlot
      <3>2. CurrentSize' = CurrentSize
        BY <2>0, <3>1 DEF CurrentSize, SizeOf
      <3> QED
        BY <1>4, <2>0, <2>1, <3>2 DEF BodyRead, DestInv
    <2>2. CASE dest # 0
      <3>1. Len(heap') = Len(heap) /\ slots' = slots
        BY <1>0, <1>4, <2>2 DEF BodyRead, DestInv
      <3>2. CurrentSlot' = CurrentSlot
        BY <2>0, <3>1 DEF CurrentSlot
      <3>3. CurrentCmd' = CurrentCmd /\ CurrentSize' = CurrentSize
        BY <2>0, <3>2 DEF CurrentCmd, CurrentSize, CmdOf, SizeOf
      <3> QED
        BY <2>0, <3>1, <3>2, <3>3 DEF DestInv
    <2> QED
      BY <2>1, <2>2
  <1>5. CASE \/ pc' # "body"
             \/ UNCHANGED <<pc, dest, idx_writer, offered, slots, heap>>
    <2>1. CASE UNCHANGED <<pc, dest, idx_writer, offered, slots, heap>>
      BY <2>1 DEF DestInv, CurrentCmd, CurrentSize, CmdOf, SizeOf, CurrentSlot
    <2> QED
      BY <1>5, <2>1 DEF DestInv
  <1>6. CASE HeaderRead \/ PushPacket \/ Discard
    <2>1. CASE Discard
      BY <1>5, <2>1 DEF Discard
    <2> QED
      BY <1>5, <1>6, <2>1 DEF HeaderRead, PushPacket
  <1>7. CASE Hangup \/ StartPacket \/ SleepOver \/ HeaderReadFails \/ HeaderEof
    BY <1>5, <1>7 DEF Hangup, StartPacket, SleepOver, HeaderReadFails, HeaderEof
  <1>8. CASE RouteToDiscard \/ RouteAsserts \/ BodyEof \/ DiscardEof \/ DiscardFails \/ EndThread
    BY <1>5, <1>8 DEF RouteToDiscard, RouteAsserts, BodyEof, DiscardEof, DiscardFails, EndThread
  <1>9. CASE BodyReadFails \/ Reader \/ UNCHANGED vars
    BY <1>5, <1>9, ReaderFrame DEF BodyReadFails, vars, peerVars
  <1> QED
    BY <1>1, <1>2, <1>3, <1>4, <1>6, <1>7, <1>8, <1>9 DEF Next, Receiver, Terminated

-----------------------------------------------------------------------------
(* The packets in the ring.                                                *)

(***************************************************************************)
(* The peer and the receiver change no slot but the one being filled, and  *)
(* no buffer but the one being filled.                                     *)
(***************************************************************************)
LEMMA WriterFrame ==
  ASSUME IInv, Peer \/ Receiver
  PROVE  /\ UNCHANGED readerVars
         /\ \A s \in Slot : s # idx_writer => slots'[s] = slots[s]
         /\ Len(heap) <= Len(heap')
         /\ \A b \in 1 .. Len(heap) : heap'[b] = heap[b] \/ (pc = "body" /\ b = dest)
         /\ \A id \in 1 .. Len(offered) : offered'[id] = offered[id]
  <1> USE DEF IInv
  <1>0. /\ Len(offered) \in Nat /\ Len(heap) \in Nat /\ idx_writer \in Slot
        /\ slots \in [Slot -> SlotContent] /\ heap \in Seq(Halves)
    BY DEF TypeOK, SlotContent
  <1>1. CASE Peer
    BY <1>0, <1>1, PeerFrame, PeerStream
  <1>2. CASE Idle
    BY <1>0, <1>2, IdleFrame DEF peerVars
  <1>3. CASE HeaderRead \/ PushPacket
    BY <1>0, <1>3 DEF HeaderRead, PushPacket, peerVars
  <1>4. CASE RouteToBuffer
    <2>1. /\ Len(heap') = Len(heap) + 1
          /\ \A b \in 1 .. Len(heap) : heap'[b] = heap[b]
      BY <1>0, <1>4, AppendProperties DEF RouteToBuffer, NoHalves, Halves, Field
    <2> QED
      BY <1>0, <1>4, <2>1 DEF RouteToBuffer, peerVars
  <1>5. CASE BodyRead
    <2>1. CASE dest = 0
      BY <1>0, <1>5, <2>1, FilledSlot DEF BodyRead, peerVars
    <2>2. CASE dest # 0
      <3>1. Len(heap') = Len(heap) /\ \A b \in 1 .. Len(heap) : b # dest => heap'[b] = heap[b]
        BY <1>0, <1>5, <2>2 DEF BodyRead
      <3> QED
        BY <1>0, <1>5, <2>2, <3>1 DEF BodyRead, peerVars
    <2> QED
      BY <2>1, <2>2
  <1>6. CASE Discard
    <2> PICK c \in 0 .. Len(offered), z \in 0 .. Len(offered) :
          slots' = [slots EXCEPT ![idx_writer].hdr = [cmd |-> c, size |-> z]]
      BY <1>6 DEF Discard
    <2> QED
      BY <1>0, <1>6 DEF Discard, peerVars
  <1> QED
    BY <1>1, <1>2, <1>3, <1>4, <1>5, <1>6 DEF Receiver, Idle

LEMMA UnreadSlots ==
  ASSUME IInv
  PROVE  /\ idx_reader \in Slot /\ idx_writer \in Slot
         /\ Occupancy \in Slot /\ Occupancy \in Nat /\ FirstUnread \in 0 .. 1
         /\ Unread \subseteq Slot /\ Unread \subseteq Nat
         /\ \A k \in Unread :
              /\ SlotAt(idx_reader, k) \in Slot /\ SlotAt(idx_reader, k) # idx_writer
              /\ Queued(k).hdr.cmd \in 0 .. Len(offered)
              /\ Queued(k).hdr.size \in 0 .. Len(offered)
              /\ Queued(k).dataptr \in 0 .. Len(heap)
              /\ IsLarge(Queued(k)) => Queued(k).dataptr \in 1 .. Len(heap)
  <1>1. /\ idx_reader \in Slot /\ idx_writer \in Slot
        /\ Occupancy \in Slot /\ FirstUnread \in 0 .. 1 /\ Len(heap) \in Nat
    BY OccupancyValue DEF IInv, TypeOK, FirstUnread
  <1>2. Occupancy \in Nat /\ Unread \subseteq Slot /\ Unread \subseteq Nat
    BY <1>1 DEF Slot, Unread
  <1>3. ASSUME NEW k \in Unread
        PROVE  /\ SlotAt(idx_reader, k) \in Slot /\ SlotAt(idx_reader, k) # idx_writer
    BY <1>1, <1>2, <1>3, SlotArith, WriterSlot DEF Unread
  <1>4. ASSUME NEW k \in Unread
        PROVE  /\ Queued(k).hdr.cmd \in 0 .. Len(offered)
               /\ Queued(k).hdr.size \in 0 .. Len(offered)
               /\ Queued(k).dataptr \in 0 .. Len(heap)
    BY <1>3, <1>4 DEF IInv, RefsInv, Queued
  <1>5. \A k \in Unread : IsLarge(Queued(k)) => Queued(k).dataptr \in 1 .. Len(heap)
    BY <1>1, <1>4 DEF IsLarge
  <1> QED
    BY <1>1, <1>2, <1>3, <1>4, <1>5

(***************************************************************************)
(* Hence no packet the reader may still look at.                           *)
(***************************************************************************)
LEMMA QueuedSame ==
  ASSUME IInv, Peer \/ Receiver, NEW k \in Unread
  PROVE  /\ Queued(k)' = Queued(k)
         /\ IsLarge(Queued(k))' <=> IsLarge(Queued(k))
         /\ View(Queued(k))' = View(Queued(k))
  <1>1. Queued(k)' = Queued(k)
    BY UnreadSlots, WriterFrame DEF Queued, SlotAt, readerVars
  <1>2. CmdOf(Queued(k).hdr)' = CmdOf(Queued(k).hdr)
    <2>1. Len(offered) \in Nat
      BY DEF IInv, TypeOK
    <2> QED
      BY <1>1, <2>1, UnreadSlots, WriterFrame DEF CmdOf, Garbage
  <1>3. IsLarge(Queued(k))' <=> IsLarge(Queued(k))
    BY <1>1, <1>2 DEF IsLarge
  <1>4. IsLarge(Queued(k)) => heap'[Queued(k).dataptr] = heap[Queued(k).dataptr]
    BY UnreadSlots, WriterFrame DEF IInv, OwnerInv, LargeUnread
  <1> QED
    BY <1>1, <1>3, <1>4 DEF View


(***************************************************************************)
(* What PushPacket adds to the ring, at the end.                           *)
(***************************************************************************)
LEMMA PushedSlot ==
  ASSUME IInv, PushPacket, NEW q, q = Occupancy
  PROVE  /\ q \in Slot /\ q + 1 \in Slot /\ q \notin Unread
         /\ Occupancy' = q + 1 /\ FirstUnread' = FirstUnread /\ FirstUnread <= q
         /\ Unread' = Unread \cup {q}
         /\ IsLarge(Queued(q))' <=> dest # 0
         /\ dest # 0 => (Queued(q).dataptr)' = dest
         /\ View(Queued(q))' =
              [hdr |-> CurrentSlot.hdr,
               body |-> IF dest = 0 THEN CurrentSlot.body ELSE heap[dest]]
  <1>0. /\ q \in Slot /\ q \in Nat /\ FirstUnread \in 0 .. 1 /\ FirstUnread <= q
        /\ q < RingSize - 1 /\ RingSize \in Nat
    BY UnreadSlots, RecvrAssumption DEF IInv, SlotFree, PushPacket, QueueInv
  <1>1. q + 1 \in Slot /\ q \notin Unread
    BY <1>0 DEF Slot, Unread
  <1>2. Occupancy' = q + 1 /\ FirstUnread' = FirstUnread
    BY <1>0, UnreadSlots, WriterMoves DEF PushPacket, readerVars, FirstUnread
  <1>3. Unread' = Unread \cup {q}
    <2>1. \A k \in Slot : k < q + 1 <=> k < q \/ k = q
      BY <1>0 DEF Slot
    <2> QED
      BY <1>0, <1>2, <2>1 DEF Unread
  <1>4. /\ Queued(q)' = slots'[idx_writer]
        /\ CmdOf(Queued(q).hdr)' = CurrentCmd
        /\ Queued(q)'.hdr = CurrentSlot.hdr /\ Queued(q)'.body = CurrentSlot.body
        /\ dest # 0 => Queued(q)'.dataptr = dest /\ CurrentCmd = "SEND_DATA"
        /\ dest = 0 /\ CurrentCmd = "SEND_DATA" => Queued(q)'.dataptr = 0
    <2>1. Queued(q)' = slots'[idx_writer]
      BY UnreadSlots, WriterSlot DEF Queued, PushPacket, readerVars, SlotAt
    <2>2. /\ slots'[idx_writer].hdr = CurrentSlot.hdr
          /\ slots'[idx_writer].body = CurrentSlot.body
          /\ slots'[idx_writer].dataptr =
               IF CurrentCmd = "SEND_DATA" /\ CurrentSize # "large" THEN 0
               ELSE CurrentSlot.dataptr
      <3>1. slots \in [Slot -> SlotContent] /\ idx_writer \in Slot
        BY DEF IInv, TypeOK, SlotContent
      <3> QED
        BY <3>1 DEF PushPacket, CurrentSlot, SlotContent
    <2>3. CmdOf(Queued(q).hdr)' = CurrentCmd
      BY <2>1, <2>2 DEF CurrentCmd, CmdOf, PushPacket, peerVars
    <2> QED
      BY <2>1, <2>2, <2>3 DEF IInv, DestInv, PushPacket
  <1>5. IsLarge(Queued(q))' <=> dest # 0
    BY <1>4 DEF IsLarge, IInv, DestInv, PushPacket
  <1>6. View(Queued(q))' =
          [hdr |-> CurrentSlot.hdr,
           body |-> IF dest = 0 THEN CurrentSlot.body ELSE heap[dest]]
    BY <1>4, <1>5 DEF View, PushPacket
  <1> QED
    BY <1>0, <1>1, <1>2, <1>3, <1>4, <1>5, <1>6

(***************************************************************************)
(* What Deliver takes: the oldest.                                         *)
(***************************************************************************)
LEMMA DeliveredSlot ==
  ASSUME IInv, Deliver
  PROVE  /\ FirstUnread = 0 /\ FirstUnread' = 1
         /\ Occupancy > 0 /\ Occupancy' = Occupancy
         /\ 0 \in Unread /\ Unread' = Unread \ {0}
         /\ delivered' = Append(delivered, View(Queued(0)))
         /\ taken' = IF IsLarge(Queued(0)) THEN taken \cup {Queued(0).dataptr} ELSE taken
         /\ \A c : (IsLarge(c)' <=> IsLarge(c)) /\ View(c)' = View(c)
         /\ \A k : Queued(k)' = Queued(k)
  <1>1. FirstUnread = 0 /\ FirstUnread' = 1
    BY DEF Deliver, FirstUnread
  <1>2. Occupancy > 0 /\ Occupancy' = Occupancy /\ Occupancy \in Slot
    BY UnreadSlots, OccupancyValue DEF Deliver, Occupancy, Slot
  <1>3. 0 \in Unread /\ Unread' = Unread \ {0}
    <2>1. 0 \in Slot /\ \A k \in Slot : 1 <= k <=> 0 <= k /\ k # 0
      BY RecvrAssumption DEF Slot
    <2> QED
      BY <1>1, <1>2, <2>1 DEF Unread
  <1>4. Queued(0) = slots[idx_reader]
    <2>1. SlotAt(idx_reader, 0) = idx_reader
      BY <1>3, UnreadSlots, SlotArith, RecvrAssumption DEF Slot
    <2> QED
      BY <2>1 DEF Queued
  <1>5. \A c : (IsLarge(c)' <=> IsLarge(c)) /\ View(c)' = View(c)
    BY DEF Deliver, IsLarge, View, CmdOf, peerVars
  <1>6. \A k : Queued(k)' = Queued(k)
    BY DEF Deliver, Queued, SlotAt
  <1> QED
    BY <1>1, <1>2, <1>3, <1>4, <1>5, <1>6 DEF Deliver, IsLarge, View

(***************************************************************************)
(* Release renumbers what is left.                                         *)
(***************************************************************************)
LEMMA ReleasedSlot ==
  ASSUME IInv, Release
  PROVE  /\ FirstUnread = 1 /\ FirstUnread' = 0
         /\ Occupancy > 0 /\ Occupancy' = Occupancy - 1
         /\ \A k \in Unread' : /\ k \in Nat /\ k + 1 \in Unread
                               /\ \A j : j = k + 1 =>
                                    /\ Queued(k)' = Queued(j)
                                    /\ IsLarge(Queued(k))' <=> IsLarge(Queued(j))
                                    /\ View(Queued(k))' = View(Queued(j))
         /\ \A k \in Unread : k - 1 \in Unread'
  <1>0. RingSize \in Nat /\ RingSize >= 2
    BY RecvrAssumption
  <1>1. FirstUnread = 1 /\ FirstUnread' = 0
    BY DEF Release, FirstUnread
  <1>2. /\ Occupancy > 0 /\ Occupancy' = Occupancy - 1 /\ Occupancy \in Slot
        /\ idx_reader' = NextIdx(idx_reader)
        /\ \A k \in Slot : k + 1 < RingSize =>
             SlotAt(NextIdx(idx_reader), k) = SlotAt(idx_reader, k + 1)
    BY <1>1, UnreadSlots, ReaderMoves DEF Release, IInv, QueueInv
  <1>3. Unread' = {k \in Slot : 0 <= k /\ k < Occupancy - 1}
    BY <1>1, <1>2 DEF Unread
  <1>4. ASSUME NEW k \in Unread'
        PROVE  k \in Nat /\ k \in Slot /\ k + 1 \in Unread /\ k + 1 < RingSize
    BY <1>0, <1>1, <1>2, <1>3, <1>4 DEF Unread, Slot
  <1>5. ASSUME NEW k \in Unread', NEW j, j = k + 1
        PROVE  /\ Queued(k)' = Queued(j)
               /\ IsLarge(Queued(k))' <=> IsLarge(Queued(j))
               /\ View(Queued(k))' = View(Queued(j))
    <2>1. SlotAt(idx_reader', k) = SlotAt(idx_reader, j)
      BY <1>2, <1>4, <1>5
    <2>2. Queued(k)' = Queued(j)
      BY <2>1 DEF Release, Queued, SlotAt
    <2> QED
      BY <2>2 DEF Release, IsLarge, View, CmdOf, peerVars
  <1>6. ASSUME NEW k \in Unread
        PROVE  k - 1 \in Unread'
    BY <1>0, <1>1, <1>2, <1>3, <1>6 DEF Unread, Slot
  <1> QED
    BY <1>1, <1>2, <1>4, <1>5, <1>6

(***************************************************************************)
(* A step of the peer, or one of the receiver but PushPacket, leaves the   *)
(* ring as it was.                                                         *)
(***************************************************************************)
LEMMA RingSame ==
  ASSUME IInv, Peer \/ (Receiver /\ ~PushPacket)
  PROVE  /\ UNCHANGED <<readerVars, idx_writer, pushed>>
         /\ Occupancy' = Occupancy /\ FirstUnread' = FirstUnread
         /\ Unread' = Unread /\ LargeUnread' = LargeUnread
         /\ \A k \in Unread : /\ Queued(k)' = Queued(k)
                              /\ View(Queued(k))' = View(Queued(k))
  <1>1. UNCHANGED <<readerVars, idx_writer, pushed>>
    <2>1. CASE Peer
      BY <2>1, PeerFrame
    <2>2. CASE Idle
      BY <2>2, IdleFrame
    <2>3. CASE HeaderRead \/ RouteToBuffer \/ BodyRead \/ Discard
      BY <2>3 DEF HeaderRead, RouteToBuffer, BodyRead, Discard
    <2> QED
      BY <2>1, <2>2, <2>3 DEF Receiver, Idle
  <1>2. /\ Occupancy' = Occupancy /\ FirstUnread' = FirstUnread /\ Unread' = Unread
    BY <1>1 DEF Occupancy, FirstUnread, Unread, readerVars
  <1>3. \A k \in Unread : /\ Queued(k)' = Queued(k)
                          /\ IsLarge(Queued(k))' <=> IsLarge(Queued(k))
                          /\ View(Queued(k))' = View(Queued(k))
    BY QueuedSame
  <1>4. LargeUnread' = LargeUnread
    BY <1>2, <1>3 DEF LargeUnread
  <1> QED
    BY <1>1, <1>2, <1>3, <1>4

LEMMA StepQueue ==
  ASSUME IInv, [Next]_vars
  PROVE  QueueInv'
  <1>0. /\ pushed \in Seq(PacketView) /\ delivered \in Seq(PacketView)
        /\ Len(pushed) \in Nat /\ Len(delivered) \in Nat
        /\ FirstUnread \in 0 .. 1 /\ Occupancy \in Nat
        /\ Unread \subseteq Nat /\ \A k \in Unread : FirstUnread <= k /\ k < Occupancy
        /\ QueueInv
    BY UnreadSlots DEF IInv, TypeOK, Unread
  <1>1. CASE Peer \/ (Receiver /\ ~PushPacket)
    BY <1>0, <1>1, RingSame DEF QueueInv, readerVars
  <1>2. CASE PushPacket
    <2> SUFFICES ASSUME NEW q, q = Occupancy,
                        NEW v, v = [hdr |-> CurrentSlot.hdr,
                                    body |-> IF dest = 0 THEN CurrentSlot.body ELSE heap[dest]]
                 PROVE  QueueInv'
      OBVIOUS
    <2>1. pushed' = Append(pushed, v) /\ delivered' = delivered
      BY <1>2 DEF PushPacket, readerVars
    <2>2. /\ Len(pushed') = Len(pushed) + 1 /\ pushed'[Len(pushed) + 1] = v
          /\ \A i \in 1 .. Len(pushed) : pushed'[i] = pushed[i]
      BY <1>0, <2>1
    <2>3. /\ Occupancy' = q + 1 /\ FirstUnread' = FirstUnread /\ FirstUnread <= q
          /\ Unread' = Unread \cup {q} /\ View(Queued(q))' = v
      BY <1>2, PushedSlot
    <2>4. \A k \in Unread : View(Queued(k))' = View(Queued(k))
      BY <1>2, QueuedSame DEF Receiver
    <2>5. ASSUME NEW k \in Unread
          PROVE  View(Queued(k))' = pushed'[Len(delivered) + 1 + k - FirstUnread]
      <3>1. Len(delivered) + 1 + k - FirstUnread \in 1 .. Len(pushed)
        BY <1>0, <2>5 DEF QueueInv
      <3> QED
        BY <1>0, <2>2, <2>4, <2>5, <3>1 DEF QueueInv
    <2>6. Len(delivered) + 1 + q - FirstUnread = Len(pushed) + 1
      BY <1>0 DEF QueueInv
    <2>7. \A i \in 1 .. Len(delivered) : delivered[i] = pushed'[i]
      BY <1>0, <2>2 DEF QueueInv
    <2>8. Len(pushed') = Len(delivered') + Occupancy' - FirstUnread'
      BY <1>0, <2>1, <2>2, <2>3 DEF QueueInv
    <2>9. \A k \in Unread' :
            View(Queued(k))' = pushed'[Len(delivered') + 1 + k - FirstUnread']
      BY <2>1, <2>2, <2>3, <2>5, <2>6
    <2> QED
      BY <1>0, <2>1, <2>3, <2>7, <2>8, <2>9 DEF QueueInv
  <1>3. CASE Deliver
    <2>1. /\ FirstUnread = 0 /\ FirstUnread' = 1 /\ Occupancy > 0 /\ Occupancy' = Occupancy
          /\ 0 \in Unread /\ Unread' = Unread \ {0}
          /\ delivered' = Append(delivered, View(Queued(0)))
          /\ \A k : View(Queued(k))' = View(Queued(k))
          /\ pushed' = pushed
      BY <1>3, DeliveredSlot DEF Deliver
    <2>2. View(Queued(0)) = pushed[Len(delivered) + 1]
      BY <1>0, <2>1 DEF QueueInv
    <2>3. /\ Len(delivered') = Len(delivered) + 1
          /\ \A i \in 1 .. Len(delivered) : delivered'[i] = delivered[i]
          /\ delivered'[Len(delivered) + 1] = View(Queued(0))
      BY <1>0, <2>1, AppendProperties DEF View
    <2>4. \A i \in 1 .. Len(delivered') : delivered'[i] = pushed'[i]
      BY <1>0, <2>1, <2>2, <2>3 DEF QueueInv
    <2>5. ASSUME NEW k \in Unread'
          PROVE  View(Queued(k))' = pushed'[Len(delivered') + 1 + k - FirstUnread']
      <3>1. Len(delivered') + 1 + k - FirstUnread' = Len(delivered) + 1 + k - FirstUnread
        BY <1>0, <2>1, <2>3, <2>5
      <3>2. View(Queued(k)) = pushed[Len(delivered) + 1 + k - FirstUnread]
        BY <1>0, <2>1, <2>5 DEF QueueInv
      <3> QED
        BY <2>1, <3>1, <3>2
    <2> QED
      BY <1>0, <2>1, <2>3, <2>4, <2>5 DEF QueueInv
  <1>4. CASE Release
    <2>1. /\ FirstUnread = 1 /\ FirstUnread' = 0 /\ Occupancy > 0 /\ Occupancy' = Occupancy - 1
          /\ UNCHANGED <<pushed, delivered>>
      BY <1>4, ReleasedSlot DEF Release
    <2>2. ASSUME NEW k \in Unread'
          PROVE  View(Queued(k))' = pushed[Len(delivered) + 1 + k]
      <3> SUFFICES ASSUME NEW j, j = k + 1
                   PROVE  View(Queued(k))' = pushed[Len(delivered) + 1 + k]
        OBVIOUS
      <3>1. j \in Unread /\ k \in Nat /\ View(Queued(k))' = View(Queued(j))
        BY <1>4, ReleasedSlot
      <3>2. View(Queued(j)) = pushed[Len(delivered) + 1 + j - FirstUnread]
        BY <3>1, <1>0 DEF QueueInv
      <3>3. Len(delivered) + 1 + j - FirstUnread = Len(delivered) + 1 + k
        BY <1>0, <2>1, <3>1
      <3> QED
        BY <3>1, <3>2, <3>3
    <2>3. \A k \in Unread' : View(Queued(k))' = pushed'[Len(delivered') + 1 + k - FirstUnread']
      <3>1. \A k \in Unread' : Len(delivered') + 1 + k - FirstUnread' = Len(delivered) + 1 + k
        BY <1>0, <2>1, <1>4, ReleasedSlot
      <3> QED
        BY <2>1, <2>2, <3>1
    <2> QED
      BY <1>0, <2>1, <2>3 DEF QueueInv
  <1>5. CASE Stop \/ UNCHANGED vars
    <2>1. /\ UNCHANGED <<pushed, delivered, idx_reader, idx_writer, busy>>
          /\ UNCHANGED <<slots, heap, offered>>
      BY <1>5 DEF Stop, vars, readerVars, peerVars
    <2> QED
      BY <1>0, <2>1
      DEF QueueInv, FirstUnread, Occupancy, Unread, Queued, SlotAt, View, IsLarge, CmdOf
  <1> QED
    BY <1>1, <1>2, <1>3, <1>4, <1>5 DEF Next, Reader, Terminated, Receiver

LEMMA StepOwner ==
  ASSUME IInv, [Next]_vars
  PROVE  OwnerInv'
  <1>0. /\ heap \in Seq(Halves) /\ Len(heap) \in Nat /\ live = 1 .. Len(heap)
        /\ taken \subseteq 1 .. Len(heap)
        /\ LargeUnread \subseteq Unread
        /\ \A k \in LargeUnread : Queued(k).dataptr \in 1 .. Len(heap)
        /\ OwnerInv /\ LinkInv
    <2>1. LargeUnread \subseteq Unread /\ \A k \in LargeUnread : IsLarge(Queued(k))
      BY DEF LargeUnread
    <2> QED
      BY <2>1, UnreadSlots DEF IInv, TypeOK, OwnerInv
  <1>1. ASSUME LargeUnread' = LargeUnread,
               \A k \in LargeUnread : Queued(k)' = Queued(k),
               Len(heap') = Len(heap), UNCHANGED <<live, taken, dest>>,
               pc' = "body" => pc = "body",
               pc = "body" /\ pc' # "body" => ~fd_open',
               ~fd_open => ~fd_open'
        PROVE  OwnerInv'
    BY <1>0, <1>1 DEF OwnerInv
  <1>2. CASE Peer
    <2>1. /\ UNCHANGED <<heap, live, taken, dest, pc, fd_open>>
          /\ LargeUnread' = LargeUnread /\ \A k \in LargeUnread : Queued(k)' = Queued(k)
      BY <1>0, <1>2, PeerFrame, RingSame DEF readerVars
    <2> QED
      BY <1>1, <2>1
  <1>3. CASE RouteToSlot
    <2>1. /\ UNCHANGED <<heap, live, taken, fd_open>> /\ pc = "route" /\ pc' = "body"
          /\ dest' = 0
      BY <1>3 DEF RouteToSlot, readerVars
    <2>2. /\ LargeUnread' = LargeUnread /\ \A k \in LargeUnread : Queued(k)' = Queued(k)
      BY <1>0, <1>3, RingSame DEF Receiver, PushPacket, RouteToSlot
    <2>3. fd_open
      BY <1>0, <2>1 DEF LinkInv
    <2> QED
      BY <1>0, <2>1, <2>2, <2>3 DEF OwnerInv
  <1>4. CASE RouteToBuffer
    <2>1. /\ UNCHANGED <<taken, fd_open>> /\ pc = "route" /\ pc' = "body"
      BY <1>4 DEF RouteToBuffer, readerVars
    <2>2. Len(heap') = Len(heap) + 1 /\ dest' = Len(heap) + 1
      BY <1>0, <1>4, AppendProperties DEF RouteToBuffer, NoHalves, Halves, Field
    <2>3. live' = 1 .. Len(heap')
      BY <1>0, <1>4, <2>2 DEF RouteToBuffer
    <2>4. /\ LargeUnread' = LargeUnread /\ \A k \in LargeUnread : Queued(k)' = Queued(k)
      BY <1>0, <1>4, RingSame DEF Receiver, PushPacket, RouteToBuffer
    <2>5. fd_open
      BY <1>0, <2>1 DEF LinkInv
    <2>6. ASSUME NEW b \in live'
          PROVE  \/ b \in taken'
                 \/ dest' = b
                 \/ \E k \in LargeUnread' : Queued(k)'.dataptr = b
      <3>1. CASE b = dest'
        BY <3>1
      <3>2. CASE b # dest'
        <4>1. b \in live
          BY <1>0, <2>2, <2>3, <2>6, <3>2
        <4> QED
          BY <1>0, <2>1, <2>4, <2>5, <4>1 DEF OwnerInv
      <3> QED
        BY <3>1, <3>2
    <2>7. dest' \notin taken' /\ \A k \in LargeUnread : Queued(k).dataptr # dest'
      BY <1>0, <2>1, <2>2
    <2> QED
      BY <1>0, <2>1, <2>3, <2>4, <2>6, <2>7 DEF OwnerInv
  <1>5. CASE BodyRead
    <2>1. Len(heap') = Len(heap)
      BY <1>0, <1>5 DEF BodyRead
    <2>2. /\ LargeUnread' = LargeUnread /\ \A k \in LargeUnread : Queued(k)' = Queued(k)
      BY <1>0, <1>5, RingSame DEF Receiver, PushPacket, BodyRead
    <2> QED
      BY <1>1, <1>5, <2>1, <2>2 DEF BodyRead, readerVars
  <1>6. CASE BodyEof \/ BodyReadFails
    <2>1. /\ LargeUnread' = LargeUnread /\ \A k \in LargeUnread : Queued(k)' = Queued(k)
      BY <1>0, <1>6, RingSame DEF Receiver, PushPacket, BodyEof, BodyReadFails
    <2> QED
      BY <1>1, <1>6, <2>1 DEF BodyEof, BodyReadFails, readerVars
  <1>7. ASSUME Receiver, pc # "body", pc' # "body"
        PROVE  OwnerInv'
    <2>1. /\ LargeUnread' = LargeUnread /\ \A k \in LargeUnread : Queued(k)' = Queued(k)
      BY <1>0, <1>7, RingSame DEF PushPacket
    <2>2. /\ UNCHANGED <<heap, live, taken, dest>> /\ fd_open' \in {fd_open, FALSE}
      BY <1>7
      DEF Receiver, Hangup, StartPacket, SleepOver, HeaderRead, HeaderReadFails, HeaderEof,
        RouteToSlot, RouteToBuffer, RouteToDiscard, RouteAsserts, BodyRead, BodyReadFails,
        BodyEof, PushPacket, Discard, DiscardEof, DiscardFails, EndThread, readerVars
    <2> QED
      BY <1>1, <1>7, <2>1, <2>2
  <1>8. CASE PushPacket
    <2> SUFFICES ASSUME NEW q, q = Occupancy
                 PROVE  OwnerInv'
      OBVIOUS
    <2>0. /\ UNCHANGED <<heap, live, taken, dest, fd_open>> /\ pc = "body" /\ pc' = "poll"
          /\ fd_open
      BY <1>0, <1>8 DEF PushPacket, readerVars, LinkInv
    <2>1. /\ Unread' = Unread \cup {q} /\ q \notin Unread
          /\ IsLarge(Queued(q))' <=> dest # 0
          /\ dest # 0 => Queued(q)'.dataptr = dest
      BY <1>8, PushedSlot
    <2>2. \A k \in Unread : Queued(k)' = Queued(k) /\ (IsLarge(Queued(k))' <=> IsLarge(Queued(k)))
      BY <1>8, QueuedSame DEF Receiver
    <2>3. LargeUnread' = IF dest # 0 THEN LargeUnread \cup {q} ELSE LargeUnread
      BY <2>1, <2>2 DEF LargeUnread
    <2>4. CASE dest = 0
      <3>1. \A b \in live : b # dest
        BY <1>0, <2>4
      <3> QED
        BY <1>0, <2>0, <2>2, <2>3, <2>4, <3>1 DEF OwnerInv
    <2>5. CASE dest # 0
      <3>1. /\ dest \notin taken /\ q \notin LargeUnread
            /\ \A k \in LargeUnread : Queued(k).dataptr # dest
        BY <1>0, <2>0, <2>1 DEF OwnerInv
      <3>2. ASSUME NEW k \in LargeUnread'
            PROVE  /\ Queued(k)'.dataptr \notin taken'
                   /\ \A m \in LargeUnread' : Queued(m)'.dataptr = Queued(k)'.dataptr => m = k
        BY <1>0, <2>0, <2>1, <2>2, <2>3, <2>5, <3>1, <3>2 DEF OwnerInv
      <3>3. ASSUME NEW b \in live'
            PROVE  b \in taken' \/ \E k \in LargeUnread' : Queued(k)'.dataptr = b
        BY <1>0, <2>0, <2>1, <2>2, <2>3, <2>5, <3>3 DEF OwnerInv
      <3> QED
        BY <1>0, <2>0, <3>2, <3>3 DEF OwnerInv
    <2> QED
      BY <2>4, <2>5
  <1>9. CASE Deliver
    <2>1. /\ 0 \in Unread /\ Unread' = Unread \ {0}
          /\ taken' = IF IsLarge(Queued(0)) THEN taken \cup {Queued(0).dataptr} ELSE taken
          /\ \A k : Queued(k)' = Queued(k) /\ (IsLarge(Queued(k))' <=> IsLarge(Queued(k)))
          /\ UNCHANGED <<heap, live, dest, pc, fd_open>>
      <3>1. \A k : Queued(k)' = Queued(k)
        BY <1>9, DeliveredSlot
      <3>2. \A c : IsLarge(c)' <=> IsLarge(c)
        BY <1>9 DEF Deliver, IsLarge, CmdOf, peerVars
      <3>3. \A k : IsLarge(Queued(k))' <=> IsLarge(Queued(k))
        BY <3>1, <3>2 DEF Deliver, IsLarge, CmdOf, peerVars
      <3> QED
        BY <1>9, <3>1, <3>3, DeliveredSlot DEF Deliver
    <2>2. LargeUnread' = LargeUnread \ {0}
      BY <2>1 DEF LargeUnread
    <2>3. CASE IsLarge(Queued(0))
      <3>1. 0 \in LargeUnread
        BY <2>1, <2>3 DEF LargeUnread
      <3>2. \A k \in LargeUnread' : Queued(k).dataptr # Queued(0).dataptr
        BY <1>0, <2>2, <3>1 DEF OwnerInv
      <3> QED
        BY <1>0, <2>1, <2>2, <2>3, <3>1, <3>2 DEF OwnerInv
    <2>4. CASE ~IsLarge(Queued(0))
      <3>1. LargeUnread' = LargeUnread
        BY <2>2, <2>4 DEF LargeUnread
      <3> QED
        BY <1>1, <2>1, <2>4, <3>1
    <2> QED
      BY <2>3, <2>4
  <1>10. CASE Release
    <2>1. /\ UNCHANGED <<heap, live, taken, dest, pc, fd_open>>
      BY <1>10 DEF Release
    <2>2. ASSUME NEW k \in LargeUnread'
          PROVE  k \in Nat /\ k + 1 \in LargeUnread /\ Queued(k)' = Queued(k + 1)
      <3> SUFFICES ASSUME NEW j, j = k + 1
                   PROVE  k \in Nat /\ j \in LargeUnread /\ Queued(k)' = Queued(j)
        OBVIOUS
      <3>1. k \in Unread' /\ IsLarge(Queued(k))'
        BY <2>2 DEF LargeUnread
      <3> QED
        BY <1>10, <3>1, ReleasedSlot DEF LargeUnread
    <2>3. ASSUME NEW k \in LargeUnread
          PROVE  \E j \in LargeUnread' : Queued(j)'.dataptr = Queued(k).dataptr
      <3> SUFFICES ASSUME NEW j, j = k - 1
                   PROVE  j \in LargeUnread' /\ Queued(j)' = Queued(k)
        OBVIOUS
      <3>1. k \in Unread /\ k \in Nat /\ IsLarge(Queued(k)) /\ k = j + 1
        BY <2>3, UnreadSlots DEF LargeUnread
      <3>2. /\ j \in Unread' /\ Queued(j)' = Queued(k)
            /\ (IsLarge(Queued(j))' <=> IsLarge(Queued(k)))
        BY <1>10, <3>1, ReleasedSlot
      <3> QED
        BY <3>1, <3>2 DEF LargeUnread
    <2>4. ASSUME NEW k \in LargeUnread'
          PROVE  /\ Queued(k)'.dataptr \notin taken
                 /\ pc = "body" => Queued(k)'.dataptr # dest
                 /\ \A m \in LargeUnread' : Queued(m)'.dataptr = Queued(k)'.dataptr => m = k
      <3>1. /\ Queued(k)'.dataptr \notin taken
            /\ pc = "body" => Queued(k)'.dataptr # dest
        BY <1>0, <2>2, <2>4 DEF OwnerInv
      <3>2. ASSUME NEW m \in LargeUnread', Queued(m)'.dataptr = Queued(k)'.dataptr
            PROVE  m = k
        <4>1. m \in Nat /\ k \in Nat /\ m + 1 = k + 1
          BY <1>0, <2>2, <2>4, <3>2 DEF OwnerInv
        <4> QED
          BY <4>1
      <3> QED
        BY <3>1, <3>2
    <2>5. ASSUME NEW b \in live
          PROVE  \/ b \in taken
                 \/ pc = "body" /\ dest = b
                 \/ \E k \in LargeUnread' : Queued(k)'.dataptr = b
                 \/ ~fd_open /\ b = dest
      BY <1>0, <2>3, <2>5 DEF OwnerInv
    <2> QED
      BY <1>0, <2>1, <2>4, <2>5 DEF OwnerInv
  <1>11. CASE Stop \/ UNCHANGED vars
    <2>1. /\ UNCHANGED <<heap, live, taken, dest, pc, fd_open>>
          /\ UNCHANGED <<idx_reader, idx_writer, busy, slots, offered>>
      BY <1>11 DEF Stop, vars, readerVars, peerVars
    <2>2. LargeUnread' = LargeUnread /\ \A k : Queued(k)' = Queued(k)
      BY <2>1
      DEF LargeUnread, FirstUnread, Occupancy, Unread, Queued, SlotAt, IsLarge, CmdOf
    <2> QED
      BY <1>1, <2>1, <2>2
  <1>12. CASE Receiver
    <2>1. pc # "body" => pc' # "body" \/ RouteToSlot \/ RouteToBuffer
      BY <1>12
      DEF Receiver, Hangup, StartPacket, SleepOver, HeaderRead, HeaderReadFails, HeaderEof,
        RouteToSlot, RouteToBuffer, RouteToDiscard, RouteAsserts, BodyRead, BodyReadFails,
        BodyEof, PushPacket, Discard, DiscardEof, DiscardFails, EndThread
    <2>2. pc = "body" => BodyRead \/ BodyReadFails \/ BodyEof \/ PushPacket
      BY <1>12
      DEF Receiver, Hangup, StartPacket, SleepOver, HeaderRead, HeaderReadFails, HeaderEof,
        RouteToSlot, RouteToBuffer, RouteToDiscard, RouteAsserts, Discard, DiscardEof,
        DiscardFails, EndThread
    <2> QED
      BY <1>3, <1>4, <1>5, <1>6, <1>7, <1>8, <1>12, <2>1, <2>2
  <1> QED
    BY <1>2, <1>9, <1>10, <1>11, <1>12 DEF Next, Reader, Terminated

-----------------------------------------------------------------------------
(* The place in the stream.                                                *)

LEMMA StepInSync ==
  ASSUME IInv, [Next]_vars, InSync', pc' # "aborted"
  PROVE  InSync /\ pc # "aborted"
  <1>1. CASE Peer
    BY <1>1, PeerFrame DEF InSync
  <1>2. CASE Idle
    <2>1. UNCHANGED <<wire, link>> /\ (sockerr' => sockerr) /\ pc # "aborted"
      BY <1>2, IdleFrame
      DEF Idle, Hangup, StartPacket, SleepOver, HeaderReadFails, HeaderEof, RouteToSlot,
        RouteToDiscard, RouteAsserts, BodyReadFails, BodyEof, DiscardEof, DiscardFails, EndThread
    <2> QED
      BY <2>1 DEF InSync
  <1>3. CASE HeaderRead \/ RouteToBuffer \/ BodyRead \/ PushPacket \/ Discard
    <2>1. CASE HeaderRead \/ BodyRead
      BY <2>1 DEF HeaderRead, BodyRead, ReadsData, InSync
    <2>2. CASE RouteToBuffer \/ PushPacket
      BY <2>2 DEF RouteToBuffer, PushPacket, InSync
    <2>3. CASE Discard
      BY <2>3 DEF Discard, ReadsData, InSync
    <2> QED
      BY <1>3, <2>1, <2>2, <2>3
  <1>4. CASE Reader \/ UNCHANGED vars
    BY <1>4, ReaderFrame DEF InSync, vars
  <1> QED
    BY <1>1, <1>2, <1>3, <1>4 DEF Next, Receiver, Idle, Terminated

LEMMA LastPushedType ==
  ASSUME TypeOK, RefsInv
  PROVE  /\ Len(offered) \in Nat /\ Len(pushed) \in Nat
         /\ LastPushed \in 0 .. Len(offered)
         /\ \A i \in 0 .. Len(pushed) : IdPushed(i) \in 0 .. Len(offered)
  BY DEF TypeOK, RefsInv, LastPushed, IdPushed

LEMMA BeforeSame ==
  ASSUME TypeOK, RefsInv, NEW r \in 1 .. Len(offered) + 1, Before(r), pushed' = pushed,
         \A id \in 1 .. Len(offered) : offered'[id] = offered[id]
  PROVE  Before(r)'
  <1>1. LastPushed' = LastPushed /\ LastPushed \in Nat /\ Len(offered) \in Nat
    BY LastPushedType DEF LastPushed, IdPushed
  <1>2. \A id \in 1 .. r - 1 : /\ IsPushed(id)' <=> IsPushed(id)
                               /\ MayBeDiscarded(id)' <=> MayBeDiscarded(id)
    BY <1>1 DEF IsPushed, MayBeDiscarded
  <1> QED
    BY <1>1, <1>2 DEF Before

(***************************************************************************)
(* What the header of the packet being received says of its kind.          *)
(***************************************************************************)
LEMMA HeaderKind ==
  ASSUME TypeOK, NEW id, HeaderIs(id)
  PROVE  /\ id \in 1 .. Len(offered) /\ id \in Nat /\ HdrId = id
         /\ offered[id] \in Kind
         /\ CurrentCmd = offered[id].cmd /\ CurrentSize = offered[id].size
         /\ Units(id) = IF offered[id].size = "bare" THEN 2 ELSE 4
         /\ BodyUnits(CurrentSize) = Units(id) - 2
         /\ CurrentSize = "large" => CurrentCmd = "SEND_DATA"
  <1>1. id \in 1 .. Len(offered) /\ CurrentSlot.hdr = [cmd |-> id, size |-> id]
    BY DEF HeaderIs
  <1>2. /\ id # Garbage /\ id \in Nat
        /\ CurrentSlot.hdr.cmd = id /\ CurrentSlot.hdr.size = id
    BY <1>1 DEF Garbage, TypeOK
  <1>3. CurrentCmd = offered[id].cmd /\ CurrentSize = offered[id].size /\ HdrId = id
    BY <1>2 DEF CurrentCmd, CurrentSize, CmdOf, SizeOf, HdrId
  <1>4. offered[id] \in Kind
    BY <1>1, KindOf
  <1>5. CurrentSize = "large" => CurrentCmd = "SEND_DATA"
    <2>1. \A k \in Kind : k.size = "large" => k.cmd = "SEND_DATA"
      BY DEF Kind
    <2> QED
      BY <1>3, <1>4, <2>1
  <1> QED
    BY <1>1, <1>2, <1>3, <1>4, <1>5, KindOf

LEMMA AfterValue ==
  ASSUME NEW id \in Nat, NEW p \in Nat, Units(id) \in Nat
  PROVE  After([id |-> id, part |-> p]) =
           IF p < Units(id) THEN [id |-> id, part |-> p + 1] ELSE [id |-> id + 1, part |-> 1]
  BY DEF After

LEMMA HeaderReadPosition ==
  ASSUME IInv, InSync, HeaderRead
  PROVE  Position'
  <1> USE DEF IInv
  <1>1. /\ pc = "header" /\ pc' = (IF remaining' = 0 THEN "route" ELSE "header")
        /\ remaining \in 1 .. 2 /\ remaining' = remaining - 1 /\ wire # <<>>
        /\ UNCHANGED <<peerVars, idx_writer, heap, pushed>>
    BY DEF HeaderRead, ReadsData, RemainingInv
  <1> SUFFICES ASSUME NEW d, d = Due.id
               PROVE  Position'
    OBVIOUS
  <1>2. /\ AtHeader /\ Before(d) /\ d \in 1 .. Len(offered) /\ Len(heap) < d
        /\ Receiving = d /\ d = Head(wire).id
    BY <1>1, DueType DEF Position, Behind, Receiving, Allocated
  <1>3. WireInv' /\ Due' = After(Due) /\ Units(d) \in {2, 4}
    BY <1>1, <1>2, ReadOne, KindOf DEF HeaderRead
  <1>4. Before(d)' /\ Len(offered) \in Nat /\ d \in 1 .. Len(offered') + 1
    BY <1>1, <1>2, BeforeSame DEF peerVars, TypeOK
  <1>5. /\ slots \in [Slot -> SlotContent] /\ idx_writer \in Slot
        /\ CurrentSlot.hdr \in Header
    BY CurrentSlotType DEF TypeOK, SlotContent
  <1>6. CASE remaining = 2
    <2>1. Due.part = 1
      BY <1>1, <1>2, <1>6 DEF AtHeader
    <2>2. Due' = [id |-> d, part |-> 2]
      BY <1>3, <2>1 DEF After
    <2>3. HdrId' = d
      BY <1>1, <1>2, <1>5, <1>6 DEF HeaderRead, HdrId, CurrentSlot, SlotContent, Header
    <2>4. pc' = "header" /\ remaining' = 1
      BY <1>1, <1>6
    <2>5. Receiving' = d
      BY <2>2, <2>4 DEF Receiving
    <2> QED
      BY <1>1, <1>2, <1>4, <2>2, <2>3, <2>4, <2>5
      DEF Position, AtPoll, AtHeader, AtRoute, AtBody, AtDiscard, AtEnd, Behind, Allocated
  <1>7. CASE remaining = 1
    <2>1. Due.part = 2 /\ HdrId = d
      BY <1>1, <1>2, <1>7 DEF AtHeader
    <2>2. Due = [id |-> d, part |-> 2]
      BY <2>1, DueType
    <2>3. Due' = After([id |-> d, part |-> 2])'
      BY <1>1, <1>3, <2>2 DEF After, Units, peerVars
    <2>4. CurrentSlot'.hdr = [cmd |-> d, size |-> d]
      <3>1. CurrentSlot'.hdr = [CurrentSlot.hdr EXCEPT !.size = d]
        BY <1>1, <1>2, <1>5, <1>7 DEF HeaderRead, CurrentSlot, SlotContent
      <3> QED
        BY <1>5, <2>1, <3>1 DEF Header, HdrId
    <2>5. HdrId' = d /\ HeaderIs(d)' /\ HeaderIs(HdrId)'
      BY <1>1, <1>2, <2>4 DEF HdrId, HeaderIs, peerVars
    <2>6. pc' = "route"
      BY <1>1, <1>7
    <2>7. Receiving' = d
      BY <2>5, <2>6 DEF Receiving
    <2>8. AtRoute'
      BY <2>3, <2>5 DEF AtRoute
    <2> QED
      BY <1>1, <1>2, <1>4, <2>6, <2>7, <2>8
      DEF Position, AtPoll, AtHeader, AtBody, AtDiscard, AtEnd, Behind, Allocated
  <1> QED
    BY <1>1, <1>6, <1>7

(***************************************************************************)
(* A header has been read whole: the body goes to the slot, to a buffer,   *)
(* or nowhere.                                                             *)
(***************************************************************************)
LEMMA RoutePosition ==
  ASSUME IInv, InSync, RouteToSlot \/ RouteToBuffer \/ RouteToDiscard
  PROVE  Position'
  <1> USE DEF IInv
  <1> SUFFICES ASSUME NEW id, id = HdrId
               PROVE  Position'
    OBVIOUS
  <1>1. /\ pc = "route" /\ pc' \in {"body", "discard"}
        /\ UNCHANGED <<peerVars, wire, idx_writer, pushed>>
    BY DEF RouteToSlot, RouteToBuffer, RouteToDiscard
  <1>2. /\ HeaderIs(id) /\ Due = After([id |-> id, part |-> 2])
        /\ Before(id) /\ id \in 1 .. Len(offered) /\ Len(heap) < id
    BY <1>1 DEF Position, AtRoute, Behind, Allocated, Receiving, HeaderIs
  <1>3. /\ id \in Nat /\ CurrentSize = offered[id].size
        /\ Units(id) = IF offered[id].size = "bare" THEN 2 ELSE 4
        /\ BodyUnits(CurrentSize) = Units(id) - 2
        /\ CurrentSize = "large" => CurrentCmd = "SEND_DATA"
    BY <1>2, HeaderKind
  <1>4. Due = IF Units(id) = 2 THEN [id |-> id + 1, part |-> 1] ELSE [id |-> id, part |-> 3]
    BY <1>2, <1>3, AfterValue
  <1>5. Due' = Due /\ Before(id)' /\ id \in 1 .. Len(offered') + 1 /\ offered' = offered
    BY <1>1, <1>2, SameStream, BeforeSame DEF peerVars, TypeOK
  <1>6. CurrentSlot'.hdr = CurrentSlot.hdr
    <2>1. slots \in [Slot -> SlotContent] /\ idx_writer \in Slot
      BY DEF TypeOK, SlotContent
    <2> QED
      BY <1>1, <2>1 DEF RouteToSlot, RouteToBuffer, RouteToDiscard, CurrentSlot, SlotContent
  <1>7. HdrId' = id /\ HeaderIs(HdrId)'
    BY <1>2, <1>5, <1>6 DEF HdrId, HeaderIs
  <1>8. CASE RouteToSlot \/ RouteToBuffer
    <2>1. pc' = "body" /\ remaining' = Units(id) - 2 /\ Len(heap') \in Nat /\ Len(heap') <= id
      <3>1. heap \in Seq(Halves) /\ Len(heap) \in Nat
        BY DEF TypeOK
      <3>2. CASE RouteToSlot
        BY <1>2, <1>3, <3>1, <3>2 DEF RouteToSlot
      <3>3. CASE RouteToBuffer
        <4>1. Len(heap') = Len(heap) + 1
          BY <3>1, <3>3, AppendProperties DEF RouteToBuffer, NoHalves, Halves, Field
        <4> QED
          BY <1>2, <1>3, <3>1, <3>3, <4>1 DEF RouteToBuffer
      <3> QED
        BY <1>8, <3>2, <3>3
    <2>2. Units(HdrId)' = Units(id)
      BY <1>5, <1>7 DEF Units
    <2>3. AtBody'
      <3>1. remaining' > 0 => Units(HdrId)' = 4
        BY <1>3, <2>1, <2>2
      <3>2. Due' = IF remaining' = 0 THEN [id |-> HdrId' + 1, part |-> 1]
                                     ELSE [id |-> HdrId', part |-> 5 - remaining']
        BY <1>3, <1>4, <1>5, <1>7, <2>1
      <3>3. offered'[HdrId'].size # "bare" => \A h \in 1 .. 2 - remaining' : Received'[h] = HdrId'
        BY <1>3, <1>5, <1>7, <2>1
      <3> QED
        BY <1>7, <3>1, <3>2, <3>3 DEF AtBody
    <2>4. Receiving' = id
      BY <1>7, <2>1 DEF Receiving
    <2> QED
      BY <1>1, <1>5, <2>1, <2>3, <2>4
      DEF Position, AtPoll, AtHeader, AtRoute, AtDiscard, AtEnd, Behind, Allocated
  <1>9. CASE RouteToDiscard
    <2>1. /\ pc' = "discard" /\ remaining' = 2 /\ heap' = heap
          /\ CurrentSize = "large" /\ MallocMayFail
      BY <1>3, <1>9 DEF RouteToDiscard
    <2>2. Due'.id = id /\ Due'.part = 3
      BY <1>3, <1>4, <1>5, <2>1
    <2>3. MayBeDiscarded(id)'
      BY <1>3, <1>5, <2>1 DEF MayBeDiscarded
    <2>4. Receiving' = id
      BY <2>1, <2>2 DEF Receiving
    <2>5. AtDiscard'
      BY <1>2, <1>5, <2>1, <2>2, <2>3 DEF AtDiscard
    <2> QED
      BY <1>1, <1>2, <1>5, <2>1, <2>4, <2>5
      DEF Position, AtPoll, AtHeader, AtRoute, AtBody, AtEnd, Behind, Allocated
  <1> QED
    BY <1>8, <1>9

LEMMA BodyReadPosition ==
  ASSUME IInv, InSync, BodyRead
  PROVE  Position'
  <1> USE DEF IInv
  <1> SUFFICES ASSUME NEW id, id = HdrId,
                      NEW r, r = remaining - 1
               PROVE  Position'
    OBVIOUS
  <1>1. /\ pc = "body" /\ pc' = "body" /\ remaining \in 1 .. 2 /\ remaining' = r /\ r \in 0 .. 1
        /\ wire # <<>> /\ dest' = dest
        /\ UNCHANGED <<peerVars, idx_writer, pushed>>
    BY DEF BodyRead, ReadsData, TypeOK
  <1>2. /\ HeaderIs(id) /\ Units(id) = 4 /\ Due = [id |-> id, part |-> 4 - r]
        /\ offered[id].size # "bare" => \A h \in 1 .. 1 - r : Received[h] = id
        /\ Before(id) /\ id \in 1 .. Len(offered) /\ Len(heap) <= id
    BY <1>1 DEF Position, AtBody, Behind, Allocated, Receiving, HeaderIs
  <1>3. id \in Nat /\ Due.id = id
    BY <1>2, HeaderKind
  <1>4. Head(wire).id = id /\ Due' = After(Due)
    BY <1>1, <1>3, DueType, ReadOne DEF BodyRead
  <1>5. Due' = IF r = 0 THEN [id |-> id + 1, part |-> 1] ELSE [id |-> id, part |-> 5 - r]
    <2>1. 4 - r \in Nat
      BY <1>1
    <2> QED
      BY <1>1, <1>2, <1>3, <1>4, <2>1, AfterValue
  <1>6. Before(id)' /\ id \in 1 .. Len(offered') + 1 /\ offered' = offered
    BY <1>1, <1>2, BeforeSame DEF peerVars, TypeOK
  <1>7. /\ CurrentSlot'.hdr = CurrentSlot.hdr /\ Len(heap') = Len(heap)
        /\ Received' = [Received EXCEPT ![2 - r] = id]
        /\ Received \in Halves
    <2>1. heap \in Seq(Halves) /\ idx_writer \in Slot /\ CurrentSlot \in SlotContent
      BY CurrentSlotType DEF TypeOK
    <2>2. 3 - remaining = 2 - r
      BY <1>1
    <2>3. CASE dest = 0
      <3>1. /\ CurrentSlot' = [CurrentSlot EXCEPT
                 !.body = [CurrentSlot.body EXCEPT ![2 - r] = id], !.dataptr = 0]
            /\ heap' = heap
        BY <1>1, <1>4, <2>2, <2>3, FilledSlot DEF CurrentSlot
      <3>2. \A c \in SlotContent : \A b :
              /\ [c EXCEPT !.body = b, !.dataptr = 0].hdr = c.hdr
              /\ [c EXCEPT !.body = b, !.dataptr = 0].body = b
        BY DEF SlotContent
      <3> QED
        BY <1>1, <2>1, <2>3, <3>1, <3>2, CurrentSlotType DEF Received
    <2>4. CASE dest # 0
      <3>1. dest \in 1 .. Len(heap)
        BY <1>1, <2>4 DEF DestInv
      <3>2. heap' = [heap EXCEPT ![dest] = [heap[dest] EXCEPT ![2 - r] = id]] /\ slots' = slots
        BY <1>4, <2>2, <2>4 DEF BodyRead
      <3>3. Len(heap') = Len(heap) /\ heap'[dest] = [heap[dest] EXCEPT ![2 - r] = id]
        BY <2>1, <3>1, <3>2
      <3>4. heap[dest] \in Halves
        BY <2>1, <3>1, ElementOfSeq
      <3> QED
        BY <1>1, <2>4, <3>2, <3>3, <3>4 DEF Received, CurrentSlot
    <2> QED
      BY <2>3, <2>4
  <1>8. HdrId' = id /\ HeaderIs(HdrId)' /\ Units(HdrId)' = Units(id)
    BY <1>2, <1>6, <1>7 DEF HdrId, HeaderIs, Units
  <1>9. AtBody'
    <2>1. offered'[HdrId'].size # "bare" => \A h \in 1 .. 2 - remaining' : Received'[h] = HdrId'
      BY <1>1, <1>2, <1>6, <1>7, <1>8 DEF Halves
    <2> QED
      BY <1>1, <1>2, <1>5, <1>8, <2>1 DEF AtBody
  <1>10. Receiving' = id
    BY <1>1, <1>8 DEF Receiving
  <1> QED
    BY <1>1, <1>2, <1>6, <1>7, <1>9, <1>10
    DEF Position, AtPoll, AtHeader, AtRoute, AtDiscard, AtEnd, Behind, Allocated

(***************************************************************************)
(* A packet has been received whole, and is pushed.                        *)
(***************************************************************************)
LEMMA WholePacket ==
  ASSUME IInv, InSync, PushPacket
  PROVE  /\ HeaderIs(HdrId) /\ HdrId \in 1 .. Len(offered)
         /\ Due = [id |-> HdrId + 1, part |-> 1]
         /\ Before(HdrId) /\ Len(heap) <= HdrId
         /\ pushed' = Append(pushed, [hdr |-> CurrentSlot.hdr, body |-> Received])
         /\ IsPacket([hdr |-> CurrentSlot.hdr, body |-> Received], HdrId)
  <1> USE DEF IInv
  <1> SUFFICES ASSUME NEW id, id = HdrId
               PROVE  /\ HeaderIs(id) /\ id \in 1 .. Len(offered)
                      /\ Due = [id |-> id + 1, part |-> 1]
                      /\ Before(id) /\ Len(heap) <= id
                      /\ pushed' = Append(pushed, [hdr |-> CurrentSlot.hdr, body |-> Received])
                      /\ IsPacket([hdr |-> CurrentSlot.hdr, body |-> Received], id)
    OBVIOUS
  <1>1. pc = "body" /\ remaining = 0
    BY DEF PushPacket
  <1>2. /\ HeaderIs(id) /\ id \in 1 .. Len(offered) /\ Due = [id |-> id + 1, part |-> 1]
        /\ offered[id].size # "bare" => \A h \in 1 .. 2 - remaining : Received[h] = id
        /\ Before(id) /\ Len(heap) <= id
    BY <1>1 DEF Position, AtBody, Behind, Allocated, Receiving, HeaderIs
  <1>3. Received \in Halves
    <2>1. heap \in Seq(Halves) /\ CurrentSlot.body \in Halves
      BY CurrentSlotType DEF TypeOK
    <2>2. dest # 0 => heap[dest] \in Halves
      BY <1>1, <2>1, ElementOfSeq DEF DestInv
    <2> QED
      BY <2>1, <2>2 DEF Received
  <1>4. offered[id].size # "bare" => Received = [h \in 1 .. 2 |-> id]
    BY <1>1, <1>2, <1>3 DEF Halves
  <1>5. IsPacket([hdr |-> CurrentSlot.hdr, body |-> Received], id)
    BY <1>2, <1>4 DEF IsPacket, HeaderIs
  <1>6. pushed' = Append(pushed, [hdr |-> CurrentSlot.hdr, body |-> Received])
    BY DEF PushPacket, Received
  <1> QED
    BY <1>2, <1>5, <1>6

LEMMA PushPosition ==
  ASSUME IInv, InSync, PushPacket
  PROVE  Position'
  <1> USE DEF IInv
  <1> SUFFICES ASSUME NEW id, id = HdrId,
                      NEW v, v = [hdr |-> CurrentSlot.hdr, body |-> Received],
                      NEW n, n = id + 1
               PROVE  Position'
    OBVIOUS
  <1>1. /\ pc' = "poll" /\ UNCHANGED <<peerVars, wire, heap>>
    BY DEF PushPacket
  <1>2. /\ HeaderIs(id) /\ id \in 1 .. Len(offered) /\ Due = [id |-> n, part |-> 1]
        /\ Before(id) /\ Len(heap) <= id
        /\ pushed' = Append(pushed, v)
    BY WholePacket
  <1>3. v.hdr.cmd = id
    BY DEF HdrId
  <1>4. Due' = Due /\ offered' = offered /\ \A i : MayBeDiscarded(i)' <=> MayBeDiscarded(i)
    BY <1>1, SameStream DEF peerVars
  <1>5. pushed \in Seq(PacketView) /\ Len(pushed) \in Nat /\ Len(heap) \in Nat /\ id \in Nat
    BY <1>2 DEF TypeOK
  <1>6. /\ Len(pushed') = Len(pushed) + 1 /\ pushed'[Len(pushed) + 1] = v
        /\ \A i \in 1 .. Len(pushed) : pushed'[i] = pushed[i]
    BY <1>2, <1>5
  <1>7. LastPushed' = id
    BY <1>3, <1>5, <1>6 DEF LastPushed, IdPushed
  <1>8. ASSUME NEW i \in 1 .. id
        PROVE  IsPushed(i)' \/ MayBeDiscarded(i)'
    <2>1. CASE i = id
      <3>1. Len(pushed) + 1 \in 1 .. Len(pushed')
        BY <1>5, <1>6
      <3> QED
        BY <1>3, <1>6, <2>1, <3>1 DEF IsPushed
    <2>2. CASE i # id
      <3>1. i \in 1 .. id - 1
        BY <1>5, <1>8, <2>2
      <3>2. IsPushed(i) => IsPushed(i)'
        BY <1>5, <1>6 DEF IsPushed
      <3> QED
        BY <1>2, <1>4, <3>1, <3>2 DEF Before
    <2> QED
      BY <2>1, <2>2
  <1>9. Before(n)'
    <2>1. n - 1 = id /\ id < n /\ id + 1 .. n - 1 = {}
      BY <1>5
    <2> QED
      BY <1>7, <1>8, <2>1 DEF Before
  <1>10. /\ Receiving' = n /\ n \in 1 .. Len(offered') + 1 /\ Len(heap') < n /\ Due'.part = 1
    BY <1>1, <1>2, <1>4, <1>5 DEF Receiving, TypeOK
  <1> QED
    BY <1>1, <1>9, <1>10
    DEF Position, AtPoll, AtHeader, AtRoute, AtBody, AtDiscard, AtEnd, Behind, Allocated

(***************************************************************************)
(* What is read of a discarded packet stays within it, or the process is   *)
(* aborted.                                                                *)
(***************************************************************************)
LEMMA DiscardPosition ==
  ASSUME IInv, InSync, Discard
  PROVE  Position'
  <1> USE DEF IInv
  <1>0. PICK n \in 1 .. Len(wire) :
          /\ wire' = SubSeq(wire, n + 1, Len(wire))
          /\ remaining' = IF n <= remaining THEN remaining - n ELSE 0
          /\ pc' = IF n > remaining THEN "aborted"
                   ELSE IF n = remaining THEN "poll" ELSE "discard"
    BY DEF Discard
  <1> SUFFICES ASSUME NEW d, d = Due.id,
                      NEW p, p = Due.part,
                      pc' # "aborted"
               PROVE  Position'
    BY DEF Position
  <1>1. /\ pc = "discard" /\ remaining \in 1 .. 2 /\ Len(wire) \in Nat /\ wire # <<>>
        /\ UNCHANGED <<peerVars, heap, pushed>> /\ n <= remaining
        /\ n \in 1 .. remaining
    <2>1. /\ pc = "discard" /\ remaining \in 1 .. 2 /\ Len(wire) \in Nat /\ wire # <<>>
          /\ UNCHANGED <<peerVars, heap, pushed>>
      BY DEF Discard, ReadsData, RemainingInv, TypeOK
    <2>2. n <= remaining
      BY <1>0, <2>1
    <2> QED
      BY <2>1, <2>2
  <1>2. /\ p = 5 - remaining /\ d \in 1 .. Len(offered) /\ MayBeDiscarded(d)
        /\ Before(d) /\ Len(heap) < d
    BY <1>1 DEF Position, AtDiscard, Behind, Allocated, Receiving
  <1>3. Units(d) = 4 /\ d \in Nat /\ p \in Nat /\ Due = [id |-> d, part |-> p]
    BY <1>1, <1>2, KindOf, DueType DEF MayBeDiscarded
  <1>4. WireInv' /\ Due' = UnitAt(n + 1)
    BY <1>0, <1>1, ReadStream
  <1>5. UnitAt(2) = After(Due)
    BY <1>1, DueType DEF WireInv
  <1>6. Due' = IF n = remaining THEN [id |-> d + 1, part |-> 1]
                                ELSE [id |-> d, part |-> p + 1]
    <2>1. CASE n = 1
      <3>1. Due' = After([id |-> d, part |-> p])
        BY <1>3, <1>4, <1>5, <2>1
      <3> QED
        <4>1. Due' = IF p < 4 THEN [id |-> d, part |-> p + 1] ELSE [id |-> d + 1, part |-> 1]
          BY <1>3, <3>1 DEF After
        <4>2. p < 4 <=> n # remaining
          BY <1>1, <1>2, <2>1
        <4> QED
          BY <4>1, <4>2
    <2>2. CASE n # 1
      <3>1. n = 2 /\ remaining = 2 /\ p = 3 /\ 2 \in 1 .. Len(wire)
        BY <1>0, <1>1, <1>2, <2>2
      <3>2. wire[2] = UnitAt(2) /\ UnitAt(2 + 1) = After(wire[2])
        BY <1>1, <3>1 DEF UnitAt, WireInv
      <3>3. wire[2] = [id |-> d, part |-> 4]
        BY <1>3, <1>5, <3>1, <3>2 DEF After
      <3>4. Due' = After([id |-> d, part |-> 4])
        BY <1>4, <3>1, <3>2, <3>3
      <3> QED
        <4>1. After([id |-> d, part |-> 4]) = [id |-> d + 1, part |-> 1]
          BY <1>3 DEF After
        <4> QED
          BY <3>1, <3>4, <4>1
    <2> QED
      BY <2>1, <2>2
  <1>7. /\ Before(d)' /\ offered' = offered
        /\ \A i : MayBeDiscarded(i)' <=> MayBeDiscarded(i)
    BY <1>1, <1>2, BeforeSame DEF peerVars, TypeOK, MayBeDiscarded
  <1>8. CASE n = remaining
    <2> SUFFICES ASSUME NEW m, m = d + 1
                 PROVE  Position'
      OBVIOUS
    <2>1. /\ pc' = "poll" /\ Due' = [id |-> m, part |-> 1]
      BY <1>0, <1>1, <1>6, <1>8
    <2>2. Before(m)'
      <3>1. LastPushed' \in Nat /\ LastPushed' < d
        BY <1>1, <1>7, LastPushedType DEF Before, LastPushed, IdPushed
      <3>2. \A i \in 1 .. m - 1 : i = d \/ i \in 1 .. d - 1
        BY <1>3
      <3>3. \A i \in LastPushed' + 1 .. m - 1 : i = d \/ i \in LastPushed' + 1 .. d - 1
        <4>1. \A l \in Nat : \A i \in l + 1 .. m - 1 : i = d \/ i \in l + 1 .. d - 1
          BY <1>3
        <4> QED
          BY <3>1, <4>1
      <3>4. LastPushed' < m
        BY <1>3, <3>1
      <3>5. \A i \in 1 .. m - 1 : IsPushed(i)' \/ MayBeDiscarded(i)'
        BY <1>2, <1>7, <3>2 DEF Before
      <3>6. \A i \in LastPushed' + 1 .. m - 1 : MayBeDiscarded(i)'
        BY <1>2, <1>7, <3>3 DEF Before
      <3> QED
        BY <3>4, <3>5, <3>6 DEF Before
    <2>3. Receiving' = m /\ m \in 1 .. Len(offered') + 1 /\ Len(heap') < m
      <3>1. Len(heap) \in Nat /\ Len(offered) \in Nat /\ heap' = heap /\ pc' = "poll"
        BY <1>1, <2>1 DEF TypeOK
      <3>2. Receiving' = m
        BY <2>1, <3>1 DEF Receiving
      <3> QED
        BY <1>2, <1>3, <1>7, <3>1, <3>2
    <2> QED
      BY <2>1, <2>2, <2>3
      DEF Position, AtPoll, AtHeader, AtRoute, AtBody, AtDiscard, AtEnd, Behind, Allocated
  <1>9. CASE n # remaining
    <2>1. n = 1 /\ remaining = 2 /\ pc' = "discard" /\ remaining' = 1 /\ p = 3
      BY <1>0, <1>1, <1>2, <1>9
    <2>2. Due'.id = d /\ Due'.part = 5 - remaining'
      BY <1>6, <1>9, <2>1
    <2>3. Receiving' = d
      BY <2>1, <2>2 DEF Receiving
    <2>4. d \in 1 .. Len(offered') + 1 /\ Len(heap') < d /\ MayBeDiscarded(d)'
      BY <1>1, <1>2, <1>7 DEF TypeOK
    <2> QED
      BY <1>2, <1>7, <2>1, <2>2, <2>3, <2>4
      DEF Position, AtPoll, AtHeader, AtRoute, AtBody, AtDiscard, AtEnd, Behind, Allocated
  <1> QED
    BY <1>8, <1>9

LEMMA PeerPosition ==
  ASSUME IInv, InSync, Peer
  PROVE  Position'
  <1> USE DEF IInv
  <1> SUFFICES ASSUME pc # "aborted",
                      NEW r, r = Receiving
               PROVE  Position'
    BY PeerFrame DEF Position
  <1>1. /\ AtPoll /\ AtHeader /\ AtRoute /\ AtBody /\ AtDiscard /\ AtEnd
        /\ Behind /\ Allocated
    BY DEF Position
  <1>2. /\ UNCHANGED <<transport, fd_open, pc, remaining, dest, slots, idx_writer, heap, pushed>>
        /\ link = "open" \/ (link = "eof" /\ UNCHANGED <<peerVars, wire, sockerr>>)
    BY PeerFrame
  <1>3. /\ Due' = Due /\ Len(offered) \in Nat
        /\ Len(offered') \in Nat /\ Len(offered) <= Len(offered')
        /\ \A id \in 1 .. Len(offered) : offered'[id] = offered[id]
    BY PeerStream DEF TypeOK
  <1>4. \A id \in 1 .. Len(offered) : /\ Units(id)' = Units(id)
                                      /\ MayBeDiscarded(id)' <=> MayBeDiscarded(id)
    BY <1>3 DEF Units, MayBeDiscarded
  <1>5. /\ HdrId' = HdrId /\ Receiving' = r
        /\ HeaderIs(HdrId) => HeaderIs(HdrId)' /\ HdrId \in 1 .. Len(offered)
    BY <1>2, <1>3 DEF HdrId, CurrentSlot, Receiving, HeaderIs
  <1>6. wire # <<>> => wire' # <<>>
    <2>1. wire \in Seq([id : PacketId, part : 1 .. 4])
      BY DEF TypeOK
    <2>2. \A u : Append(wire, u) # <<>>
      BY <2>1
    <2> QED
      BY <2>2 DEF Peer, PeerStarts, PeerContinues, PeerEnds, PeerResets
  <1>7. AtPoll'
    BY <1>1, <1>2, <1>3 DEF AtPoll
  <1>8. AtHeader'
    <2>1. link = "open" \/ (link' # "open" /\ sockerr' = sockerr)
      BY <1>2 DEF Peer, PeerStarts, PeerContinues, PeerEnds, PeerResets
    <2> QED
      BY <1>1, <1>2, <1>3, <1>5, <1>6, <2>1 DEF AtHeader
  <1>9. AtRoute'
    <2>1. pc = "route" => /\ HeaderIs(HdrId) /\ HdrId \in Nat
                          /\ Due = After([id |-> HdrId, part |-> 2])
      BY <1>1, <1>3 DEF AtRoute, HeaderIs
    <2>2. pc = "route" => After([id |-> HdrId, part |-> 2])' = After([id |-> HdrId, part |-> 2])
      BY <1>4, <1>5, <2>1 DEF After
    <2> QED
      BY <1>2, <1>3, <1>5, <2>1, <2>2 DEF AtRoute
  <1>10. AtBody'
    <2>1. Received' = Received
      BY <1>2 DEF Received, CurrentSlot
    <2>2. pc = "body" => /\ HdrId \in 1 .. Len(offered)
                         /\ Units(HdrId)' = Units(HdrId)
                         /\ offered'[HdrId] = offered[HdrId]
      BY <1>1, <1>3, <1>4, <1>5 DEF AtBody
    <2> QED
      BY <1>1, <1>2, <1>3, <1>5, <2>1, <2>2 DEF AtBody
  <1>11. AtDiscard'
    BY <1>1, <1>2, <1>3, <1>4 DEF AtDiscard
  <1>12. AtEnd'
    <2>1. pc \in {"close", "done"} => link = "eof" /\ UNCHANGED wire
      BY <1>2 DEF LinkInv
    <2> QED
      BY <1>1, <1>2, <2>1 DEF AtEnd
  <1>13. Behind'
    <2>1. pc # "exited" => r \in 1 .. Len(offered) + 1 /\ Before(r)
      BY <1>1 DEF Behind
    <2>2. pc # "exited" => r \in 1 .. Len(offered') + 1 /\ Before(r)'
      BY <1>2, <1>3, <2>1, BeforeSame
    <2> QED
      BY <1>2, <1>5, <2>2 DEF Behind
  <1>14. Allocated'
    BY <1>1, <1>2, <1>5 DEF Allocated
  <1> QED
    BY <1>7, <1>8, <1>9, <1>10, <1>11, <1>12, <1>13, <1>14 DEF Position

(***************************************************************************)
(* The other steps of the receiver leave the stream and the slot alone.    *)
(***************************************************************************)
LEMMA IdlePosition ==
  ASSUME IInv, InSync, Idle, ~RouteToSlot, ~RouteToDiscard
  PROVE  Position'
  <1> USE DEF IInv
  <1> SUFFICES ASSUME pc # "aborted", pc' # "aborted", InSync',
                      NEW r, r = Receiving
               PROVE  Position'
    <2>1. pc # "aborted"
      BY DEF Idle, Hangup, StartPacket, SleepOver, HeaderReadFails, HeaderEof,
        RouteAsserts, BodyReadFails, BodyEof, DiscardEof, DiscardFails, EndThread
    <2> QED
      BY <2>1 DEF Position
  <1>1. /\ AtPoll /\ AtHeader /\ AtRoute /\ AtBody /\ AtDiscard /\ AtEnd
        /\ Behind /\ Allocated
    BY DEF Position
  <1>2. UNCHANGED <<peerVars, wire, link, slots, idx_writer, heap, live, pushed, readerVars>>
    BY IdleFrame
  <1>3. /\ Due' = Due /\ offered' = offered /\ HdrId' = HdrId
        /\ transport' = transport
    BY <1>2, SameStream DEF HdrId, CurrentSlot, peerVars
  <1>4. r \in 1 .. Len(offered) + 1 => (Before(r) => Before(r)')
    BY <1>2, <1>3, BeforeSame DEF TypeOK
  <1>5. sockerr' => sockerr
    BY DEF Idle, Hangup, StartPacket, SleepOver, HeaderReadFails, HeaderEof,
      RouteAsserts, BodyReadFails, BodyEof, DiscardEof, DiscardFails, EndThread
  <1>6. ~ReadFails \/ sockerr'
    BY <1>2, InSync' DEF ReadFails, InSync, LinkInv
  <1>7. CASE Hangup \/ StartPacket \/ SleepOver
    <2>1. Receiving' = r /\ pc \in {"poll", "sleep"} /\ Due.part = 1
      BY <1>1, <1>3, <1>7 DEF Hangup, StartPacket, SleepOver, Receiving, AtPoll
    <2>2. Behind' /\ Allocated'
      BY <1>1, <1>2, <1>3, <1>4, <1>7, <2>1
      DEF Behind, Allocated, Hangup, StartPacket, SleepOver
    <2>3. /\ pc' \in {"close", "header", "poll", "sleep"}
          /\ pc' = "close" => transport = "pipe" \/ link = "reset"
          /\ pc' = "header" => /\ remaining' = 2 /\ sockerr' = sockerr
                               /\ wire # <<>> \/ (link # "open" /\ ~sockerr)
      BY <1>7 DEF Hangup, StartPacket, SleepOver, PollHup, PollIn, LinkInv
    <2>4. AtHeader'
      BY <1>2, <1>3, <2>1, <2>3 DEF AtHeader
    <2>5. AtEnd'
      BY <1>2, <1>3, <2>3 DEF AtEnd, TypeOK
    <2> QED
      BY <1>3, <2>1, <2>2, <2>3, <2>4, <2>5 DEF Position, AtPoll, AtRoute, AtBody, AtDiscard
  <1>8. CASE HeaderEof \/ BodyEof
    <2>1. pc' = "close" /\ wire = <<>> /\ pc \in {"header", "body"}
      BY <1>8 DEF HeaderEof, BodyEof, ReadsEof
    <2>2. Receiving' = r
      <3>1. pc = "body" => Due.id = HdrId
        <4>1. pc = "body" => Due = [id |-> HdrId, part |-> 5 - remaining]
          BY <1>1, <1>8 DEF AtBody, BodyEof, HeaderEof, TypeOK
        <4> QED
          BY <4>1
      <3> QED
        BY <1>3, <2>1, <3>1 DEF Receiving
    <2> QED
      BY <1>1, <1>2, <1>3, <1>4, <2>1, <2>2
      DEF Position, AtPoll, AtHeader, AtRoute, AtBody, AtDiscard, AtEnd, Behind, Allocated
  <1>9. CASE DiscardEof
    BY <1>9
    DEF DiscardEof, Position, AtPoll, AtHeader, AtRoute, AtBody, AtDiscard, AtEnd, Behind, Allocated
  <1>10. CASE EndThread
    <2>1. pc = "close" /\ pc' = "done" /\ Receiving' = r
      BY <1>3, <1>10 DEF EndThread, Receiving
    <2> QED
      BY <1>1, <1>2, <1>3, <1>4, <2>1
      DEF Position, AtPoll, AtHeader, AtRoute, AtBody, AtDiscard, AtEnd, Behind, Allocated
  <1>11. CASE HeaderReadFails \/ BodyReadFails
    BY <1>6, <1>11 DEF HeaderReadFails, BodyReadFails
  <1> QED
    BY <1>7, <1>8, <1>9, <1>10, <1>11 DEF Idle, RouteAsserts, DiscardFails

LEMMA StepPosition ==
  ASSUME IInv, [Next]_vars
  PROVE  Position'
  <1> SUFFICES ASSUME InSync, InSync', pc # "aborted"
               PROVE  Position'
    BY StepInSync DEF Position
  <1>1. CASE Reader \/ UNCHANGED vars
    <2>1. UNCHANGED <<peerVars, wire, link, sockerr, fd_open, pc, remaining, dest, slots,
                      idx_writer, ring_open, heap, live, pushed>>
      BY <1>1, ReaderFrame DEF vars
    <2>2. /\ Due' = Due /\ offered' = offered /\ transport' = transport
          /\ HdrId' = HdrId /\ CurrentSlot' = CurrentSlot /\ Received' = Received
          /\ Receiving' = Receiving /\ HeaderIs(HdrId)' = HeaderIs(HdrId)
      BY <2>1, SameStream DEF HdrId, CurrentSlot, Received, Receiving, HeaderIs, peerVars
    <2>3. /\ Before(Receiving)' = Before(Receiving)
          /\ After([id |-> HdrId, part |-> 2])' = After([id |-> HdrId, part |-> 2])
          /\ Units(HdrId)' = Units(HdrId)
          /\ MayBeDiscarded(Due.id)' = MayBeDiscarded(Due.id)
      BY <2>1, <2>2
      DEF Before, After, Units, MayBeDiscarded, IsPushed, LastPushed, IdPushed
    <2> QED
      BY <2>1, <2>2, <2>3
      DEF IInv, Position, AtPoll, AtHeader, AtRoute, AtBody, AtDiscard, AtEnd, Behind, Allocated
  <1> QED
    BY <1>1, PeerPosition, HeaderReadPosition, RoutePosition, BodyReadPosition, PushPosition,
      DiscardPosition, IdlePosition
    DEF Next, Receiver, Idle, Terminated

LEMMA StepHeapBound ==
  ASSUME IInv, [Next]_vars
  PROVE  HeapBound'
  <1> USE DEF IInv
  <1>0. /\ heap \in Seq(Halves) /\ Len(heap) \in Nat /\ Len(offered) \in Nat
    BY DEF TypeOK
  <1>1. CASE Peer
    BY <1>0, <1>1, PeerFrame, PeerStream DEF HeapBound
  <1>2. CASE HeaderRead \/ HeaderReadFails
    <2>1. UNCHANGED <<heap, offered>>
      BY <1>2 DEF HeaderRead, HeaderReadFails, peerVars
    <2>2. pc' = "route" => Len(heap) < Due.id /\ Due.id <= Len(offered)
      <3>1. InSync /\ pc = "header"
        BY <1>2 DEF HeaderRead, HeaderReadFails, ReadsData, ReadFails, InSync
      <3>2. AtHeader /\ Len(heap) < Due.id
        BY <3>1 DEF Position, Allocated, Receiving
      <3>3. CASE HeaderRead
        BY <3>2, <3>3, DueType, <1>0 DEF HeaderRead, ReadsData
      <3>4. CASE HeaderReadFails
        BY <3>1, <3>2, <3>4, DueType DEF HeaderReadFails, ReadFails, AtHeader
      <3> QED
        BY <1>2, <3>3, <3>4
    <2>3. Due.id \in Nat
      BY DueType
    <2> QED
      BY <1>0, <2>1, <2>2, <2>3 DEF HeapBound
  <1>3. CASE RouteToBuffer
    <2>1. Len(heap') = Len(heap) + 1
      BY <1>0, <1>3, AppendProperties DEF RouteToBuffer, NoHalves, Halves, Field
    <2> QED
      BY <1>0, <1>3, <2>1 DEF HeapBound, RouteToBuffer, peerVars
  <1>4. CASE BodyRead
    <2>1. Len(heap') = Len(heap)
      BY <1>0, <1>4 DEF BodyRead
    <2> QED
      BY <1>4, <2>1 DEF HeapBound, BodyRead, peerVars
  <1>5. CASE PushPacket \/ Discard
    <2>1. CASE Discard
      <3>1. pc' # "route" /\ UNCHANGED <<heap, offered>>
        BY <2>1 DEF Discard, peerVars
      <3> QED
        BY <3>1 DEF HeapBound
    <2>2. CASE PushPacket
      BY <2>2 DEF HeapBound, PushPacket, peerVars
    <2> QED
      BY <1>5, <2>1, <2>2
  <1>6. CASE Idle /\ ~HeaderReadFails
    <2>1. pc' # "route"
      BY <1>6 DEF Idle, Hangup, StartPacket, SleepOver, HeaderReadFails, HeaderEof, RouteToSlot,
        RouteToDiscard, RouteAsserts, BodyReadFails, BodyEof, DiscardEof, DiscardFails, EndThread
    <2> QED
      BY <1>6, <2>1, IdleFrame DEF HeapBound, peerVars
  <1>7. CASE Reader \/ UNCHANGED vars
    BY <1>7, ReaderFrame DEF HeapBound, vars, peerVars
  <1> QED
    BY <1>1, <1>2, <1>3, <1>4, <1>5, <1>6, <1>7 DEF Next, Receiver, Idle, Terminated

(***************************************************************************)
(* What has been pushed stays; what is pushed is a whole packet, the next  *)
(* one that is not discarded.                                              *)
(***************************************************************************)
LEMMA StepPushed ==
  ASSUME IInv, [Next]_vars
  PROVE  PushedFaithful'
  <1> USE DEF IInv
  <1> SUFFICES ASSUME link' # "reset"
               PROVE  PushedFaithful'
    BY DEF PushedFaithful
  <1>0. /\ pushed \in Seq(PacketView) /\ Len(pushed) \in Nat /\ Len(offered) \in Nat
        /\ \A i \in 0 .. Len(pushed) : IdPushed(i) \in 0 .. Len(offered)
    BY LastPushedType DEF TypeOK
  <1>1. /\ link # "reset"
        /\ \A id \in 1 .. Len(offered) : offered'[id] = offered[id]
    <2>1. CASE Peer
      BY <2>1, PeerStream DEF Peer, PeerStarts, PeerContinues, PeerEnds, PeerResets
    <2>2. CASE ~Peer
      <3>1. UNCHANGED <<link, offered>>
        BY <2>2, ReaderFrame, IdleFrame
        DEF Next, Receiver, Idle, HeaderRead, RouteToBuffer, BodyRead, PushPacket, Discard,
          Terminated, vars, peerVars
      <3> QED
        BY <3>1
    <2> QED
      BY <2>1, <2>2
  <1>2. ASSUME NEW n \in Nat, n = Len(pushed), NEW i \in 1 .. n,
               n <= Len(pushed'), \A j \in 1 .. n : pushed'[j] = pushed[j]
        PROVE  /\ (IdPushed(i) > IdPushed(i - 1))'
               /\ IsPacket(pushed[i], IdPushed(i))'
               /\ \A j \in IdPushed(i - 1)' + 1 .. IdPushed(i)' - 1 : MayBeDiscarded(j)'
    <2>1. i - 1 \in 0 .. n /\ i \in 0 .. n /\ (i - 1 # 0 => i - 1 \in 1 .. n)
      BY <1>2
    <2>2. IdPushed(i)' = IdPushed(i) /\ IdPushed(i - 1)' = IdPushed(i - 1)
      BY <1>2, <2>1 DEF IdPushed
    <2>3. /\ IdPushed(i) > IdPushed(i - 1)
          /\ IsPacket(pushed[i], IdPushed(i))
          /\ \A j \in IdPushed(i - 1) + 1 .. IdPushed(i) - 1 : MayBeDiscarded(j)
      BY <1>1, <1>2 DEF PushedFaithful
    <2>4. IdPushed(i) \in 0 .. Len(offered) /\ IdPushed(i - 1) \in 0 .. Len(offered)
      BY <1>0, <1>2, <2>1
    <2>5. IdPushed(i) \in 1 .. Len(offered)
      BY <1>0, <2>3, <2>4
    <2>6. IsPacket(pushed[i], IdPushed(i))'
      BY <1>1, <1>2, <2>2, <2>3, <2>5 DEF IsPacket
    <2>7. \A j \in IdPushed(i - 1) + 1 .. IdPushed(i) - 1 : MayBeDiscarded(j)'
      <3>1. \A j \in IdPushed(i - 1) + 1 .. IdPushed(i) - 1 : j \in 1 .. Len(offered)
        BY <1>0, <2>4
      <3> QED
        BY <1>1, <2>3, <3>1 DEF MayBeDiscarded
    <2> QED
      BY <2>2, <2>3, <2>6, <2>7
  <1>3. CASE pushed' = pushed
    BY <1>0, <1>2, <1>3 DEF PushedFaithful
  <1>4. CASE PushPacket
    <2> SUFFICES ASSUME NEW id, id = HdrId,
                        NEW n, n = Len(pushed),
                        NEW m, m = n + 1,
                        NEW v, v = [hdr |-> CurrentSlot.hdr, body |-> Received]
                 PROVE  PushedFaithful'
      OBVIOUS
    <2>1. /\ id \in 1 .. Len(offered) /\ Before(id) /\ IsPacket(v, id)
          /\ pushed' = Append(pushed, v) /\ v.hdr.cmd = id /\ offered' = offered
      BY <1>1, <1>4, WholePacket DEF InSync, HdrId, PushPacket, peerVars
    <2>2. /\ n \in Nat /\ Len(pushed') = m /\ pushed'[m] = v
          /\ \A j \in 1 .. n : pushed'[j] = pushed[j]
      BY <1>0, <2>1
    <2>3. IdPushed(m)' = id /\ IdPushed(m - 1)' = LastPushed
      <3>1. m # 0 /\ m - 1 = n /\ (n # 0 => n \in 1 .. n)
        BY <2>2
      <3> QED
        BY <2>1, <2>2, <3>1 DEF IdPushed, LastPushed
    <2>4. IsPacket(pushed[m], IdPushed(m))'
      BY <2>1, <2>2, <2>3 DEF IsPacket
    <2>5. /\ LastPushed < id
          /\ \A j \in LastPushed + 1 .. id - 1 : MayBeDiscarded(j)'
      BY <2>1 DEF Before, MayBeDiscarded
    <2>6. (IdPushed(m) > IdPushed(m - 1))'
      <3>1. LastPushed \in Nat /\ id \in Nat
        BY <1>0, <2>1, LastPushedType
      <3> QED
        BY <2>3, <2>5, <3>1
    <2>7. \A i \in 1 .. m : i = m \/ i \in 1 .. n
      BY <2>2
    <2>8. n <= Len(pushed')
      BY <2>2
    <2> QED
      BY <1>2, <2>2, <2>3, <2>4, <2>5, <2>6, <2>7, <2>8 DEF PushedFaithful
  <1>5. PushPacket \/ pushed' = pushed
    BY PeerFrame, ReaderFrame, IdleFrame
    DEF Next, Receiver, Idle, HeaderRead, RouteToBuffer, BodyRead, Discard, Terminated, vars
  <1> QED
    BY <1>3, <1>4, <1>5

-----------------------------------------------------------------------------
(* The inductive invariant holds.                                          *)

LEMMA InitIInv ==
  ASSUME Init
  PROVE  IInv
  <1>0. RingSize \in Nat /\ RingSize >= 2 /\ MaxPackets \in Nat /\ 0 \in Slot
    BY RecvrAssumption DEF Slot
  <1>1. TypeOK
    <2>1. slots \in [Slot -> [hdr : Header, body : Halves, dataptr : 0 .. MaxPackets]]
      <3>1. NoHeader \in Header /\ NoHalves \in Halves /\ 0 \in 0 .. MaxPackets
        BY <1>0 DEF NoHeader, Header, NoHalves, Halves, Field, Garbage
      <3> QED
        BY <3>1 DEF Init
    <2>2. /\ offered \in Seq(Kinds) /\ wire \in Seq([id : PacketId, part : 1 .. 4])
          /\ heap \in Seq(Halves) /\ pushed \in Seq(PacketView) /\ delivered \in Seq(PacketView)
      BY DEF Init
    <2>3. /\ Len(offered) = 0 /\ Len(offered) <= MaxPackets
          /\ partial \in 0 .. 3 /\ remaining \in 0 .. 2 /\ dest \in 0 .. MaxPackets
      BY <1>0 DEF Init
    <2>4. idx_reader \in Slot /\ idx_writer \in Slot /\ pc \in RecvrPC
      BY <1>0 DEF Init, RecvrPC
    <2>5. /\ sockerr \in BOOLEAN /\ fd_open \in BOOLEAN /\ ring_open \in BOOLEAN
          /\ busy \in BOOLEAN /\ stopped \in BOOLEAN
      BY DEF Init
    <2>6. /\ transport \in Transports /\ link \in {"open", "eof", "reset"}
          /\ live \subseteq DOMAIN heap /\ taken \subseteq DOMAIN heap
      BY DEF Init
    <2> QED
      BY <2>1, <2>2, <2>3, <2>4, <2>5, <2>6 DEF TypeOK
  <1>2. /\ Len(offered) = 0 /\ Len(wire) = 0 /\ Len(heap) = 0 /\ Len(pushed) = 0
        /\ Len(delivered) = 0
    BY DEF Init
  <1>3. WireInv /\ LinkInv /\ PushedFaithful /\ HeapBound /\ RemainingInv
    BY <1>2 DEF Init, WireInv, LinkInv, PushedFaithful, HeapBound, RemainingInv
  <1>4. Due = [id |-> 1, part |-> 1]
    BY <1>2 DEF Init, Due, UnitAt, NextWritten
  <1>5. Position
    <2>1. Receiving = 1
      BY <1>4 DEF Init, Receiving
    <2>2. Before(1)
      BY <1>2 DEF Before, LastPushed, IdPushed
    <2> QED
      BY <1>2, <1>4, <2>1, <2>2
      DEF Init, Position, AtPoll, AtHeader, AtRoute, AtBody, AtDiscard, AtEnd, Behind, Allocated
  <1>6. RefsInv /\ SlotFree /\ DestInv
    BY <1>2 DEF Init, RefsInv, SlotFree, DestInv, NoHeader, Garbage
  <1>7. Occupancy = 0 /\ FirstUnread = 0 /\ Unread = {}
    <2>1. Occupancy = 0
      BY <1>0, OccupancyValue DEF Init
    <2> QED
      BY <2>1 DEF Init, FirstUnread, Unread, Slot
  <1>8. QueueInv /\ OwnerInv
    BY <1>2, <1>7 DEF Init, QueueInv, OwnerInv, LargeUnread
  <1> QED
    BY <1>1, <1>3, <1>5, <1>6, <1>8 DEF IInv

LEMMA StepIInv ==
  ASSUME IInv, [Next]_vars
  PROVE  IInv'
  BY StepType, StepWire, StepLink, StepPosition, StepPushed, StepHeapBound, StepRefs,
    StepSlotFree, StepDest, StepQueue, StepOwner
  DEF IInv

THEOREM IInvAlways == Spec => []IInv
  BY InitIInv, StepIInv, PTL DEF Spec, SafeSpec

-----------------------------------------------------------------------------
(* The safety properties.                                                  *)

(***************************************************************************)
(* Every variable keeps its type: no index leaves the ring, and no more    *)
(* buffers are allocated than packets offered.                             *)
(***************************************************************************)
THEOREM TypeCorrect == Spec => []TypeOK
  <1>1. IInv => TypeOK
    BY DEF IInv
  <1> QED
    BY <1>1, IInvAlways, PTL

(***************************************************************************)
(* Without a reset, recvr_handle_packet pushes the packets of the peer,    *)
(* whole, in order and each once, passing over only large ones it had no   *)
(* memory for.                                                             *)
(***************************************************************************)
THEOREM PacketsFaithful == Spec => []PushedFaithful
  <1>1. IInv => PushedFaithful
    BY DEF IInv
  <1> QED
    BY <1>1, IInvAlways, PTL

(***************************************************************************)
(* Without a reset, what the receiver takes for a header is one.           *)
(***************************************************************************)
THEOREM FramingKept == Spec => []Framing
  <1>1. ASSUME IInv
        PROVE  Framing
    BY <1>1, DueType DEF IInv, Position, InSync, AtPoll, Framing
  <1> QED
    BY <1>1, IInvAlways, PTL

(***************************************************************************)
(* What ring_pop_ptr_get hands to the reader is what was pushed, in order, *)
(* the contents of a large packet's buffer included.                       *)
(***************************************************************************)
THEOREM DeliveredInOrder == Spec => []DeliveredIsPushed
  <1>1. ASSUME IInv
        PROVE  DeliveredIsPushed
    <2>1. /\ Len(pushed) \in Nat /\ Len(delivered) \in Nat
          /\ FirstUnread \in 0 .. 1 /\ Occupancy \in Nat
      BY <1>1, UnreadSlots DEF IInv, TypeOK
    <2> QED
      BY <1>1, <2>1 DEF IInv, QueueInv, DeliveredIsPushed
  <1> QED
    BY <1>1, IInvAlways, PTL

(***************************************************************************)
(* The owner of a malloc'd buffer, as the inductive invariant has it, is   *)
(* the one HeapOwned counts.                                               *)
(***************************************************************************)
LEMMA SlotOwners ==
  ASSUME IInv, NEW b \in live
  PROVE  {s \in QueuedSlots : CmdOf(slots[s].hdr) = "SEND_DATA" /\ slots[s].dataptr = b}
           = {SlotAt(idx_reader, k) : k \in {j \in LargeUnread : Queued(j).dataptr = b}}
  <1>1. b # 0
    BY DEF IInv, OwnerInv
  <1>2. QueuedSlots = {SlotAt(idx_reader, k) : k \in Unread}
    <2>1. {k \in 0 .. RingSize - 1 : k < Occupancy /\ ~(busy /\ k = 0)} = Unread
      <3>1. \A k \in Slot : ~(busy /\ k = 0) <=> FirstUnread <= k
        BY RecvrAssumption DEF FirstUnread, Slot, IInv, TypeOK
      <3> QED
        BY <3>1 DEF Unread, Slot
    <2> QED
      BY <2>1 DEF QueuedSlots, Occupancy, SlotAt
  <1>3. \A k \in Unread :
          k \in LargeUnread /\ Queued(k).dataptr = b
            <=> /\ CmdOf(slots[SlotAt(idx_reader, k)].hdr) = "SEND_DATA"
                /\ slots[SlotAt(idx_reader, k)].dataptr = b
    BY <1>1 DEF LargeUnread, IsLarge, Queued
  <1> QED
    BY <1>2, <1>3 DEF LargeUnread

LEMMA BufferOwned ==
  ASSUME IInv, NEW b \in live
  PROVE  Cardinality(Owners(b)) = 1 \/ (Owners(b) = {} /\ ~fd_open /\ b = dest)
  <1> DEFINE S == {<<"slot", SlotAt(idx_reader, k)>> :
                     k \in {j \in LargeUnread : Queued(j).dataptr = b}}
             R == {<<"receiver", d>> : d \in {dest} \cap (IF pc = "body" THEN {b} ELSE {})}
             T == {<<"reader", d>> : d \in taken \cap {b}}
  <1>1. Owners(b) = S \cup R \cup T
    <2>1. {<<"slot", s>> : s \in {q \in QueuedSlots : /\ CmdOf(slots[q].hdr) = "SEND_DATA"
                                                     /\ slots[q].dataptr = b}} = S
      BY SlotOwners
    <2> QED
      BY <2>1 DEF Owners
  <1>2. \A x : Cardinality({x}) = 1
    BY FS_Singleton, Zenon
  <1>3. CASE b \in taken
    <2>1. S = {} /\ R = {} /\ T = {<<"reader", b>>}
      BY <1>3 DEF IInv, OwnerInv
    <2>2. Owners(b) = {<<"reader", b>>}
      BY <1>1, <2>1
    <2> QED
      BY <1>2, <2>2, Zenon
  <1>4. CASE pc = "body" /\ dest = b
    <2>1. S = {} /\ R = {<<"receiver", b>>} /\ T = {}
      BY <1>4 DEF IInv, OwnerInv
    <2>2. Owners(b) = {<<"receiver", b>>}
      BY <1>1, <2>1
    <2> QED
      BY <1>2, <2>2, Zenon
  <1>5. ASSUME NEW k \in LargeUnread, Queued(k).dataptr = b
        PROVE  Cardinality(Owners(b)) = 1
    <2>1. R = {} /\ T = {}
      BY <1>5 DEF IInv, OwnerInv
    <2>2. {j \in LargeUnread : Queued(j).dataptr = b} = {k}
      BY <1>5 DEF IInv, OwnerInv
    <2>3. S = {<<"slot", SlotAt(idx_reader, k)>>}
      BY <2>2
    <2>4. Owners(b) = {<<"slot", SlotAt(idx_reader, k)>>}
      BY <1>1, <2>1, <2>3
    <2> QED
      BY <1>2, <2>4, Zenon
  <1>6. CASE /\ b \notin taken /\ ~(pc = "body" /\ dest = b)
             /\ ~\E k \in LargeUnread : Queued(k).dataptr = b
    <2>1. ~fd_open /\ b = dest
      BY <1>6 DEF IInv, OwnerInv
    <2>2. S = {} /\ R = {} /\ T = {}
      BY <1>6
    <2> QED
      BY <1>1, <2>1, <2>2
  <1> QED
    BY <1>3, <1>4, <1>5, <1>6

(***************************************************************************)
(* No buffer of a large packet is freed twice, used by two, or lost, but   *)
(* the one of a packet the stream ended in.                                *)
(***************************************************************************)
THEOREM BuffersOwned == Spec => []HeapOwned
  <1>1. IInv => HeapOwned
    BY BufferOwned DEF HeapOwned
  <1> QED
    BY <1>1, IInvAlways, PTL

(***************************************************************************)
(* When the peer of a socket ends in an orderly way, every packet it wrote *)
(* whole has been pushed or discarded before the thread is over.           *)
(***************************************************************************)
THEOREM NothingLostAtEof == Spec => []EofPushesAll
  <1>1. ASSUME IInv, transport = "tcp", link = "eof", pc = "done"
        PROVE  \A id \in 1 .. Complete : IsPushed(id) \/ MayBeDiscarded(id)
    <2>1. wire = <<>> /\ Before(Due.id)
      BY <1>1 DEF IInv, Position, InSync, AtEnd, Behind, Receiving
    <2>2. Due = NextWritten /\ Len(offered) \in Nat /\ partial \in Nat
      BY <1>1, <2>1, DueType DEF IInv, TypeOK
    <2>3. Due.id = Complete + 1 /\ Complete \in Int
      BY <1>1, <2>2, NextWrittenType DEF IInv, Complete
    <2>4. Due.id - 1 = Complete
      BY <2>3
    <2> QED
      BY <2>1, <2>4 DEF Before
  <1>2. IInv => EofPushesAll
    BY <1>1 DEF EofPushesAll
  <1> QED
    BY <1>2, IInvAlways, PTL
=============================================================================
