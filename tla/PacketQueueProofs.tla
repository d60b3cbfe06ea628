------------------------- MODULE PacketQueueProofs -------------------------
(***************************************************************************)
(* The queue of module PacketQueue is a FIFO, for every capacity and every *)
(* set of packets.                                                         *)
(***************************************************************************)
EXTENDS PacketQueue, SequenceTheorems, TLAPS

(***************************************************************************)
(* What still has to be delivered.                                         *)
(***************************************************************************)
Waiting == IF busy THEN Tail(queue) ELSE queue

LEMMA WaitingType ==
  ASSUME QueueInv
  PROVE  Waiting \in Seq(Packet) /\ (busy => queue # <<>>)
  BY HeadTailProperties DEF QueueInv, TypeOK, Waiting

LEMMA InitQueueInv == Init => QueueInv
  <1>1. \A s \in Seq(Packet) : s \o <<>> = s
    BY ConcatEmptySeq
  <1>2. <<>> \in Seq(Packet) /\ <<>> \o <<>> = <<>>
    BY <1>1
  <1> QED
    BY <1>2 DEF Init, QueueInv, TypeOK, Fifo

LEMMA StepQueueInv == QueueInv /\ [Next]_vars => QueueInv'
  <1> SUFFICES ASSUME QueueInv, [Next]_vars
               PROVE  QueueInv'
    OBVIOUS
  <1>inv. /\ TypeOK
          /\ phase # "deleted" => accepted = delivered \o Waiting
          /\ busy => queue # <<>> /\ phase = "running"
          /\ phase # "running" => ~open
          /\ Waiting \in Seq(Packet)
    BY WaitingType DEF QueueInv, Fifo, Waiting
  <1>1. ASSUME NEW p \in Packet, Push(p)
        PROVE  QueueInv'
    <2>1. /\ delivered \in Seq(Packet) /\ queue \in Seq(Packet)
          /\ accepted \in Seq(Packet) /\ <<p>> \in Seq(Packet)
          /\ phase = "running"
      BY <1>1, <1>inv DEF Push, TypeOK
    <2>2. TypeOK'
      BY <1>1, <1>inv, <2>1, AppendProperties DEF Push, TypeOK
    <2>3. Waiting' = Append(Waiting, p)
      BY <1>1, <1>inv, <2>1, HeadTailAppend DEF Push, Waiting
    <2>4. Append(Waiting, p) = Waiting \o <<p>>
      BY <1>inv, AppendIsConcat
    <2>5. Append(accepted, p) = (delivered \o Waiting) \o <<p>>
      BY <1>inv, <2>1, AppendIsConcat
    <2>6. (delivered \o Waiting) \o <<p>> = delivered \o (Waiting \o <<p>>)
      <3>1. delivered \in Seq(Packet) /\ Waiting \in Seq(Packet) /\ <<p>> \in Seq(Packet)
        BY <1>inv, <2>1
      <3> QED
        BY <3>1, ConcatAssociative
    <2>7. accepted' = delivered' \o Waiting'
      BY <1>1, <2>3, <2>4, <2>5, <2>6 DEF Push
    <2>8. queue' # <<>>
      BY <1>1, <2>1, AppendProperties DEF Push
    <2> QED
      BY <1>1, <1>inv, <2>1, <2>2, <2>7, <2>8 DEF Push, QueueInv, Fifo, Waiting
  <1>2. CASE Close
    BY <1>2, <1>inv DEF Close, QueueInv, TypeOK, Fifo, Waiting
  <1>3. CASE Deliver
    <2>1. /\ delivered \in Seq(Packet) /\ queue \in Seq(Packet)
          /\ queue # <<>> /\ Head(queue) \in Packet /\ Tail(queue) \in Seq(Packet)
          /\ <<Head(queue)>> \in Seq(Packet)
      BY <1>3, <1>inv, HeadTailProperties DEF Deliver, TypeOK
    <2>2. TypeOK'
      BY <1>3, <1>inv, <2>1, AppendProperties DEF Deliver, TypeOK
    <2>3. accepted = delivered \o queue
      BY <1>3, <1>inv DEF Deliver, Waiting
    <2>4. <<Head(queue)>> \o Tail(queue) = queue
      <3>1. /\ <<Head(queue)>> \o Tail(queue) \in Seq(Packet)
            /\ Len(<<Head(queue)>> \o Tail(queue)) = Len(queue)
            /\ \A i \in 1 .. Len(queue) : (<<Head(queue)>> \o Tail(queue))[i] = queue[i]
        BY <2>1, HeadTailProperties, ConcatProperties, EmptySeq, LenProperties
      <3> QED
        BY <2>1, <3>1, SeqEqual
    <2>5. Append(delivered, Head(queue)) = delivered \o <<Head(queue)>>
      BY <2>1, AppendIsConcat
    <2>6. (delivered \o <<Head(queue)>>) \o Tail(queue)
            = delivered \o (<<Head(queue)>> \o Tail(queue))
      BY <2>1, ConcatAssociative
    <2>7. accepted' = delivered' \o Tail(queue')
      BY <1>3, <2>3, <2>4, <2>5, <2>6 DEF Deliver
    <2> QED
      BY <1>3, <1>inv, <2>1, <2>2, <2>7 DEF Deliver, QueueInv, Fifo
  <1>4. CASE Release
    <2>1. queue \in Seq(Packet) /\ queue # <<>> /\ Tail(queue) \in Seq(Packet)
      BY <1>4, <1>inv, HeadTailProperties DEF Release, TypeOK
    <2> QED
      BY <1>4, <1>inv, <2>1 DEF Release, QueueInv, TypeOK, Fifo, Waiting
  <1>5. CASE Stop
    BY <1>5, <1>inv DEF Stop, QueueInv, TypeOK, Fifo, Waiting
  <1>6. CASE Delete
    BY <1>6, <1>inv DEF Delete, QueueInv, TypeOK, Fifo
  <1>7. CASE UNCHANGED vars
    BY <1>7, <1>inv DEF vars, QueueInv, TypeOK, Fifo, Waiting
  <1> QED
    BY <1>1, <1>2, <1>3, <1>4, <1>5, <1>6, <1>7 DEF Next

(***************************************************************************)
(* Nothing pushed is lost, handled twice or overtaken before the queue is  *)
(* deleted.                                                                *)
(***************************************************************************)
THEOREM QueueIsFifo == Spec => []Fifo
  <1>1. QueueInv => Fifo
    BY DEF QueueInv
  <1> QED
    BY <1>1, InitQueueInv, StepQueueInv, PTL DEF Spec, SafeSpec

=============================================================================
