----------------------------- MODULE RingProofs -----------------------------
(***************************************************************************)
(* Proofs about module Ring, for every ring size, every set of packets and *)
(* every bound on their number.                                            *)
(***************************************************************************)
EXTENDS Ring, SequenceTheorems, TLAPS

-----------------------------------------------------------------------------
(* Indexes modulo the size of the ring.                                    *)

(***************************************************************************)
(* The slot k places after slot i: one wrap at most.                       *)
(***************************************************************************)
LEMMA SlotArith ==
  ASSUME NEW i \in Slot, NEW k \in Slot
  PROVE  SlotAt(i, k) = IF i + k < RingSize THEN i + k ELSE i + k - RingSize
  BY RingAssumption DEF Slot, SlotAt

LEMMA SlotAtType ==
  ASSUME NEW i \in Slot, NEW k \in Slot
  PROVE  SlotAt(i, k) \in Slot
  BY SlotArith, RingAssumption DEF Slot

LEMMA NextIdxValue ==
  ASSUME NEW i \in Slot
  PROVE  NextIdx(i) = IF i + 1 = RingSize THEN 0 ELSE i + 1
  BY RingAssumption DEF Slot, NextIdx

LEMMA NextIdxType ==
  ASSUME NEW i \in Slot
  PROVE  NextIdx(i) \in Slot
  BY NextIdxValue, RingAssumption DEF Slot

(***************************************************************************)
(* The number of packets between two indexes, and how it changes when one  *)
(* of them moves.                                                          *)
(***************************************************************************)
LEMMA OccupancyFacts ==
  ASSUME NEW r \in Slot, NEW w \in Slot
  PROVE  /\ OccupancyOf(r, w) \in Slot
         /\ OccupancyOf(r, w) = 0 <=> r = w
         /\ OccupancyOf(r, w) = RingSize - 1 <=> NextIdx(w) = r
  BY NextIdxValue, RingAssumption DEF Slot, OccupancyOf

LEMMA OccupancyPush ==
  ASSUME NEW r \in Slot, NEW w \in Slot, OccupancyOf(r, w) < RingSize - 1
  PROVE  OccupancyOf(r, NextIdx(w)) = OccupancyOf(r, w) + 1
  BY NextIdxValue, RingAssumption DEF Slot, OccupancyOf

LEMMA OccupancyPop ==
  ASSUME NEW r \in Slot, NEW w \in Slot, OccupancyOf(r, w) > 0
  PROVE  OccupancyOf(NextIdx(r), w) = OccupancyOf(r, w) - 1
  BY NextIdxValue, RingAssumption DEF Slot, OccupancyOf

(***************************************************************************)
(* The slot at w is the one after the last packet, and none of the packets *)
(* is in it.                                                               *)
(***************************************************************************)
LEMMA SlotAfterLast ==
  ASSUME NEW r \in Slot, NEW w \in Slot
  PROVE  /\ SlotAt(r, OccupancyOf(r, w)) = w
         /\ \A k \in Slot : k < OccupancyOf(r, w) => SlotAt(r, k) # w
  <1>1. OccupancyOf(r, w) \in Slot
    BY OccupancyFacts
  <1>2. SlotAt(r, OccupancyOf(r, w)) = w
    BY <1>1, SlotArith, RingAssumption DEF Slot, OccupancyOf
  <1>3. ASSUME NEW k \in Slot, k < OccupancyOf(r, w)
        PROVE  SlotAt(r, k) # w
    BY <1>3, SlotArith, RingAssumption DEF Slot, OccupancyOf
  <1> QED
    BY <1>2, <1>3

(***************************************************************************)
(* Counting from the slot after r is counting one further from r.          *)
(***************************************************************************)
LEMMA SlotShift ==
  ASSUME NEW r \in Slot, NEW k \in Slot, k + 1 < RingSize
  PROVE  SlotAt(NextIdx(r), k) = SlotAt(r, k + 1)
  <1>1. k + 1 \in Slot
    BY RingAssumption DEF Slot
  <1>2. NextIdx(r) \in Slot
    BY NextIdxType
  <1>3. SlotAt(r, k + 1) =
          IF r + (k + 1) < RingSize THEN r + (k + 1) ELSE r + (k + 1) - RingSize
    BY <1>1, SlotArith
  <1>4. SlotAt(NextIdx(r), k) =
          IF NextIdx(r) + k < RingSize THEN NextIdx(r) + k ELSE NextIdx(r) + k - RingSize
    BY <1>2, SlotArith
  <1> QED
    BY <1>3, <1>4, NextIdxValue, RingAssumption DEF Slot

-----------------------------------------------------------------------------
(* The contents of the ring as a sequence.                                 *)

LEMMA ContentsAreSlots ==
  ASSUME NEW X, NEW b \in [Slot -> X]
  PROVE  \A r, w \in Slot :
           /\ ContentsOf(b, r, w) \in Seq(X)
           /\ Len(ContentsOf(b, r, w)) = OccupancyOf(r, w)
           /\ \A i \in 1 .. OccupancyOf(r, w) :
                ContentsOf(b, r, w)[i] = b[SlotAt(r, i - 1)]
  <1> TAKE r, w \in Slot
  <1>1. OccupancyOf(r, w) \in Nat
    BY OccupancyFacts DEF Slot
  <1>2. \A i \in 1 .. OccupancyOf(r, w) : b[SlotAt(r, i - 1)] \in X
    <2> TAKE i \in 1 .. OccupancyOf(r, w)
    <2>1. i - 1 \in Slot
      BY OccupancyFacts, RingAssumption DEF Slot
    <2>2. SlotAt(r, i - 1) \in Slot
      BY <2>1, SlotAtType
    <2> QED
      BY <2>2
  <1> DEFINE c == ContentsOf(b, r, w)
  <1>3. c = [i \in 1 .. OccupancyOf(r, w) |-> b[SlotAt(r, i - 1)]]
    BY DEF ContentsOf
  <1> HIDE DEF c
  <1>4. c \in Seq(X) /\ Len(c) = OccupancyOf(r, w)
    BY <1>1, <1>2, <1>3
  <1>5. \A i \in 1 .. OccupancyOf(r, w) : c[i] = b[SlotAt(r, i - 1)]
    BY <1>3
  <1> QED
    BY <1>4, <1>5 DEF c

(***************************************************************************)
(* Filling the slot at w leaves the contents alone.                        *)
(***************************************************************************)
LEMMA ContentsFill ==
  ASSUME NEW X, NEW b \in [Slot -> X], NEW r \in Slot, NEW w \in Slot, NEW x
  PROVE  ContentsOf([b EXCEPT ![w] = x], r, w) = ContentsOf(b, r, w)
  <1> SUFFICES ASSUME NEW i \in 1 .. OccupancyOf(r, w)
               PROVE  [b EXCEPT ![w] = x][SlotAt(r, i - 1)]
                        = b[SlotAt(r, i - 1)]
    BY DEF ContentsOf
  <1>1. i - 1 \in Slot /\ i - 1 < OccupancyOf(r, w)
    BY OccupancyFacts, RingAssumption DEF Slot
  <1>2. SlotAt(r, i - 1) # w
    BY <1>1, SlotAfterLast
  <1>3. SlotAt(r, i - 1) \in Slot
    BY <1>1, SlotAtType
  <1>4. \A s \in Slot : s # w => [b EXCEPT ![w] = x][s] = b[s]
    OBVIOUS
  <1> QED
    BY <1>2, <1>3, <1>4, Zenon

(***************************************************************************)
(* Moving the writer's index appends the slot it was on.                   *)
(***************************************************************************)
LEMMA ContentsPush ==
  ASSUME NEW X, NEW b \in [Slot -> X], NEW r \in Slot, NEW w \in Slot,
         OccupancyOf(r, w) < RingSize - 1
  PROVE  ContentsOf(b, r, NextIdx(w)) = Append(ContentsOf(b, r, w), b[w])
  <1> DEFINE old == ContentsOf(b, r, w)
             new == ContentsOf(b, r, NextIdx(w))
             n == OccupancyOf(r, w)
  <1>1. n \in Slot /\ OccupancyOf(r, NextIdx(w)) = n + 1 /\ NextIdx(w) \in Slot
    BY OccupancyFacts, OccupancyPush, NextIdxType
  <1>2. /\ old \in Seq(X)
        /\ Len(old) = n
        /\ \A i \in 1 .. n : old[i] = b[SlotAt(r, i - 1)]
    BY ContentsAreSlots
  <1>3. /\ new \in Seq(X)
        /\ Len(new) = n + 1
        /\ \A i \in 1 .. n + 1 : new[i] = b[SlotAt(r, i - 1)]
    <2>1. PICK u \in Slot : u = NextIdx(w)
      BY <1>1
    <2>2. ContentsOf(b, r, u) \in Seq(X) /\ Len(ContentsOf(b, r, u)) = OccupancyOf(r, u)
      BY ContentsAreSlots
    <2>3. \A i \in 1 .. OccupancyOf(r, u) : ContentsOf(b, r, u)[i] = b[SlotAt(r, i - 1)]
      BY DEF ContentsOf
    <2>4. OccupancyOf(r, u) = n + 1
      BY <1>1, <2>1
    <2> QED
      BY <2>1, <2>2, <2>3, <2>4
  <1>4. b[w] \in X
    OBVIOUS
  <1>5. /\ Append(old, b[w]) \in Seq(X)
        /\ Len(Append(old, b[w])) = n + 1
        /\ \A i \in 1 .. n : Append(old, b[w])[i] = old[i]
        /\ Append(old, b[w])[n + 1] = b[w]
    BY <1>2, <1>4, AppendProperties
  <1>6. new[n + 1] = b[w]
    BY <1>1, <1>3, SlotAfterLast DEF Slot
  <1>7. \A i \in 1 .. n + 1 : new[i] = Append(old, b[w])[i]
    BY <1>1, <1>2, <1>3, <1>5, <1>6 DEF Slot
  <1> HIDE DEF old, new, n
  <1> QED
    BY <1>3, <1>5, <1>7, SeqEqual DEF old, new, n

(***************************************************************************)
(* Moving the reader's index drops the slot it was on, the head.           *)
(***************************************************************************)
LEMMA ContentsPop ==
  ASSUME NEW X, NEW b \in [Slot -> X], NEW r \in Slot, NEW w \in Slot,
         OccupancyOf(r, w) > 0
  PROVE  /\ ContentsOf(b, r, w) # <<>>
         /\ Head(ContentsOf(b, r, w)) = b[r]
         /\ ContentsOf(b, NextIdx(r), w) = Tail(ContentsOf(b, r, w))
  <1> DEFINE old == ContentsOf(b, r, w)
             new == ContentsOf(b, NextIdx(r), w)
             n == OccupancyOf(r, w)
  <1>1. /\ n \in Slot /\ n > 0
        /\ OccupancyOf(NextIdx(r), w) = n - 1
        /\ NextIdx(r) \in Slot
    BY OccupancyFacts, OccupancyPop, NextIdxType
  <1>2. /\ old \in Seq(X)
        /\ Len(old) = n
        /\ \A i \in 1 .. n : old[i] = b[SlotAt(r, i - 1)]
    BY ContentsAreSlots
  <1>3. /\ new \in Seq(X)
        /\ Len(new) = n - 1
        /\ \A i \in 1 .. n - 1 : new[i] = b[SlotAt(NextIdx(r), i - 1)]
    <2>1. PICK u \in Slot : u = NextIdx(r)
      BY <1>1
    <2>2. ContentsOf(b, u, w) \in Seq(X) /\ Len(ContentsOf(b, u, w)) = OccupancyOf(u, w)
      BY ContentsAreSlots
    <2>3. \A i \in 1 .. OccupancyOf(u, w) : ContentsOf(b, u, w)[i] = b[SlotAt(u, i - 1)]
      BY DEF ContentsOf
    <2>4. OccupancyOf(u, w) = n - 1
      BY <1>1, <2>1
    <2> QED
      BY <2>1, <2>2, <2>3, <2>4
  <1>4. old # <<>>
    BY <1>1, <1>2, EmptySeq DEF Slot
  <1>5. Head(old) = b[r]
    <2>1. old[1] = b[SlotAt(r, 1 - 1)]
      BY <1>1, <1>2 DEF Slot
    <2>2. SlotAt(r, 1 - 1) = r
      <3>1. 1 - 1 \in Slot
        BY RingAssumption DEF Slot
      <3>2. SlotAt(r, 1 - 1) =
              IF r + (1 - 1) < RingSize THEN r + (1 - 1) ELSE r + (1 - 1) - RingSize
        BY <3>1, SlotArith
      <3> QED
        BY <3>2, RingAssumption DEF Slot
    <2> QED
      BY <2>1, <2>2, <1>2, <1>4
  <1>6. /\ Tail(old) \in Seq(X)
        /\ Len(Tail(old)) = n - 1
        /\ \A i \in 1 .. n - 1 : Tail(old)[i] = old[i + 1]
    BY <1>2, <1>4, HeadTailProperties
  <1>7. ASSUME NEW i \in 1 .. n - 1
        PROVE  new[i] = Tail(old)[i]
    <2>1. i - 1 \in Slot /\ (i - 1) + 1 < RingSize /\ i + 1 \in 1 .. n
      BY <1>1, RingAssumption DEF Slot
    <2>2. SlotAt(NextIdx(r), i - 1) = SlotAt(r, (i - 1) + 1)
      BY <2>1, SlotShift
    <2>3. (i - 1) + 1 = (i + 1) - 1
      OBVIOUS
    <2>4. new[i] = b[SlotAt(r, (i + 1) - 1)]
      BY <1>3, <2>2, <2>3
    <2>5. old[i + 1] = b[SlotAt(r, (i + 1) - 1)]
      BY <1>2, <2>1
    <2> QED
      BY <1>6, <2>4, <2>5
  <1> HIDE DEF old, new, n
  <1>8. new = Tail(old)
    BY <1>3, <1>6, <1>7, SeqEqual
  <1> QED
    BY <1>4, <1>5, <1>8 DEF old, new, n

-----------------------------------------------------------------------------
(* Sequences: what a push and a delivery do to a concatenation.            *)

LEMMA MoveHead ==
  ASSUME NEW S, NEW s \in Seq(S), NEW t \in Seq(S), t # <<>>
  PROVE  Append(s, Head(t)) \o Tail(t) = s \o t
  <1>1. Head(t) \in S /\ Tail(t) \in Seq(S) /\ <<Head(t)>> \in Seq(S)
    BY HeadTailProperties
  <1>2. Append(s, Head(t)) = s \o <<Head(t)>>
    BY <1>1, AppendIsConcat
  <1>3. <<Head(t)>> \o Tail(t) = t
    <2>1. /\ <<Head(t)>> \o Tail(t) \in Seq(S)
          /\ Len(<<Head(t)>> \o Tail(t)) = Len(t)
          /\ \A i \in 1 .. Len(t) : (<<Head(t)>> \o Tail(t))[i] = t[i]
      BY <1>1, HeadTailProperties, ConcatProperties, EmptySeq, LenProperties
    <2> QED
      BY <2>1, SeqEqual
  <1> QED
    BY <1>1, <1>2, <1>3, ConcatAssociative

-----------------------------------------------------------------------------
(* The inductive invariant.                                                *)

LEMMA InitIInv == Init => IInv
  <1> SUFFICES ASSUME Init PROVE IInv
    OBVIOUS
  <1> USE RingAssumption DEF Init
  <1>1. TypeOK
    BY DEF TypeOK, Slot, WriterPC, ReaderPC
  <1>2. Occupancy = 0 /\ Contents = <<>>
    BY DEF Occupancy, OccupancyOf, Contents, ContentsOf
  <1>3. IndexInv
    BY <1>2 DEF IndexInv
  <1>4. SlotInv
    BY <1>2 DEF SlotInv
  <1>5. RingContents
    BY <1>2 DEF RingContents, SlotHandled
  <1> QED
    BY <1>1, <1>3, <1>4, <1>5 DEF IInv

(***************************************************************************)
(* What the invariant says of the indexes and of the slots between them.   *)
(***************************************************************************)
LEMMA ContentsOfRing ==
  ASSUME IInv
  PROVE  /\ Occupancy \in Slot
         /\ Occupancy = 0 <=> RingIsEmpty
         /\ Occupancy = RingSize - 1 <=> RingIsFull
         /\ Contents \in Seq(Packet)
         /\ Occupancy > 0 => /\ Contents # <<>>
                             /\ Head(Contents) = buffer[idx_reader]
  <1>1. /\ idx_reader \in Slot
        /\ idx_writer \in Slot
        /\ buffer \in [Slot -> Packet \cup {Partial}]
        /\ Contents \in Seq(Packet)
    BY DEF IInv, TypeOK, SlotInv
  <1>2. /\ Occupancy \in Slot
        /\ Occupancy = 0 <=> RingIsEmpty
        /\ Occupancy = RingSize - 1 <=> RingIsFull
    BY <1>1, OccupancyFacts DEF Occupancy, RingIsEmpty, RingIsFull
  <1>3. Occupancy > 0 => Contents # <<>> /\ Head(Contents) = buffer[idx_reader]
    BY <1>1, ContentsPop DEF Occupancy, Contents
  <1> QED
    BY <1>1, <1>2, <1>3

(***************************************************************************)
(* Steps that touch neither the slots nor the indexes.                     *)
(***************************************************************************)
LEMMA Frame ==
  UNCHANGED <<buffer, idx_reader, idx_writer>> =>
    Occupancy' = Occupancy /\ Contents' = Contents
  BY DEF Occupancy, Contents

LEMMA StepIInv == IInv /\ [Next]_vars => IInv'
  <1> SUFFICES ASSUME IInv, [Next]_vars
               PROVE  IInv'
    OBVIOUS
  <1>inv. TypeOK /\ IndexInv /\ SlotInv /\ RingContents
    BY DEF IInv
  <1>occ. /\ Occupancy \in Slot
          /\ Occupancy = 0 <=> RingIsEmpty
          /\ Occupancy = RingSize - 1 <=> RingIsFull
          /\ Contents \in Seq(Packet)
          /\ Occupancy > 0 => Contents # <<>> /\ Head(Contents) = buffer[idx_reader]
    BY ContentsOfRing
  <1>1. CASE PushPtrGet
    <2>1. TypeOK'
      BY <1>1, <1>inv DEF PushPtrGet, TypeOK, WriterPC, ReaderPC, writerVars, readerVars
    <2>2. Occupancy' = Occupancy /\ Contents' = Contents
      BY <1>1, Frame DEF PushPtrGet
    <2>3. IndexInv'
      BY <1>1, <1>inv, <1>occ, <2>2, RingAssumption
         DEF PushPtrGet, TypeOK, IndexInv, Slot, writerVars, readerVars
    <2>4. SlotInv'
      BY <1>1, <1>inv, <2>2 DEF PushPtrGet, SlotInv, writerVars, readerVars
    <2>5. RingContents'
      BY <1>1, <1>inv, <2>2 DEF PushPtrGet, RingContents, SlotHandled, IndexInv, writerVars, readerVars
    <2> QED
      BY <2>1, <2>3, <2>4, <2>5 DEF IInv
  <1>2. CASE PushPtrFull
    <2>1. TypeOK'
      BY <1>2, <1>inv DEF PushPtrFull, TypeOK, WriterPC, ReaderPC, writerVars, readerVars
    <2>2. Occupancy' = Occupancy /\ Contents' = Contents
      BY <1>2, Frame DEF PushPtrFull
    <2>3. IndexInv'
      BY <1>2, <1>inv, <1>occ, <2>2, RingAssumption
         DEF PushPtrFull, TypeOK, IndexInv, Slot, writerVars, readerVars
    <2>4. SlotInv'
      BY <1>2, <1>inv, <2>2 DEF PushPtrFull, SlotInv, writerVars, readerVars
    <2>5. RingContents'
      BY <1>2, <1>inv, <2>2 DEF PushPtrFull, RingContents, SlotHandled, IndexInv, writerVars, readerVars
    <2> QED
      BY <2>1, <2>3, <2>4, <2>5 DEF IInv
  <1>3. CASE SleepOver
    <2>1. TypeOK'
      BY <1>3, <1>inv DEF SleepOver, TypeOK, WriterPC, ReaderPC, writerVars, readerVars
    <2>2. Occupancy' = Occupancy /\ Contents' = Contents
      BY <1>3, Frame DEF SleepOver
    <2>3. IndexInv'
      BY <1>3, <1>inv, <1>occ, <2>2, RingAssumption
         DEF SleepOver, TypeOK, IndexInv, Slot, writerVars, readerVars
    <2>4. SlotInv'
      BY <1>3, <1>inv, <2>2 DEF SleepOver, SlotInv, writerVars, readerVars
    <2>5. RingContents'
      BY <1>3, <1>inv, <2>2 DEF SleepOver, RingContents, SlotHandled, IndexInv, writerVars, readerVars
    <2> QED
      BY <2>1, <2>3, <2>4, <2>5 DEF IInv
  <1>4. CASE TransportEnds
    <2>1. TypeOK'
      BY <1>4, <1>inv DEF TransportEnds, TypeOK, WriterPC, ReaderPC, writerVars, readerVars
    <2>2. Occupancy' = Occupancy /\ Contents' = Contents
      BY <1>4, Frame DEF TransportEnds
    <2>3. IndexInv'
      BY <1>4, <1>inv, <1>occ, <2>2, RingAssumption
         DEF TransportEnds, TypeOK, IndexInv, Slot, writerVars, readerVars
    <2>4. SlotInv'
      BY <1>4, <1>inv, <2>2 DEF TransportEnds, SlotInv, writerVars, readerVars
    <2>5. RingContents'
      BY <1>4, <1>inv, <2>2 DEF TransportEnds, RingContents, SlotHandled, IndexInv, writerVars, readerVars
    <2> QED
      BY <2>1, <2>3, <2>4, <2>5 DEF IInv
  <1>5. CASE PushNotify
    <2>1. TypeOK'
      BY <1>5, <1>inv DEF PushNotify, TypeOK, WriterPC, ReaderPC, writerVars, readerVars
    <2>2. Occupancy' = Occupancy /\ Contents' = Contents
      BY <1>5, Frame DEF PushNotify
    <2>3. IndexInv'
      BY <1>5, <1>inv, <1>occ, <2>2, RingAssumption
         DEF PushNotify, TypeOK, IndexInv, Slot, writerVars, readerVars
    <2>4. SlotInv'
      BY <1>5, <1>inv, <2>2 DEF PushNotify, SlotInv, writerVars, readerVars
    <2>5. RingContents'
      BY <1>5, <1>inv, <2>2 DEF PushNotify, RingContents, SlotHandled, IndexInv, writerVars, readerVars
    <2> QED
      BY <2>1, <2>3, <2>4, <2>5 DEF IInv
  <1>6. CASE WriterClose
    <2>1. TypeOK'
      BY <1>6, <1>inv DEF WriterClose, TypeOK, WriterPC, ReaderPC, writerVars, readerVars
    <2>2. Occupancy' = Occupancy /\ Contents' = Contents
      BY <1>6, Frame DEF WriterClose
    <2>3. IndexInv'
      BY <1>6, <1>inv, <1>occ, <2>2, RingAssumption
         DEF WriterClose, TypeOK, IndexInv, Slot, writerVars, readerVars
    <2>4. SlotInv'
      BY <1>6, <1>inv, <2>2 DEF WriterClose, SlotInv, writerVars, readerVars
    <2>5. RingContents'
      BY <1>6, <1>inv, <2>2 DEF WriterClose, RingContents, SlotHandled, IndexInv, writerVars, readerVars
    <2> QED
      BY <2>1, <2>3, <2>4, <2>5 DEF IInv
  <1>7. CASE PollHup
    <2>1. TypeOK'
      BY <1>7, <1>inv DEF PollHup, TypeOK, WriterPC, ReaderPC, writerVars, readerVars
    <2>2. Occupancy' = Occupancy /\ Contents' = Contents
      BY <1>7, Frame DEF PollHup
    <2>3. IndexInv'
      BY <1>7, <1>inv, <1>occ, <2>2, RingAssumption
         DEF PollHup, TypeOK, IndexInv, Slot, writerVars, readerVars
    <2>4. SlotInv'
      BY <1>7, <1>inv, <2>2 DEF PollHup, SlotInv, writerVars, readerVars
    <2>5. RingContents'
      BY <1>7, <1>inv, <2>2 DEF PollHup, RingContents, SlotHandled, IndexInv, writerVars, readerVars
    <2> QED
      BY <2>1, <2>3, <2>4, <2>5 DEF IInv
  <1>8. CASE PollIn
    <2>1. TypeOK'
      BY <1>8, <1>inv DEF PollIn, TypeOK, WriterPC, ReaderPC, writerVars, readerVars
    <2>2. Occupancy' = Occupancy /\ Contents' = Contents
      BY <1>8, Frame DEF PollIn
    <2>3. IndexInv'
      BY <1>8, <1>inv, <1>occ, <2>2, RingAssumption
         DEF PollIn, TypeOK, IndexInv, Slot, writerVars, readerVars
    <2>4. SlotInv'
      BY <1>8, <1>inv, <2>2 DEF PollIn, SlotInv, writerVars, readerVars
    <2>5. RingContents'
      BY <1>8, <1>inv, <2>2 DEF PollIn, RingContents, SlotHandled, IndexInv, writerVars, readerVars
    <2> QED
      BY <2>1, <2>3, <2>4, <2>5 DEF IInv
  <1>9. CASE PopPtrGet
    <2>1. TypeOK'
      BY <1>9, <1>inv DEF PopPtrGet, TypeOK, WriterPC, ReaderPC, writerVars, readerVars
    <2>2. Occupancy' = Occupancy /\ Contents' = Contents
      BY <1>9, Frame DEF PopPtrGet
    <2>3. IndexInv'
      BY <1>9, <1>inv, <1>occ, <2>2, RingAssumption
         DEF PopPtrGet, TypeOK, IndexInv, Slot, writerVars, readerVars
    <2>4. SlotInv'
      BY <1>9, <1>inv, <2>2 DEF PopPtrGet, SlotInv, writerVars, readerVars
    <2>5. RingContents'
      BY <1>9, <1>inv, <2>2 DEF PopPtrGet, RingContents, SlotHandled, IndexInv, writerVars, readerVars
    <2> QED
      BY <2>1, <2>3, <2>4, <2>5 DEF IInv
  <1>10. CASE Dispatch
    <2>1. TypeOK'
      BY <1>10, <1>inv DEF Dispatch, TypeOK, WriterPC, ReaderPC, writerVars, readerVars
    <2>2. Occupancy' = Occupancy /\ Contents' = Contents
      BY <1>10, Frame DEF Dispatch
    <2>3. IndexInv'
      BY <1>10, <1>inv, <1>occ, <2>2, RingAssumption
         DEF Dispatch, TypeOK, IndexInv, Slot, writerVars, readerVars
    <2>4. SlotInv'
      BY <1>10, <1>inv, <2>2 DEF Dispatch, SlotInv, writerVars, readerVars
    <2>5. RingContents'
      BY <1>10, <1>inv, <2>2 DEF Dispatch, RingContents, SlotHandled, IndexInv, writerVars, readerVars
    <2> QED
      BY <2>1, <2>3, <2>4, <2>5 DEF IInv
  <1>11. CASE PopByte
    <2>1. TypeOK'
      BY <1>11, <1>inv DEF PopByte, TypeOK, WriterPC, ReaderPC, writerVars, readerVars
    <2>2. Occupancy' = Occupancy /\ Contents' = Contents
      BY <1>11, Frame DEF PopByte
    <2>3. IndexInv'
      BY <1>11, <1>inv, <1>occ, <2>2, RingAssumption
         DEF PopByte, TypeOK, IndexInv, Slot, writerVars, readerVars
    <2>4. SlotInv'
      BY <1>11, <1>inv, <2>2 DEF PopByte, SlotInv, writerVars, readerVars
    <2>5. RingContents'
      BY <1>11, <1>inv, <2>2 DEF PopByte, RingContents, SlotHandled, IndexInv, writerVars, readerVars
    <2> QED
      BY <2>1, <2>3, <2>4, <2>5 DEF IInv
  <1>12. CASE FillHeader
    <2>1. TypeOK'
      BY <1>12, <1>inv DEF FillHeader, TypeOK, WriterPC, readerVars
    <2>2. Occupancy' = Occupancy /\ Contents' = Contents
      BY <1>12, <1>inv, ContentsFill DEF FillHeader, TypeOK, Occupancy, Contents
    <2>3. IndexInv'
      BY <1>12, <1>inv, <2>2 DEF FillHeader, TypeOK, IndexInv, readerVars
    <2>4. rpc = "execute" => idx_reader # idx_writer
      BY <1>inv, <1>occ DEF IndexInv, TypeOK, RingIsEmpty, Slot
    <2>5. SlotInv'
      BY <1>12, <1>inv, <2>2, <2>4 DEF FillHeader, SlotInv, TypeOK, readerVars
    <2>6. RingContents'
      BY <1>12, <1>inv, <2>2 DEF FillHeader, RingContents, SlotHandled, readerVars
    <2> QED
      BY <2>1, <2>3, <2>5, <2>6 DEF IInv
  <1>13. ASSUME NEW p \in Packet, FillBody(p)
         PROVE  IInv'
    <2>1. TypeOK'
      BY <1>13, <1>inv DEF FillBody, TypeOK, WriterPC, readerVars
    <2>2. Occupancy' = Occupancy /\ Contents' = Contents
      BY <1>13, <1>inv, ContentsFill DEF FillBody, TypeOK, Occupancy, Contents
    <2>3. IndexInv'
      BY <1>13, <1>inv, <2>2 DEF FillBody, TypeOK, IndexInv, readerVars
    <2>4. rpc = "execute" => idx_reader # idx_writer
      BY <1>inv, <1>occ DEF IndexInv, TypeOK, RingIsEmpty, Slot
    <2>5. SlotInv'
      BY <1>13, <1>inv, <2>2, <2>4 DEF FillBody, SlotInv, TypeOK, readerVars
    <2>6. RingContents'
      BY <1>13, <1>inv, <2>2 DEF FillBody, RingContents, SlotHandled, readerVars
    <2> QED
      BY <2>1, <2>3, <2>5, <2>6 DEF IInv
  <1>14. CASE PushCommit
    <2>1. /\ idx_reader \in Slot /\ idx_writer \in Slot
          /\ buffer \in [Slot -> Packet \cup {Partial}]
          /\ buffer[idx_writer] \in Packet
          /\ Occupancy < RingSize - 1
          /\ handled \in Seq(Packet)
          /\ rpc # "deleted"
      BY <1>14, <1>inv DEF PushCommit, TypeOK, SlotInv, IndexInv
    <2>2. TypeOK'
      BY <1>14, <1>inv, <2>1, NextIdxType, AppendProperties
         DEF PushCommit, TypeOK, WriterPC, readerVars
    <2>3. Occupancy' = Occupancy + 1
      BY <1>14, <2>1, OccupancyPush DEF PushCommit, Occupancy
    <2>4. Contents' = Append(Contents, buffer[idx_writer])
      BY <1>14, <2>1, ContentsPush DEF PushCommit, Contents, Occupancy
    <2>5. IndexInv'
      BY <1>14, <1>inv, <2>3 DEF PushCommit, TypeOK, IndexInv, Slot, readerVars
    <2>6. SlotInv'
      BY <1>14, <1>inv, <1>occ, <2>1, <2>4, AppendProperties
         DEF PushCommit, SlotInv, readerVars
    <2>one. <<buffer[idx_writer]>> \in Seq(Packet)
      BY <2>1
    <2>7. RingContents'
      <3>1. CASE SlotHandled
        <4>1. Contents # <<>>
          BY <1>inv, <1>occ, <2>1, <3>1 DEF IndexInv, SlotHandled, TypeOK, Slot
        <4>2. Tail(Contents) \in Seq(Packet)
          BY <1>occ, <4>1, HeadTailProperties
        <4>3. Tail(Contents') = Append(Tail(Contents), buffer[idx_writer])
          BY <1>occ, <2>4, <4>1, HeadTailAppend
        <4>4. sent = handled \o Tail(Contents)
          BY <1>inv, <2>1, <3>1 DEF RingContents
        <4>5. Append(Tail(Contents), buffer[idx_writer])
                = Tail(Contents) \o <<buffer[idx_writer]>>
          BY <2>1, <4>2, AppendIsConcat
        <4>6. Append(sent, buffer[idx_writer])
                = (handled \o Tail(Contents)) \o <<buffer[idx_writer]>>
          BY <2>1, <4>2, <4>4, ConcatProperties, AppendIsConcat
        <4>7. (handled \o Tail(Contents)) \o <<buffer[idx_writer]>>
                = handled \o (Tail(Contents) \o <<buffer[idx_writer]>>)
          BY <2>1, <2>one, <4>2, ConcatAssociative
        <4> QED
          BY <1>14, <3>1, <4>3, <4>5, <4>6, <4>7 DEF PushCommit, RingContents, SlotHandled, readerVars
      <3>2. CASE ~SlotHandled
        <4>1. sent = handled \o Contents
          BY <1>inv, <2>1, <3>2 DEF RingContents
        <4>2. Append(Contents, buffer[idx_writer])
                = Contents \o <<buffer[idx_writer]>>
          BY <1>occ, <2>1, AppendIsConcat
        <4>3. Append(sent, buffer[idx_writer])
                = (handled \o Contents) \o <<buffer[idx_writer]>>
          BY <1>occ, <2>1, <4>1, ConcatProperties, AppendIsConcat
        <4>4. (handled \o Contents) \o <<buffer[idx_writer]>>
                = handled \o (Contents \o <<buffer[idx_writer]>>)
          BY <1>occ, <2>1, <2>one, ConcatAssociative
        <4> QED
          BY <1>14, <2>4, <3>2, <4>2, <4>3, <4>4 DEF PushCommit, RingContents, SlotHandled, readerVars
      <3> QED
        BY <3>1, <3>2
    <2> QED
      BY <2>2, <2>5, <2>6, <2>7 DEF IInv
  <1>15. CASE Execute
    <2>1. /\ Contents # <<>>
          /\ Head(Contents) = buffer[idx_reader]
          /\ Head(Contents) \in Packet
          /\ handled \in Seq(Packet)
      BY <1>15, <1>inv, <1>occ, HeadTailProperties
         DEF Execute, IndexInv, SlotInv, TypeOK, Slot
    <2>2. Append(handled, buffer[idx_reader]) \in Seq(Packet)
      BY <2>1, AppendProperties
    <2>3. TypeOK'
      BY <1>15, <1>inv, <2>2, SeqMonotonic DEF Execute, TypeOK, ReaderPC, writerVars
    <2>4. Occupancy' = Occupancy /\ Contents' = Contents
      BY <1>15, Frame DEF Execute
    <2>5. IndexInv'
      BY <1>15, <1>inv, <2>4 DEF Execute, TypeOK, IndexInv, writerVars
    <2>6. SlotInv'
      BY <1>15, <1>inv, <2>2, <2>4 DEF Execute, SlotInv, writerVars
    <2>7. RingContents'
      <3>1. sent = handled \o Contents
        BY <1>15, <1>inv DEF Execute, RingContents, SlotHandled
      <3>2. sent = Append(handled, Head(Contents)) \o Tail(Contents)
        BY <1>occ, <2>1, <3>1, MoveHead
      <3> QED
        BY <1>15, <2>1, <2>4, <3>2 DEF Execute, RingContents, SlotHandled, writerVars
    <2> QED
      BY <2>3, <2>5, <2>6, <2>7 DEF IInv
  <1>16. CASE PopAdvance
    <2>1. /\ idx_reader \in Slot /\ idx_writer \in Slot
          /\ buffer \in [Slot -> Packet \cup {Partial}]
          /\ Occupancy > 0
      BY <1>16, <1>inv DEF PopAdvance, TypeOK, IndexInv
    <2>2. TypeOK'
      BY <1>16, <1>inv, <2>1, NextIdxType DEF PopAdvance, TypeOK, ReaderPC, writerVars
    <2>3. Occupancy' = Occupancy - 1
      BY <1>16, <2>1, OccupancyPop DEF PopAdvance, Occupancy
    <2>4. Contents' = Tail(Contents)
      BY <1>16, <2>1, ContentsPop DEF PopAdvance, Contents, Occupancy
    <2>5. IndexInv'
      BY <1>16, <1>inv, <1>occ, <2>3, RingAssumption
         DEF PopAdvance, TypeOK, IndexInv, Slot, writerVars
    <2>6. SlotInv'
      BY <1>16, <1>inv, <1>occ, <2>1, <2>4, HeadTailProperties
         DEF PopAdvance, SlotInv, writerVars
    <2>7. RingContents'
      BY <1>16, <1>inv, <2>4 DEF PopAdvance, RingContents, SlotHandled, writerVars
    <2> QED
      BY <2>2, <2>5, <2>6, <2>7 DEF IInv
  <1>17. CASE JoinAndDelete
    <2>0. 0 \in Slot
      BY RingAssumption DEF Slot
    <2>1. TypeOK'
      BY <1>17, <1>inv, <2>0 DEF JoinAndDelete, TypeOK, ReaderPC, writerVars
    <2>2. Contents' = <<>>
      BY <1>17 DEF JoinAndDelete, Contents, ContentsOf, OccupancyOf
    <2>3. IndexInv'
      BY <1>17, <1>inv DEF JoinAndDelete, IndexInv, writerVars
    <2>4. SlotInv'
      BY <1>17, <1>inv, <2>2 DEF JoinAndDelete, SlotInv, writerVars
    <2>5. RingContents'
      BY <1>17 DEF JoinAndDelete, RingContents
    <2> QED
      BY <2>1, <2>3, <2>4, <2>5 DEF IInv
  <1>18. CASE UNCHANGED vars
    <2>1. Occupancy' = Occupancy /\ Contents' = Contents
      BY <1>18, Frame DEF vars
    <2>2. TypeOK' /\ IndexInv' /\ SlotInv' /\ RingContents'
      BY <1>18, <1>inv, <2>1
         DEF vars, TypeOK, IndexInv, SlotInv, RingContents, SlotHandled
    <2> QED
      BY <2>2 DEF IInv
  <1> QED
    BY <1>1, <1>2, <1>3, <1>4, <1>5, <1>6, <1>7, <1>8, <1>9, <1>10, <1>11, <1>12,
       <1>13, <1>14, <1>15, <1>16, <1>17, <1>18
       DEF Next, Writer, Reader, Terminated

(***************************************************************************)
(* The invariant holds of every behaviour of the ring.                     *)
(***************************************************************************)
THEOREM RingInvariant == SafeSpec => []IInv
  BY InitIInv, StepIInv, PTL DEF SafeSpec

-----------------------------------------------------------------------------
(* Safety, for every behaviour.                                            *)

(***************************************************************************)
(* Every variable keeps its type; in particular both indexes stay inside   *)
(* the ring and the pipe never counts below zero.                          *)
(***************************************************************************)
THEOREM TypeCorrect == Spec => []TypeOK
  <1>1. IInv => TypeOK
    BY DEF IInv
  <1> QED
    BY <1>1, RingInvariant, PTL DEF Spec

(***************************************************************************)
(* The assertions of ring_push_ptr_next and ring_pop_ptr_next never fail,  *)
(* and a wakened reader never meets an empty ring.                         *)
(***************************************************************************)
THEOREM AssertionsHold == Spec => []AssertsHold
  <1>1. IInv => AssertsHold
    <2> SUFFICES ASSUME IInv PROVE AssertsHold
      OBVIOUS
    <2>1. TypeOK /\ IndexInv
      BY DEF IInv
    <2>2. /\ Occupancy \in Slot
          /\ Occupancy = 0 <=> RingIsEmpty
          /\ Occupancy = RingSize - 1 <=> RingIsFull
      BY ContentsOfRing
    <2>3. WriterAssert
      <3> SUFFICES ASSUME wpc = "commit" PROVE ~RingIsFull
        BY DEF WriterAssert, RingIsFull
      <3>1. Occupancy < RingSize - 1
        BY <2>1 DEF IndexInv
      <3> QED
        BY <2>2, <3>1, RingAssumption DEF Slot
    <2>4. ReaderAssert /\ PollRocks
      BY <2>1, <2>2 DEF ReaderAssert, PollRocks, IndexInv, TypeOK, Slot
    <2> QED
      BY <2>3, <2>4 DEF AssertsHold
  <1> QED
    BY <1>1, RingInvariant, PTL DEF Spec

(***************************************************************************)
(* Neither thread blocks on the pipe outside poll.  The assumption that    *)
(* the pipe holds RingSize - 1 bytes is what makes the write safe.         *)
(***************************************************************************)
THEOREM NoBlockingOnPipe == Spec => []PipeNeverBlocks
  <1>1. IInv => PipeNeverBlocks
    <2> SUFFICES ASSUME IInv PROVE PipeNeverBlocks
      OBVIOUS
    <2>1. TypeOK /\ IndexInv
      BY DEF IInv
    <2>2. Occupancy \in Slot
      BY ContentsOfRing
    <2>3. wpc = "notify" => pipe < PipeCapacity
      BY <2>1, <2>2, RingAssumption DEF IndexInv, TypeOK, Slot
    <2> QED
      BY <2>1, <2>3 DEF PipeNeverBlocks, IndexInv
  <1> QED
    BY <1>1, RingInvariant, PTL DEF Spec

(***************************************************************************)
(* The slot being executed is complete and does not change under the       *)
(* reader.                                                                 *)
(***************************************************************************)
THEOREM NoTornCommand == Spec => []SlotStable
  <1>1. IInv => SlotStable
    <2> SUFFICES ASSUME IInv, rpc = "execute"
                 PROVE  popptr_cmd \in Packet /\ buffer[idx_reader] = popptr_cmd
      BY DEF SlotStable
    <2>1. TypeOK /\ IndexInv /\ SlotInv
      BY DEF IInv
    <2>2. Occupancy > 0
      BY <2>1, ContentsOfRing DEF IndexInv, TypeOK, Slot
    <2>3. buffer[idx_reader] \in Packet
      BY <2>2, ContentsOfRing, HeadTailProperties
    <2> QED
      BY <2>1, <2>3 DEF SlotInv
  <1> QED
    BY <1>1, RingInvariant, PTL DEF Spec

(***************************************************************************)
(* The packets between the indexes are those pushed and not executed, in   *)
(* order, whatever the number of wraps.                                    *)
(***************************************************************************)
THEOREM NothingLost == Spec => []RingContents
  <1>1. IInv => RingContents
    BY DEF IInv
  <1> QED
    BY <1>1, RingInvariant, PTL DEF Spec

(***************************************************************************)
(* A reader that left its loop finds the writer thread finished.           *)
(***************************************************************************)
THEOREM JoinReturns == Spec => []JoinNeverBlocks
  <1>1. IInv => JoinNeverBlocks
    BY DEF IInv, IndexInv, JoinNeverBlocks
  <1> QED
    BY <1>1, RingInvariant, PTL DEF Spec

-----------------------------------------------------------------------------
(* The ring implements the queue.                                          *)

LEMMA InitRefines == Init => PQ!Init
  <1> SUFFICES ASSUME Init PROVE PQ!Init
    OBVIOUS
  <1>1. Contents = <<>>
    BY DEF Init, Contents, ContentsOf, OccupancyOf
  <1> QED
    BY <1>1 DEF Init, PQ!Init, SlotHandled, Phase

(***************************************************************************)
(* Each step of the ring is a step of the queue or leaves it alone.        *)
(***************************************************************************)
LEMMA StepRefines == IInv /\ [Next]_vars => [PQ!Next]_(PQ!vars)
  <1> SUFFICES ASSUME IInv, [Next]_vars
               PROVE  PQ!Next \/ UNCHANGED PQ!vars
    OBVIOUS
  <1>inv. TypeOK /\ IndexInv /\ SlotInv /\ RingContents
    BY DEF IInv
  <1>occ. /\ Occupancy \in Slot
          /\ Contents \in Seq(Packet)
          /\ Occupancy > 0 => Contents # <<>> /\ Head(Contents) = buffer[idx_reader]
    BY ContentsOfRing
  <1> USE DEF PQ!vars, SlotHandled, Phase, writerVars, readerVars
  <1>1. CASE PushPtrGet
    BY <1>1, Frame DEF PushPtrGet
  <1>2. CASE PushPtrFull
    BY <1>2, Frame DEF PushPtrFull
  <1>3. CASE SleepOver
    BY <1>3, Frame DEF SleepOver
  <1>4. CASE TransportEnds
    BY <1>4, Frame DEF TransportEnds
  <1>5. CASE PushNotify
    BY <1>5, Frame DEF PushNotify
  <1>6. CASE WriterClose
    <2>1. PQ!Close
      BY <1>6, <1>inv, Frame DEF WriterClose, PQ!Close, IndexInv
    <2> QED
      BY <2>1 DEF PQ!Next
  <1>7. CASE PollHup
    <2>1. PQ!Stop
      BY <1>7, Frame DEF PollHup, PQ!Stop
    <2> QED
      BY <2>1 DEF PQ!Next
  <1>8. CASE PollIn
    BY <1>8, Frame DEF PollIn
  <1>9. CASE PopPtrGet
    BY <1>9, Frame DEF PopPtrGet
  <1>10. CASE Dispatch
    BY <1>10, Frame DEF Dispatch
  <1>11. CASE PopByte
    BY <1>11, Frame DEF PopByte
  <1>12. CASE FillHeader
    <2>1. Contents' = Contents
      BY <1>12, <1>inv, ContentsFill DEF FillHeader, TypeOK, Contents
    <2> QED
      BY <1>12, <2>1 DEF FillHeader
  <1>13. ASSUME NEW p \in Packet, FillBody(p)
         PROVE  UNCHANGED PQ!vars
    <2>1. Contents' = Contents
      BY <1>13, <1>inv, ContentsFill DEF FillBody, TypeOK, Contents
    <2> QED
      BY <1>13, <2>1 DEF FillBody
  <1>14. CASE PushCommit
    <2>1. /\ idx_reader \in Slot /\ idx_writer \in Slot
          /\ buffer \in [Slot -> Packet \cup {Partial}]
          /\ buffer[idx_writer] \in Packet
          /\ Occupancy < RingSize - 1
          /\ pipe_wr
      BY <1>14, <1>inv DEF PushCommit, TypeOK, SlotInv, IndexInv
    <2>2. Contents' = Append(Contents, buffer[idx_writer])
      BY <1>14, <2>1, ContentsPush DEF PushCommit, Contents, Occupancy
    <2>3. Len(Contents) = Occupancy
      <3>1. \A r, w \in Slot : Len(ContentsOf(buffer, r, w)) = OccupancyOf(r, w)
        <4> DEFINE X == Packet \cup {Partial}
        <4>1. buffer \in [Slot -> X]
          BY <2>1
        <4> HIDE DEF X
        <4> QED
          BY <4>1, ContentsAreSlots
      <3> QED
        BY <2>1, <3>1 DEF Contents, Occupancy
    <2>4. PQ!Push(buffer[idx_writer])
      BY <1>14, <2>1, <2>2, <2>3 DEF PushCommit, PQ!Push
    <2> QED
      BY <2>1, <2>4 DEF PQ!Next
  <1>15. CASE Execute
    <2>1. Contents # <<>> /\ Head(Contents) = buffer[idx_reader]
      BY <1>15, <1>inv, <1>occ DEF Execute, IndexInv, TypeOK, Slot
    <2>2. PQ!Deliver
      BY <1>15, <2>1, Frame DEF Execute, PQ!Deliver
    <2> QED
      BY <2>2 DEF PQ!Next
  <1>16. CASE PopAdvance
    <2>1. /\ idx_reader \in Slot /\ idx_writer \in Slot
          /\ buffer \in [Slot -> Packet \cup {Partial}]
          /\ Occupancy > 0
      BY <1>16, <1>inv DEF PopAdvance, TypeOK, IndexInv
    <2>2. Contents' = Tail(Contents)
      BY <1>16, <2>1, ContentsPop DEF PopAdvance, Contents, Occupancy
    <2>3. PQ!Release
      BY <1>16, <2>2 DEF PopAdvance, PQ!Release
    <2> QED
      BY <2>3 DEF PQ!Next
  <1>17. CASE JoinAndDelete
    <2>1. Contents' = <<>>
      BY <1>17 DEF JoinAndDelete, Contents, ContentsOf, OccupancyOf
    <2>2. pipe_wr = FALSE
      BY <1>17, <1>inv DEF JoinAndDelete, IndexInv, TypeOK
    <2>3. Phase = "stopped" /\ Phase' = "deleted" /\ SlotHandled' = SlotHandled
      BY <1>17 DEF JoinAndDelete
    <2>4. UNCHANGED <<pipe_wr, sent, handled>>
      BY <1>17, <2>2 DEF JoinAndDelete
    <2> HIDE DEF Phase, SlotHandled
    <2>5. PQ!Delete
      BY <2>1, <2>3, <2>4 DEF PQ!Delete
    <2> QED
      BY <2>5 DEF PQ!Next
  <1>18. CASE UNCHANGED vars
    BY <1>18, Frame DEF vars
  <1> QED
    BY <1>1, <1>2, <1>3, <1>4, <1>5, <1>6, <1>7, <1>8, <1>9, <1>10, <1>11, <1>12,
       <1>13, <1>14, <1>15, <1>16, <1>17, <1>18
       DEF Next, Writer, Reader, Terminated

(***************************************************************************)
(* Safety half of RefinesPacketQueue: every behaviour of the ring is one   *)
(* of the bounded queue, so the ring may be replaced by the queue in the   *)
(* modules that compose it.                                                *)
(***************************************************************************)
THEOREM RingImplementsQueue == Spec => PQ!SafeSpec
  BY InitRefines, StepRefines, RingInvariant, PTL DEF Spec, SafeSpec, PQ!SafeSpec

=============================================================================
