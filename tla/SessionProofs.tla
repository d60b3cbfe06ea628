---------------------------- MODULE SessionProofs ----------------------------
(***************************************************************************)
(* Proofs about module Session, for any number of calls, any room in the   *)
(* sockets and rings, and every fault: what the server executes is what    *)
(* the application called, a reply belongs to the call that waits for it,  *)
(* the server never blocks on a reply, and a failed write never closes the *)
(* connection under a thread about to read from it.                        *)
(***************************************************************************)
EXTENDS Session, SequenceTheorems, TLAPS

-----------------------------------------------------------------------------
(* The inductive invariant.                                                *)

(***************************************************************************)
(* The packets a side has received or will read: the first Len(r) of them  *)
(* are in its ring, the others on the wire.                                *)
(***************************************************************************)
Num(r, w) == Len(r) + Len(w)
Item(r, w, k) == IF k <= Len(r) THEN r[k] ELSE w[k - Len(r)]

(***************************************************************************)
(* A position in the stream of packets that the calls cs make up: n calls  *)
(* are over, and half says whether the data of the next one is, too.       *)
(***************************************************************************)
PositionAfter(p) == [n |-> IF p.data THEN p.n - 1 ELSE p.n, half |-> p.data]

Extends(cs, pos, p) ==
  /\ p.n = pos.n + 1 /\ p.n \in 1 .. Len(cs)
  /\ p.data <=> cs[p.n] = "data" /\ ~pos.half
  /\ pos.half => cs[p.n] = "data"

NotAfter(s, t) == s.n < t.n \/ (s.n = t.n /\ (s.half => t.half))

(***************************************************************************)
(* The packets follow each other without a gap, from pos on.  The first    *)
(* one may be a call whose reply is yet to be sent: then pos is after it.  *)
(***************************************************************************)
Reached(r, w, pos, k) == IF k = 0 THEN pos ELSE PositionAfter(Item(r, w, k))
Chain(r, w, cs, pos, replying) ==
  \A k \in 1 .. Num(r, w) :
    (k = 1 /\ replying) \/ Extends(cs, Reached(r, w, pos, k - 1), Item(r, w, k))

(***************************************************************************)
(* How far the server has come, and how far the client.                    *)
(***************************************************************************)
Executed == Len(executed)
ServerPosition == [n |-> Executed, half |-> pool # 0]
ClientPosition ==
  [n |-> IF cpc \in {"data", "send"} THEN last - 1 ELSE last,
   half |-> cpc = "send" /\ kind = "data"]

(***************************************************************************)
(* What the client has sent so far has all arrived or will.                *)
(***************************************************************************)
Intact == ~gone["server"] /\ ~gone["client"] /\ fd["client"] /\ rst["client"] # "yes"

(***************************************************************************)
(* The packets r and w lead from the position s of the server towards the  *)
(* position c of the client, and up to it while the connection is whole.   *)
(***************************************************************************)
Sent(r, w, c) == \A k \in 1 .. Num(r, w) : NotAfter(PositionAfter(Item(r, w, k)), c)
Stream(r, w, cs, s, c, replying, whole) ==
  /\ Chain(r, w, cs, s, replying)
  /\ NotAfter(s, c) /\ Sent(r, w, c)
  /\ whole => Reached(r, w, s, Num(r, w)) = c

StreamInv ==
  Stream(ring["server"], wire["server"], calls, ServerPosition, ClientPosition,
         smain = "reply", Intact)
PoolInv ==
  pool # 0 => pool = Executed + 1 /\ pool \in 1 .. last /\ calls[pool] = "data"

(***************************************************************************)
(* Where a call is that asks for a result: it was the last one, its packet *)
(* is sent.                                                                *)
(***************************************************************************)
Asked == cpc \in {"wait", "exiting", "cleaned"}
RepliesNum == Num(ring["client"], wire["client"])
ReplyingInv ==
  smain = "reply" =>
    /\ ring["server"] # <<>> /\ Head(ring["server"]) = [data |-> FALSE, n |-> Executed]
    /\ pool = 0 /\ Executed = last /\ last \in 1 .. MaxCalls /\ kind = "query"
    /\ Asked /\ RepliesNum = 0
RepliesInv ==
  RepliesNum # 0 =>
    /\ RepliesNum = 1 /\ Item(ring["client"], wire["client"], 1) = last
    /\ Executed = last /\ smain # "reply" /\ Asked
QueryInv ==
  \A i \in 1 .. last :
    calls[i] = "query" => i <= Executed \/ (i = last /\ cpc \notin {"idle", "data"})
CallerInv ==
  /\ cpc \in {"data", "send", "wait"} => last \in 1 .. MaxCalls
  /\ cpc = "data" => kind = "data"
  /\ cpc = "wait" => kind = "query"

(***************************************************************************)
(* A reset that a write does not report is one that an earlier reply to    *)
(* the dead client has called for: no other reply will be written.         *)
(***************************************************************************)
UnreportedReset ==
  /\ ~gone["server"]
  /\ rst["server"] = "owed" \/ (rst["server"] = "yes" /\ ~sockerr["server"] /\ fd["server"])
ResetInv ==
  /\ \A s \in Side : sockerr[s] => rst[s] = "yes"
  /\ UnreportedReset => /\ gone["client"] /\ smain # "reply"
                        /\ \A i \in 1 .. last : calls[i] = "query" => i <= Executed

(***************************************************************************)
(* A receiver thread that is about to read finds a packet, or the end of   *)
(* the stream and no error.                                                *)
(***************************************************************************)
ReadyInv ==
  \A s \in Side :
    ~gone[s] /\ recv[s] = "ready" /\ wire[s] = <<>> => gone[Peer(s)] /\ ~sockerr[s]

(***************************************************************************)
(* One that polls a connection that was closed under it sees its reset,    *)
(* unless the client's cleanup has closed it.                              *)
(***************************************************************************)
PollingInv ==
  \A s \in Side : Works(s) /\ recv[s] = "polling" => fd[s] \/ rst[s] = "yes"

ServerPacket == [data : BOOLEAN, n : CallNumber]
Queues == /\ ring \in [Side -> Seq(ServerPacket) \cup Seq(CallNumber)]
          /\ wire \in [Side -> Seq(ServerPacket) \cup Seq(CallNumber)]

CallsInv == PoolInv /\ ReplyingInv /\ RepliesInv /\ QueryInv /\ CallerInv
ConnInv == ResetInv /\ ReadyInv /\ PollingInv /\ NoReadAfterFailedWrite
IInv == TypeOK /\ Queues /\ StreamInv /\ CallsInv /\ ConnInv

-----------------------------------------------------------------------------
(* The packets under way, when they move.                                  *)

LEMMA NumParts ==
  ASSUME NEW S, NEW r \in Seq(S), NEW w \in Seq(S)
  PROVE  /\ Num(r, w) \in Nat /\ Num(r, w) = Len(r) + Len(w)
         /\ Num(r, w) = 0 <=> r = <<>> /\ w = <<>>
         /\ Num(r, w) = 1 /\ r # <<>> => Len(r) = 1 /\ w = <<>>
<1>1. Len(w) \in Nat /\ Len(r) \in Nat
  BY LenProperties
<1>2. (r = <<>> <=> Len(r) = 0) /\ (w = <<>> <=> Len(w) = 0)
  BY EmptySeq
<1> QED BY <1>1, <1>2 DEF Num

(***************************************************************************)
(* A receiver that moves a packet from the wire to the ring changes no     *)
(* packet and no place (ReadPacket).                                       *)
(***************************************************************************)
LEMMA ItemMoved ==
  ASSUME NEW S, NEW r \in Seq(S), NEW w \in Seq(S), w # <<>>
  PROVE  /\ Num(Append(r, Head(w)), Tail(w)) = Num(r, w)
         /\ \A k \in 1 .. Num(r, w) :
              Item(Append(r, Head(w)), Tail(w), k) = Item(r, w, k)
<1>1. Head(w) \in S /\ Head(w) = w[1] /\ Tail(w) \in Seq(S) /\ Len(Tail(w)) = Len(w) - 1
  BY HeadTailProperties
<1>2. Len(w) \in Nat /\ Len(r) \in Nat /\ Len(w) # 0
  BY LenProperties
<1>3. \A i \in 1 .. Len(w) - 1 : Tail(w)[i] = w[i + 1]
  BY HeadTailProperties, <1>1
<1>4. /\ Len(Append(r, Head(w))) = Len(r) + 1
      /\ \A i \in 1 .. Len(r) : Append(r, Head(w))[i] = r[i]
      /\ Append(r, Head(w))[Len(r) + 1] = w[1]
  BY <1>1, AppendProperties
<1>5. Num(Append(r, Head(w)), Tail(w)) = Num(r, w)
  BY <1>1, <1>2, <1>4 DEF Num
<1>6. ASSUME NEW k \in 1 .. Num(r, w)
      PROVE  Item(Append(r, Head(w)), Tail(w), k) = Item(r, w, k)
  <2>1. CASE k <= Len(r)
    BY <2>1, <1>2, <1>4 DEF Item, Num
  <2>2. CASE k = Len(r) + 1
    BY <2>2, <1>2, <1>4 DEF Item, Num
  <2>3. CASE k > Len(r) + 1
    <3>1. k - Len(r) - 1 \in 1 .. Len(w) - 1
      BY <2>3, <1>2 DEF Num
    <3>2. Tail(w)[k - Len(r) - 1] = w[k - Len(r)]
      BY <3>1, <1>3, <1>2
    <3>3. k - (Len(r) + 1) = k - Len(r) - 1
      BY <1>2, <2>3
    <3> QED BY <2>3, <3>2, <3>3, <1>2, <1>4 DEF Item, Num
  <2> QED BY <2>1, <2>2, <2>3, <1>2 DEF Num
<1> QED BY <1>5, <1>6

(***************************************************************************)
(* A packet taken from the ring leaves the others one place nearer.        *)
(***************************************************************************)
LEMMA ItemPopped ==
  ASSUME NEW S, NEW r \in Seq(S), NEW w \in Seq(S), r # <<>>
  PROVE  /\ Num(r, w) \in Nat \ {0} /\ Num(Tail(r), w) = Num(r, w) - 1
         /\ \A k \in 1 .. Num(r, w) - 1 : Item(Tail(r), w, k) = Item(r, w, k + 1)
         /\ Item(r, w, 1) = Head(r)
<1>1. Head(r) = r[1] /\ Tail(r) \in Seq(S) /\ Len(Tail(r)) = Len(r) - 1
  BY HeadTailProperties
<1>2. Len(w) \in Nat /\ Len(r) \in Nat /\ Len(r) # 0
  BY LenProperties
<1>3. \A i \in 1 .. Len(r) - 1 : Tail(r)[i] = r[i + 1]
  BY HeadTailProperties, <1>1
<1>4. Num(r, w) \in Nat \ {0} /\ Num(Tail(r), w) = Num(r, w) - 1
  BY <1>1, <1>2 DEF Num
<1>5. ASSUME NEW k \in 1 .. Num(r, w) - 1
      PROVE  Item(Tail(r), w, k) = Item(r, w, k + 1)
  <2>1. CASE k <= Len(r) - 1
    BY <2>1, <1>1, <1>2, <1>3 DEF Item, Num
  <2>2. CASE k > Len(r) - 1
    <3>1. k - (Len(r) - 1) = k + 1 - Len(r)
      BY <1>2
    <3> QED BY <2>2, <3>1, <1>1, <1>2 DEF Item, Num
  <2> QED BY <2>1, <2>2, <1>2 DEF Num
<1>6. Item(r, w, 1) = Head(r)
  BY <1>1, <1>2 DEF Item
<1> QED BY <1>4, <1>5, <1>6

(***************************************************************************)
(* A packet sent is the last one.                                          *)
(***************************************************************************)
LEMMA ItemSent ==
  ASSUME NEW S, NEW r \in Seq(S), NEW w \in Seq(S), NEW x \in S
  PROVE  /\ Num(r, w) \in Nat /\ Num(r, Append(w, x)) = Num(r, w) + 1
         /\ \A k \in 1 .. Num(r, w) : Item(r, Append(w, x), k) = Item(r, w, k)
         /\ Item(r, Append(w, x), Num(r, w) + 1) = x
<1>1. Len(w) \in Nat /\ Len(r) \in Nat
  BY LenProperties
<1>2. /\ Len(Append(w, x)) = Len(w) + 1
      /\ \A i \in 1 .. Len(w) : Append(w, x)[i] = w[i]
      /\ Append(w, x)[Len(w) + 1] = x
  BY AppendProperties
<1>3. Num(r, w) \in Nat /\ Num(r, Append(w, x)) = Num(r, w) + 1
  BY <1>1, <1>2 DEF Num
<1>4. \A k \in 1 .. Num(r, w) : Item(r, Append(w, x), k) = Item(r, w, k)
  BY <1>1, <1>2 DEF Num, Item
<1>5. Item(r, Append(w, x), Num(r, w) + 1) = x
  <2>1. Num(r, w) + 1 > Len(r) /\ Num(r, w) + 1 - Len(r) = Len(w) + 1
    BY <1>1 DEF Num
  <2> QED BY <2>1, <1>1, <1>2, <1>3 DEF Item
<1> QED BY <1>3, <1>4, <1>5

(***************************************************************************)
(* What a reset destroys is the end of what was under way.                 *)
(***************************************************************************)
LEMMA ItemCut ==
  ASSUME NEW S, NEW r \in Seq(S), NEW w \in Seq(S), NEW m \in 0 .. Len(w)
  PROVE  /\ SubSeq(w, 1, m) \in Seq(S) /\ Len(SubSeq(w, 1, m)) = m
         /\ Num(r, SubSeq(w, 1, m)) \in Nat /\ Num(r, w) \in Nat
         /\ Num(r, SubSeq(w, 1, m)) <= Num(r, w)
         /\ \A k \in 1 .. Num(r, SubSeq(w, 1, m)) :
              Item(r, SubSeq(w, 1, m), k) = Item(r, w, k)
<1>1. Len(w) \in Nat /\ Len(r) \in Nat
  BY LenProperties
<1> DEFINE v == SubSeq(w, 1, m)
<1>2. v \in Seq(S)
  BY <1>1, SubSeqProperties, ElementOfSeq
<1>3. Len(v) = m
  BY <1>1, SubSeqProperties
<1>4. \A i \in 1 .. m : v[i] = w[i]
  <2>1. \A i \in 1 .. m - 1 + 1 : v[i] = w[1 + i - 1]
    BY <1>1, SubSeqProperties
  <2> QED BY <2>1, <1>1
<1> HIDE DEF v
<1>5. Num(r, v) \in Nat /\ Num(r, w) \in Nat /\ Num(r, v) <= Num(r, w)
  BY <1>1, <1>3 DEF Num
<1>6. \A k \in 1 .. Num(r, v) : Item(r, v, k) = Item(r, w, k)
  BY <1>1, <1>3, <1>4 DEF Num, Item
<1> QED BY <1>2, <1>3, <1>5, <1>6 DEF v

-----------------------------------------------------------------------------
(* The stream of packets, when the client sends and the server handles.    *)

Position == [n : Nat, half : BOOLEAN]
Packets == [data : BOOLEAN, n : Nat]

LEMMA ItemIsPacket ==
  ASSUME NEW S, NEW r \in Seq(S), NEW w \in Seq(S), NEW k \in 1 .. Num(r, w)
  PROVE  Item(r, w, k) \in S
<1>1. Len(w) \in Nat /\ Len(r) \in Nat
  BY LenProperties
<1>2. CASE k <= Len(r)
  <2>1. k \in 1 .. Len(r)
    BY <1>1, <1>2
  <2> QED BY <2>1, <1>2, ElementOfSeq DEF Item
<1>3. CASE ~(k <= Len(r))
  <2>1. k - Len(r) \in 1 .. Len(w)
    BY <1>1, <1>3 DEF Num
  <2> QED BY <2>1, <1>3, ElementOfSeq DEF Item
<1> QED BY <1>2, <1>3

(***************************************************************************)
(* Only the packets matter, not where they are; fewer of them do no harm   *)
(* once the connection is not whole.                                       *)
(***************************************************************************)
LEMMA StreamCut ==
  ASSUME NEW r, NEW w, NEW v, NEW cs, NEW s, NEW c,
         NEW replying \in BOOLEAN, NEW whole \in BOOLEAN,
         Num(r, w) \in Nat, Num(r, v) \in Nat, Num(r, v) <= Num(r, w),
         \A k \in 1 .. Num(r, v) : Item(r, v, k) = Item(r, w, k),
         Stream(r, w, cs, s, c, replying, whole)
  PROVE  Stream(r, v, cs, s, c, replying, FALSE)
<1>1. ASSUME NEW k \in 1 .. Num(r, v)
      PROVE  /\ k \in 1 .. Num(r, w) /\ Item(r, v, k) = Item(r, w, k)
             /\ Reached(r, v, s, k - 1) = Reached(r, w, s, k - 1)
  <2>1. k = 1 \/ k - 1 \in 1 .. Num(r, v)
    OBVIOUS
  <2>2. Reached(r, v, s, k - 1) = Reached(r, w, s, k - 1)
    BY <2>1 DEF Reached
  <2> QED BY <2>2
<1>2. Chain(r, v, cs, s, replying)
  BY <1>1 DEF Chain, Stream
<1>3. Sent(r, v, c)
  BY <1>1 DEF Sent, Stream
<1> QED BY <1>2, <1>3 DEF Stream

LEMMA StreamMoved ==
  ASSUME NEW r, NEW w, NEW q, NEW v, NEW cs, NEW s, NEW c,
         NEW replying \in BOOLEAN, NEW whole \in BOOLEAN,
         Num(r, w) \in Nat, Num(q, v) = Num(r, w),
         \A k \in 1 .. Num(r, w) : Item(q, v, k) = Item(r, w, k),
         Stream(r, w, cs, s, c, replying, whole)
  PROVE  Stream(q, v, cs, s, c, replying, whole)
<1>1. ASSUME NEW k \in 1 .. Num(r, w)
      PROVE  /\ k \in 1 .. Num(q, v) /\ Item(q, v, k) = Item(r, w, k)
             /\ Reached(q, v, s, k - 1) = Reached(r, w, s, k - 1)
  <2>1. k = 1 \/ k - 1 \in 1 .. Num(r, w)
    OBVIOUS
  <2>2. Reached(q, v, s, k - 1) = Reached(r, w, s, k - 1)
    BY <2>1 DEF Reached
  <2> QED BY <2>2
<1>2. Chain(q, v, cs, s, replying)
  BY <1>1 DEF Chain, Stream
<1>3. Sent(q, v, c)
  BY <1>1 DEF Sent, Stream
<1>4. Reached(q, v, s, Num(q, v)) = Reached(r, w, s, Num(r, w))
  <2>1. Num(r, w) = 0 \/ Num(r, w) \in 1 .. Num(r, w)
    OBVIOUS
  <2> QED BY <2>1 DEF Reached
<1> QED BY <1>2, <1>3, <1>4 DEF Stream

(***************************************************************************)
(* The client's progress, with nothing sent, is no harm either.            *)
(***************************************************************************)
LEMMA NotAfterTransitive ==
  ASSUME NEW s \in [n : Int, half : BOOLEAN], NEW t \in [n : Int, half : BOOLEAN],
         NEW u \in [n : Int, half : BOOLEAN],
         NotAfter(s, t), NotAfter(t, u)
  PROVE  NotAfter(s, u)
<1>1. s.n \in Int /\ t.n \in Int /\ u.n \in Int
  OBVIOUS
<1> QED BY <1>1 DEF NotAfter

LEMMA PositionAfterIn ==
  ASSUME NEW p \in Packets
  PROVE  PositionAfter(p) \in [n : Int, half : BOOLEAN]
BY DEF PositionAfter, Packets

LEMMA StreamLeft ==
  ASSUME NEW r \in Seq(Packets), NEW w \in Seq(Packets), NEW cs,
         NEW s \in Position, NEW c \in Position, NEW d \in Position,
         NEW replying \in BOOLEAN, NEW whole \in BOOLEAN,
         NotAfter(c, d),
         Stream(r, w, cs, s, c, replying, whole)
  PROVE  Stream(r, w, cs, s, d, replying, FALSE)
<1>1. /\ s \in [n : Int, half : BOOLEAN] /\ c \in [n : Int, half : BOOLEAN]
      /\ d \in [n : Int, half : BOOLEAN]
  BY DEF Position
<1>2. NotAfter(s, d)
  BY <1>1, NotAfterTransitive DEF Stream
<1>3. ASSUME NEW k \in 1 .. Num(r, w)
      PROVE  NotAfter(PositionAfter(Item(r, w, k)), d)
  <2>1. PositionAfter(Item(r, w, k)) \in [n : Int, half : BOOLEAN]
    BY ItemIsPacket, PositionAfterIn
  <2>2. NotAfter(PositionAfter(Item(r, w, k)), c)
    BY DEF Stream, Sent
  <2> QED BY <1>1, <2>1, <2>2, NotAfterTransitive
<1> QED BY <1>2, <1>3 DEF Stream, Sent

(***************************************************************************)
(* The client sends the packet that follows.                               *)
(***************************************************************************)
LEMMA StreamSent ==
  ASSUME NEW r \in Seq(Packets), NEW w \in Seq(Packets), NEW cs, NEW x \in Packets,
         NEW s \in Position, NEW c \in Position, NEW replying \in BOOLEAN,
         Extends(cs, c, x), NotAfter(c, PositionAfter(x)), PositionAfter(x) \in Position,
         Stream(r, w, cs, s, c, replying, TRUE)
  PROVE  Stream(r, Append(w, x), cs, s, PositionAfter(x), replying, TRUE)
<1> DEFINE v == Append(w, x)
           N == Num(r, w)
           d == PositionAfter(x)
<1>1. /\ N \in Nat /\ Num(r, v) = N + 1
      /\ \A k \in 1 .. N : Item(r, v, k) = Item(r, w, k)
      /\ Item(r, v, N + 1) = x
  BY ItemSent
<1>2. Stream(r, w, cs, s, d, replying, FALSE)
  BY StreamLeft
<1>3. d \in Position /\ NotAfter(d, d)
  BY DEF NotAfter, Position
<1> HIDE DEF v, N
<1>4. ASSUME NEW k \in 1 .. N + 1
      PROVE  Reached(r, v, s, k - 1) = Reached(r, w, s, k - 1)
  <2>1. k = 1 \/ k - 1 \in 1 .. N
    BY <1>1
  <2> QED BY <2>1, <1>1 DEF Reached
<1>5. Reached(r, w, s, N) = c
  BY DEF Stream, N
<1>6. ASSUME NEW k \in 1 .. N + 1
      PROVE  (k = 1 /\ replying) \/ Extends(cs, Reached(r, v, s, k - 1), Item(r, v, k))
  <2>1. CASE k \in 1 .. N
    <3>1. (k = 1 /\ replying) \/ Extends(cs, Reached(r, w, s, k - 1), Item(r, w, k))
      BY <2>1 DEF Stream, Chain, N
    <3> QED BY <3>1, <2>1, <1>1, <1>4
  <2>2. CASE k = N + 1
    <3>1. k - 1 = N
      BY <2>2, <1>1
    <3>2. Reached(r, v, s, k - 1) = c
      BY <3>1, <1>4, <1>5
    <3> QED BY <3>2, <2>2, <1>1
  <2> QED BY <2>1, <2>2, <1>1
<1>7. ASSUME NEW k \in 1 .. N + 1
      PROVE  NotAfter(PositionAfter(Item(r, v, k)), d)
  <2>1. CASE k \in 1 .. N
    BY <2>1, <1>1, <1>2 DEF Stream, Sent, N
  <2>2. CASE k = N + 1
    BY <2>2, <1>1, <1>3
  <2> QED BY <2>1, <2>2, <1>1
<1>8. Reached(r, v, s, N + 1) = d
  BY <1>1 DEF Reached
<1>9. NotAfter(s, d)
  BY <1>2 DEF Stream
<1>10. Chain(r, v, cs, s, replying)
  BY <1>6, <1>1 DEF Chain
<1>11. Sent(r, v, d)
  BY <1>7, <1>1 DEF Sent
<1>12. Reached(r, v, s, Num(r, v)) = d
  BY <1>8, <1>1
<1>13. Stream(r, v, cs, s, d, replying, TRUE)
  BY <1>9, <1>10, <1>11, <1>12 DEF Stream
<1> QED BY <1>13 DEF v

(***************************************************************************)
(* The server handles the first packet: its position is after it, whether  *)
(* the packet stays for its reply or not.                                  *)
(***************************************************************************)
LEMMA StreamBegun ==
  ASSUME NEW r \in Seq(Packets), NEW w \in Seq(Packets), NEW cs,
         NEW s, NEW c, NEW whole \in BOOLEAN, r # <<>>,
         Stream(r, w, cs, s, c, FALSE, whole)
  PROVE  /\ Extends(cs, s, Head(r)) /\ NotAfter(PositionAfter(Head(r)), c)
         /\ Stream(r, w, cs, PositionAfter(Head(r)), c, TRUE, whole)
<1> DEFINE t == PositionAfter(Head(r))
           N == Num(r, w)
<1>1. N \in Nat \ {0} /\ Item(r, w, 1) = Head(r)
  BY ItemPopped
<1>2. 1 \in 1 .. N /\ Reached(r, w, s, 1 - 1) = s
  BY <1>1 DEF Reached
<1>3. Extends(cs, s, Head(r)) /\ NotAfter(t, c)
  BY <1>1, <1>2 DEF Stream, Chain, Sent
<1>4. ASSUME NEW k \in 1 .. N, k # 1
      PROVE  Reached(r, w, t, k - 1) = Reached(r, w, s, k - 1)
  BY <1>4, <1>1 DEF Reached
<1>5. Reached(r, w, t, N) = Reached(r, w, s, N)
  BY <1>1 DEF Reached
<1> HIDE DEF t
<1>6. Chain(r, w, cs, t, TRUE)
  BY <1>4 DEF Stream, Chain
<1> QED BY <1>3, <1>5, <1>6 DEF Stream, t

LEMMA StreamPopped ==
  ASSUME NEW r \in Seq(Packets), NEW w \in Seq(Packets), NEW cs,
         NEW c, NEW whole \in BOOLEAN, r # <<>>,
         Stream(r, w, cs, PositionAfter(Head(r)), c, TRUE, whole)
  PROVE  Stream(Tail(r), w, cs, PositionAfter(Head(r)), c, FALSE, whole)
<1> DEFINE s == PositionAfter(Head(r))
           N == Num(r, w)
           q == Tail(r)
<1>1. /\ N \in Nat \ {0} /\ Item(r, w, 1) = Head(r) /\ Num(q, w) = N - 1
      /\ \A k \in 1 .. N - 1 : Item(q, w, k) = Item(r, w, k + 1)
  BY ItemPopped
<1>2. ASSUME NEW k \in 0 .. N - 1
      PROVE  Reached(q, w, s, k) = Reached(r, w, s, k + 1)
  <2>1. CASE k = 0
    BY <2>1, <1>1 DEF Reached
  <2>2. CASE k # 0
    <3>1. k \in 1 .. N - 1 /\ k + 1 # 0
      BY <2>2, <1>1
    <3> QED BY <3>1, <2>2, <1>1 DEF Reached
  <2> QED BY <2>1, <2>2
<1> HIDE DEF s, q, N
<1>3. ASSUME NEW k \in 1 .. N - 1
      PROVE  /\ Extends(cs, Reached(q, w, s, k - 1), Item(q, w, k))
             /\ NotAfter(PositionAfter(Item(q, w, k)), c)
  <2>1. k + 1 \in 1 .. N /\ k + 1 # 1 /\ k - 1 \in 0 .. N - 1 /\ (k + 1) - 1 = (k - 1) + 1
    BY <1>1
  <2>2. Extends(cs, Reached(r, w, s, (k + 1) - 1), Item(r, w, k + 1))
    BY <2>1 DEF Stream, Chain, s, N
  <2>3. Reached(q, w, s, k - 1) = Reached(r, w, s, (k - 1) + 1)
    BY <2>1, <1>2
  <2>4. NotAfter(PositionAfter(Item(r, w, k + 1)), c)
    BY <2>1 DEF Stream, Sent, N
  <2>5. Item(q, w, k) = Item(r, w, k + 1)
    BY <1>1
  <2> QED BY <2>1, <2>2, <2>3, <2>4, <2>5
<1>4. Chain(q, w, cs, s, FALSE)
  BY <1>1, <1>3 DEF Chain
<1>5. Sent(q, w, c)
  BY <1>1, <1>3 DEF Sent
<1>6. Reached(q, w, s, Num(q, w)) = Reached(r, w, s, N)
  <2>1. N - 1 \in 0 .. N - 1 /\ (N - 1) + 1 = N
    BY <1>1
  <2>2. Reached(q, w, s, N - 1) = Reached(r, w, s, (N - 1) + 1)
    BY <2>1, <1>2
  <2> QED BY <2>1, <2>2, <1>1
<1>7. NotAfter(s, c) /\ (whole => Reached(r, w, s, N) = c)
  BY DEF Stream, s, N
<1>8. Stream(q, w, cs, s, c, FALSE, whole)
  BY <1>4, <1>5, <1>6, <1>7 DEF Stream
<1> QED BY <1>8 DEF q, s

(***************************************************************************)
(* A call that is made does not disturb what was sent before.              *)
(***************************************************************************)
LEMMA StreamExtended ==
  ASSUME NEW K, NEW cs \in Seq(K), NEW x \in K, NEW r, NEW w, NEW s, NEW c,
         NEW replying \in BOOLEAN, NEW whole \in BOOLEAN,
         Stream(r, w, cs, s, c, replying, whole)
  PROVE  Stream(r, w, Append(cs, x), s, c, replying, whole)
<1>1. /\ Len(Append(cs, x)) = Len(cs) + 1 /\ Len(cs) \in Nat
      /\ \A i \in 1 .. Len(cs) : Append(cs, x)[i] = cs[i]
  BY AppendProperties, LenProperties
<1>2. ASSUME NEW p, NEW t, Extends(cs, t, p)
      PROVE  Extends(Append(cs, x), t, p)
  <2>1. p.n \in 1 .. Len(cs) /\ p.n \in 1 .. Len(Append(cs, x))
    BY <1>1, <1>2 DEF Extends
  <2>2. Append(cs, x)[p.n] = cs[p.n]
    BY <1>1, <2>1
  <2> QED BY <1>2, <2>1, <2>2 DEF Extends
<1>3. Chain(r, w, Append(cs, x), s, replying)
  BY <1>2 DEF Stream, Chain
<1> QED BY <1>3 DEF Stream

-----------------------------------------------------------------------------
(* What the type invariant says of the parts of the state.                 *)

AreQueues(f) ==
  /\ f \in [Side -> Seq(ServerPacket) \cup Seq(CallNumber)]
  /\ \A s \in Side : f[s] \in Seq(PacketTo(s))

LEMMA SideFacts ==
  /\ Side = {"client", "server"} /\ "client" \in Side /\ "server" \in Side
  /\ Peer("client") = "server" /\ Peer("server") = "client"
  /\ \A s \in Side : Peer(s) \in Side /\ Peer(s) # s /\ Peer(Peer(s)) = s
  /\ PacketTo("server") = ServerPacket /\ PacketTo("client") = CallNumber
BY DEF Side, Peer, PacketTo, ServerPacket

LEMMA AreQueuesParts ==
  ASSUME NEW f, AreQueues(f)
  PROVE  /\ f["server"] \in Seq(ServerPacket) /\ f["server"] \in Seq(Packets)
         /\ f["client"] \in Seq(CallNumber)
         /\ \A s \in Side : f[s] \in Seq(PacketTo(s)) /\ Len(f[s]) \in Nat
<1>1. f["server"] \in Seq(ServerPacket) /\ f["client"] \in Seq(CallNumber)
  BY SideFacts DEF AreQueues
<1>2. ServerPacket \subseteq Packets
  BY SessionAssumption DEF ServerPacket, Packets, CallNumber
<1>3. ASSUME NEW q \in Seq(ServerPacket)
      PROVE  q \in Seq(Packets)
  <2>1. Len(q) \in Nat /\ q = [i \in 1 .. Len(q) |-> q[i]]
    BY LenProperties
  <2>2. \A i \in 1 .. Len(q) : q[i] \in Packets
    BY ElementOfSeq, <1>2
  <2> QED BY <2>1, <2>2, IsASeq
<1>4. \A s \in Side : f[s] \in Seq(PacketTo(s)) /\ Len(f[s]) \in Nat
  BY LenProperties DEF AreQueues
<1> QED BY <1>1, <1>3, <1>4

LEMMA AreQueuesPut ==
  ASSUME NEW f, AreQueues(f), NEW s \in Side, NEW q \in Seq(PacketTo(s))
  PROVE  /\ AreQueues(Put(f, s, q)) /\ Put(f, s, q)[s] = q
         /\ \A t \in Side : t # s => Put(f, s, q)[t] = f[t]
<1>1. q \in Seq(ServerPacket) \cup Seq(CallNumber)
  BY SideFacts
<1>2. Put(f, s, q) \in [Side -> Seq(ServerPacket) \cup Seq(CallNumber)]
  BY <1>1 DEF AreQueues, Put
<1>3. Put(f, s, q)[s] = q /\ \A t \in Side : t # s => Put(f, s, q)[t] = f[t]
  BY DEF AreQueues, Put
<1> QED BY <1>2, <1>3 DEF AreQueues

LEMMA PutBoolean ==
  ASSUME NEW T, NEW f \in [Side -> T], NEW s \in Side, NEW x \in T
  PROVE  /\ Put(f, s, x) \in [Side -> T] /\ Put(f, s, x)[s] = x
         /\ \A t \in Side : t # s => Put(f, s, x)[t] = f[t]
BY DEF Put

LEMMA StateParts ==
  ASSUME TypeOK, Queues
  PROVE  /\ AreQueues(ring) /\ AreQueues(wire)
         /\ calls \in Seq(CallKinds) /\ last \in Nat /\ last \in 0 .. MaxCalls
         /\ \A i \in 1 .. last : calls[i] \in CallKinds
         /\ Executed \in Nat /\ pool \in Nat
<1>1. AreQueues(ring) /\ AreQueues(wire)
  BY DEF TypeOK, Queues, AreQueues
<1>2. calls \in Seq(CallKinds) /\ last \in Nat /\ last \in 0 .. MaxCalls
  BY SessionAssumption, LenProperties DEF TypeOK, last
<1>3. \A i \in 1 .. last : calls[i] \in CallKinds
  BY <1>2, ElementOfSeq DEF last
<1>4. Executed \in Nat /\ pool \in Nat
  BY SessionAssumption, LenProperties DEF TypeOK, Executed
<1> QED BY <1>1, <1>2, <1>3, <1>4

LEMMA Positions ==
  ASSUME TypeOK, Queues, CallerInv
  PROVE  /\ ServerPosition \in Position /\ ClientPosition \in Position
         /\ ServerPosition.n = Executed /\ ServerPosition.half = (pool # 0)
         /\ cpc \in {"data", "send"} => last - 1 \in Nat /\ last \in 1 .. MaxCalls
<1>1. last \in Nat /\ Executed \in Nat
  BY StateParts
<1>2. cpc \in {"data", "send"} => last - 1 \in Nat /\ last \in 1 .. MaxCalls
  BY <1>1, SessionAssumption DEF CallerInv
<1>3. ServerPosition \in Position
  BY <1>1 DEF ServerPosition, Position
<1>4. ClientPosition \in Position
  <2> DEFINE m == IF cpc \in {"data", "send"} THEN last - 1 ELSE last
             h == cpc = "send" /\ kind = "data"
  <2>1. m \in Nat
    BY <1>1, <1>2
  <2>2. h \in BOOLEAN
    OBVIOUS
  <2> HIDE DEF m, h
  <2>3. [n |-> m, half |-> h] \in Position
    BY <2>1, <2>2 DEF Position
  <2> QED BY <2>3 DEF ClientPosition, m, h
<1>5. ServerPosition.n = Executed /\ ServerPosition.half = (pool # 0)
  BY DEF ServerPosition
<1> QED BY <1>2, <1>3, <1>4, <1>5

-----------------------------------------------------------------------------
(* Steps of the network and of the receiver threads leave the calls alone; *)
(* a reset cuts off the end of what is on the wire.                        *)

CutOf(v, w) == v = w \/ \E m \in 0 .. Len(w) : v = SubSeq(w, 1, m)

LEMMA ItemCutOf ==
  ASSUME NEW S, NEW r \in Seq(S), NEW w \in Seq(S), NEW v, CutOf(v, w)
  PROVE  /\ v \in Seq(S) /\ Len(v) <= Len(w)
         /\ Num(r, v) \in Nat /\ Num(r, w) \in Nat /\ Num(r, v) <= Num(r, w)
         /\ \A k \in 1 .. Num(r, v) : Item(r, v, k) = Item(r, w, k)
<1>1. Len(w) \in Nat /\ Len(r) \in Nat
  BY LenProperties
<1>2. CASE v = w
  BY <1>1, <1>2 DEF Num
<1>3. CASE v # w
  <2>1. PICK m \in 0 .. Len(w) : v = SubSeq(w, 1, m)
    BY <1>3 DEF CutOf
  <2>2. m <= Len(w)
    BY <1>1
  <2> QED BY <2>1, <2>2, ItemCut
<1> QED BY <1>2, <1>3

LEMMA NetStep ==
  ASSUME IInv, UNCHANGED <<clientVars, serverVars, ring>>,
         \A s \in Side : CutOf(wire'[s], wire[s]),
         Intact' => Intact /\ wire'["server"] = wire["server"]
  PROVE  StreamInv' /\ CallsInv'
<1> USE DEF IInv, CallsInv
<1> DEFINE R == ring["server"]
           W == wire["server"]
           V == wire'["server"]
           Q == ring["client"]
           X == wire["client"]
           Y == wire'["client"]
<1>1. AreQueues(ring) /\ AreQueues(wire)
  BY StateParts
<1>2. R \in Seq(Packets) /\ W \in Seq(Packets) /\ Q \in Seq(CallNumber) /\ X \in Seq(CallNumber)
  BY <1>1, AreQueuesParts
<1>3. CutOf(V, W) /\ CutOf(Y, X)
  BY SideFacts
<1>4. /\ UNCHANGED <<calls, cpc, returned, smain, pool, executed, ring>>
      /\ ServerPosition' = ServerPosition /\ ClientPosition' = ClientPosition
  BY DEF clientVars, serverVars, ServerPosition, ClientPosition, Executed, last, kind
<1> HIDE DEF R, W, V, Q, X, Y
<1>5. /\ Num(R, V) \in Nat /\ Num(R, W) \in Nat /\ Num(R, V) <= Num(R, W)
      /\ \A k \in 1 .. Num(R, V) : Item(R, V, k) = Item(R, W, k)
  BY <1>2, <1>3, ItemCutOf
<1>6. /\ Num(Q, Y) \in Nat /\ Num(Q, X) \in Nat /\ Num(Q, Y) <= Num(Q, X)
      /\ \A k \in 1 .. Num(Q, Y) : Item(Q, Y, k) = Item(Q, X, k)
  BY <1>2, <1>3, ItemCutOf
<1>7. Intact \in BOOLEAN /\ Intact' \in BOOLEAN
  BY DEF Intact
<1>8. Stream(R, V, calls, ServerPosition, ClientPosition, smain = "reply", Intact')
  <2>1. Stream(R, W, calls, ServerPosition, ClientPosition, smain = "reply", Intact)
    BY DEF StreamInv, R, W
  <2>2. Stream(R, V, calls, ServerPosition, ClientPosition, smain = "reply", FALSE)
    BY <2>1, <1>5, <1>7, StreamCut
  <2>3. CASE ~Intact'
    BY <2>3, <2>2 DEF Stream
  <2>4. CASE Intact'
    BY <2>4, <2>1 DEF W, V
  <2> QED BY <2>3, <2>4
<1>9. StreamInv'
  BY <1>4, <1>8 DEF StreamInv, R, V
<1>10. RepliesNum = Num(Q, X) /\ RepliesNum' = Num(Q, Y)
  BY <1>4 DEF RepliesNum, Q, X, Y
<1>11. UNCHANGED <<last, kind, Executed, Asked>>
  BY <1>4 DEF last, kind, Executed, Asked
<1>12. PoolInv' /\ QueryInv' /\ CallerInv'
  BY <1>4, <1>11 DEF PoolInv, QueryInv, CallerInv
<1>13. RepliesNum' # 0 => RepliesNum = 1 /\ RepliesNum' = 1 /\ Item(Q, Y, 1) = Item(Q, X, 1)
  BY <1>6, <1>10 DEF RepliesInv
<1>14. ReplyingInv'
  BY <1>4, <1>11, <1>13 DEF ReplyingInv
<1>15. RepliesInv'
  BY <1>4, <1>11, <1>13 DEF RepliesInv, Q, X, Y
<1> QED BY <1>9, <1>12, <1>14, <1>15

LEMMA RemainingCut ==
  ASSUME AreQueues(wire), NEW s \in Side, NEW w \in Remaining(s)
  PROVE  /\ CutOf(w, wire[s])
         /\ recv[s] = "ready" /\ wire[s] # <<>> => w # <<>>
<1>1. wire[s] \in Seq(PacketTo(s)) /\ Len(wire[s]) \in Nat
  BY AreQueuesParts
<1>2. PICK k \in (IF recv[s] = "ready" /\ wire[s] # <<>> THEN 1 ELSE 0) .. Len(wire[s]) :
        w = SubSeq(wire[s], 1, k)
  BY DEF Remaining
<1>3. k \in 0 .. Len(wire[s]) /\ (recv[s] = "ready" /\ wire[s] # <<>> => k # 0)
  BY <1>1, <1>2
<1>4. CutOf(w, wire[s])
  BY <1>2, <1>3 DEF CutOf
<1>5. Len(w) = k
  BY <1>1, <1>2, <1>3, ItemCut
<1>6. w = <<>> => k = 0
  BY <1>5, EmptySeq
<1> QED BY <1>3, <1>4, <1>6

LEMMA CutTypes ==
  ASSUME NEW f, AreQueues(f), NEW g, g = [s \in Side |-> g[s]],
         \A s \in Side : CutOf(g[s], f[s])
  PROVE  AreQueues(g) /\ \A s \in Side : Len(g[s]) <= Len(f[s])
<1>1. ASSUME NEW s \in Side
      PROVE  /\ g[s] \in Seq(PacketTo(s)) /\ Len(g[s]) <= Len(f[s])
             /\ g[s] \in Seq(ServerPacket) \cup Seq(CallNumber)
  <2>1. f[s] \in Seq(PacketTo(s)) /\ CutOf(g[s], f[s])
    BY AreQueuesParts
  <2>2. <<>> \in Seq(PacketTo(s))
    BY EmptySeq
  <2>3. g[s] \in Seq(PacketTo(s)) /\ Len(g[s]) <= Len(f[s])
    BY <2>1, <2>2, ItemCutOf
  <2> QED BY <2>3, SideFacts
<1>2. g \in [Side -> Seq(ServerPacket) \cup Seq(CallNumber)]
  BY <1>1
<1> QED BY <1>1, <1>2 DEF AreQueues

LEMMA NetTypes ==
  ASSUME TypeOK, Queues, UNCHANGED <<clientVars, serverVars, ring>>,
         recv' \in [Side -> {"top", "polling", "ready", "close", "done"}],
         wire' = [s \in Side |-> wire'[s]], \A s \in Side : CutOf(wire'[s], wire[s]),
         ring_open' \in [Side -> BOOLEAN], fd' \in [Side -> BOOLEAN],
         gone' \in [Side -> BOOLEAN], rst' \in [Side -> {"no", "owed", "yes"}],
         sockerr' \in [Side -> BOOLEAN], broken' \in BOOLEAN, netreset' \in BOOLEAN
  PROVE  TypeOK' /\ Queues'
<1>1. AreQueues(wire)
  BY StateParts
<1> DEFINE w == wire'
<1>2. w = [s \in Side |-> w[s]] /\ \A s \in Side : CutOf(w[s], wire[s])
  OBVIOUS
<1> HIDE DEF w
<1>3. AreQueues(w) /\ \A s \in Side : Len(w[s]) <= Len(wire[s])
  BY <1>1, <1>2, CutTypes
<1>4. \A s \in Side : Len(w[s]) \in Nat /\ Len(wire[s]) \in Nat
  BY <1>1, <1>3, AreQueuesParts
<1>5. \A s \in Side : w[s] \in Seq(PacketTo(s)) /\ Len(w[s]) <= SockSize
  <2>1. \A s \in Side : Len(wire[s]) <= SockSize
    BY DEF TypeOK
  <2>2. SockSize \in Nat
    BY SessionAssumption
  <2>3. \A s \in Side : Len(w[s]) <= SockSize
    BY <1>3, <1>4, <2>1, <2>2
  <2> QED BY <1>3, <2>3 DEF AreQueues
<1>6. \A s \in Side : wire'[s] \in Seq(PacketTo(s)) /\ Len(wire'[s]) <= SockSize
  BY <1>5 DEF w
<1>7. UNCHANGED <<cpc, calls, returned, smain, pool, executed, ring>>
  BY DEF clientVars, serverVars
<1>8. TypeOK'
  BY <1>6, <1>7 DEF TypeOK
<1>9. wire' \in [Side -> Seq(ServerPacket) \cup Seq(CallNumber)]
  BY <1>3 DEF AreQueues, w
<1>10. Queues'
  BY <1>7, <1>9 DEF Queues
<1> QED BY <1>8, <1>10

(***************************************************************************)
(* The end of a process.                                                   *)
(***************************************************************************)
LEMMA DieKeeps ==
  ASSUME IInv, NEW s \in Side, ~gone[s], Die(s),
         UNCHANGED <<clientVars, serverVars, recvVars>>,
         broken' \in BOOLEAN, netreset' \in BOOLEAN
  PROVE  IInv'
<1> DEFINE p == Peer(s)
           resets == wire[s] # <<>> /\ rst[s] # "yes" /\ ~gone[p]
<1>1. p \in Side /\ p # s /\ \A t \in Side : t = s \/ t = p
  BY SideFacts
<1>2. AreQueues(wire)
  BY StateParts DEF IInv
<1>3. PICK w \in (IF resets THEN Remaining(p) ELSE {wire[p]}) :
        wire' = [wire EXCEPT ![s] = <<>>, ![p] = w]
  BY DEF Die
<1>4. /\ gone' = Put(gone, s, TRUE) /\ fd' = Put(fd, s, FALSE)
      /\ rst' = IF resets THEN Put(rst, p, "yes") ELSE rst
      /\ sockerr' = IF resets THEN Put(sockerr, p, TRUE) ELSE sockerr
  BY DEF Die
<1> HIDE DEF p
<1>5. wire' = [t \in Side |-> wire'[t]] /\ wire'[s] = <<>> /\ wire'[p] = w
  BY <1>1, <1>2, <1>3 DEF AreQueues
<1>6. /\ CutOf(w, wire[p])
      /\ recv[p] = "ready" /\ wire[p] # <<>> => w # <<>>
  <2>1. CASE resets
    BY <2>1, <1>1, <1>2, <1>3, RemainingCut
  <2>2. CASE ~resets
    <3>1. w = wire[p]
      BY <2>2, <1>3
    <3> QED BY <3>1 DEF CutOf
  <2> QED BY <2>1, <2>2
<1>7. CutOf(<<>>, wire[s])
  <2>1. wire[s] \in Seq(PacketTo(s)) /\ Len(wire[s]) \in Nat
    BY <1>2, AreQueuesParts
  <2>2. 0 \in 0 .. Len(wire[s]) /\ SubSeq(wire[s], 1, 0) = <<>>
    <3>1. Len(SubSeq(wire[s], 1, 0)) = 0 /\ SubSeq(wire[s], 1, 0) \in Seq(PacketTo(s))
      BY <2>1, ItemCut
    <3> QED BY <2>1, <3>1, EmptySeq
  <2> QED BY <2>2 DEF CutOf
<1>8. \A t \in Side : CutOf(wire'[t], wire[t])
  BY <1>1, <1>5, <1>6, <1>7
<1>9. /\ gone \in [Side -> BOOLEAN] /\ fd \in [Side -> BOOLEAN]
      /\ sockerr \in [Side -> BOOLEAN] /\ rst \in [Side -> {"no", "owed", "yes"}]
  BY DEF IInv, TypeOK
<1>10. /\ gone' \in [Side -> BOOLEAN] /\ gone'[s] /\ gone'[p] = gone[p]
       /\ fd' \in [Side -> BOOLEAN] /\ fd'[p] = fd[p]
  BY <1>1, <1>4, <1>9 DEF Put
<1>11. /\ rst' \in [Side -> {"no", "owed", "yes"}] /\ rst'[s] = rst[s]
       /\ sockerr' \in [Side -> BOOLEAN] /\ sockerr'[s] = sockerr[s]
       /\ rst'[p] = IF resets THEN "yes" ELSE rst[p]
       /\ sockerr'[p] = IF resets THEN TRUE ELSE sockerr[p]
  <2>1. CASE resets
    BY <2>1, <1>1, <1>4, <1>9 DEF Put
  <2>2. CASE ~resets
    BY <2>2, <1>4, <1>9
  <2> QED BY <2>1, <2>2
<1>12. UNCHANGED <<recv, ring, ring_open>> /\ UNCHANGED <<cpc, calls, returned, smain, pool, executed>>
  BY DEF recvVars, clientVars, serverVars
<1>13. TypeOK' /\ Queues'
  <2>1. /\ recv' \in [Side -> {"top", "polling", "ready", "close", "done"}]
        /\ ring_open' \in [Side -> BOOLEAN]
    BY <1>12 DEF IInv, TypeOK
  <2> QED BY <2>1, <1>5, <1>8, <1>10, <1>11, <1>12, NetTypes DEF IInv
<1>14. ~Intact'
  BY <1>10, SideFacts DEF Intact, Side
<1>15. StreamInv' /\ CallsInv'
  BY <1>8, <1>12, <1>14, NetStep
<1>16. ResetInv'
  <2>1. \A t \in Side : sockerr'[t] => rst'[t] = "yes"
    BY <1>1, <1>11 DEF IInv, ConnInv, ResetInv
  <2>2. UnreportedReset' => gone'["client"]
    <3>1. CASE s = "client"
      BY <3>1, <1>10
    <3>2. CASE s # "client"
      <4>1. s = "server"
        BY <3>2 DEF Side
      <4> QED BY <4>1, <1>10 DEF UnreportedReset
    <3> QED BY <3>1, <3>2
  <2>3. UnreportedReset' => UnreportedReset
    <3>1. CASE s = "client"
      <4>1. p = "server"
        BY <3>1, SideFacts DEF p
      <4> QED BY <4>1, <1>10, <1>11 DEF UnreportedReset
    <3>2. CASE s # "client"
      <4>1. s = "server"
        BY <3>2 DEF Side
      <4> QED BY <4>1, <1>10 DEF UnreportedReset
    <3> QED BY <3>1, <3>2
  <2> QED BY <2>1, <2>2, <2>3, <1>12 DEF IInv, ConnInv, ResetInv, last, Executed
<1>17. ReadyInv'
  <2>1. p \in Side /\ Peer(p) = s
    BY SideFacts DEF p
  <2>2. ~gone[p] /\ recv[p] = "ready" /\ wire[p] = <<>> => gone[s]
    BY <2>1 DEF IInv, ConnInv, ReadyInv
  <2>3. ~(~gone'[p] /\ recv'[p] = "ready" /\ wire'[p] = <<>>)
    BY <2>2, <1>5, <1>6, <1>10, <1>12
  <2> QED BY <2>3, <1>1, <1>10 DEF ReadyInv
<1>18. NoReadAfterFailedWrite' /\ PollingInv'
  BY <1>1, <1>10, <1>11, <1>12
     DEF IInv, ConnInv, NoReadAfterFailedWrite, PollingInv, Works, Runs, Freed
<1> QED BY <1>13, <1>15, <1>16, <1>17, <1>18 DEF IInv, ConnInv

-----------------------------------------------------------------------------
(* What breaks the connection.                                             *)

LEMMA KillKeeps ==
  ASSUME IInv, NEW s \in Side, Kill(s)
  PROVE  IInv'
<1>1. ~gone[s] /\ Die(s) /\ UNCHANGED <<clientVars, serverVars, recvVars>>
      /\ broken' \in BOOLEAN /\ netreset' \in BOOLEAN
  BY DEF Kill, IInv, TypeOK
<1> QED BY <1>1, DieKeeps

LEMMA EndKeeps ==
  ASSUME IInv, ClientSigpipe \/ ExitProcess \/ JoinAndExit
  PROVE  IInv'
<1>1. PICK s \in Side : /\ ~gone[s] /\ Die(s)
                        /\ UNCHANGED <<clientVars, serverVars, recvVars, faultVars>>
  BY SideFacts DEF ClientSigpipe, ExitProcess, JoinAndExit
<1>2. broken' \in BOOLEAN /\ netreset' \in BOOLEAN
  BY <1>1 DEF faultVars, IInv, TypeOK
<1> QED BY <1>1, <1>2, DieKeeps

LEMMA NetResetKeeps ==
  ASSUME IInv, NetReset
  PROVE  IInv'
<1>1. AreQueues(wire)
  BY StateParts DEF IInv
<1>2. PICK wc \in Remaining("client"), ws \in Remaining("server") :
        wire' = [wire EXCEPT !["client"] = wc, !["server"] = ws]
  BY DEF NetReset
<1>3. wire' = [s \in Side |-> wire'[s]] /\ wire'["client"] = wc /\ wire'["server"] = ws
  BY <1>1, <1>2, SideFacts DEF AreQueues
<1>4. \A s \in Side : /\ CutOf(wire'[s], wire[s])
                      /\ recv[s] = "ready" /\ wire[s] # <<>> => wire'[s] # <<>>
  BY <1>1, <1>3, SideFacts, RemainingCut
<1>5. /\ UNCHANGED <<clientVars, serverVars, recv, ring, ring_open, fd, gone>>
      /\ UNCHANGED <<cpc, calls, returned, smain, pool, executed>>
      /\ \A s \in Side : ~gone[s]
      /\ rst' = [s \in Side |-> "yes"] /\ sockerr' = [s \in Side |-> TRUE]
      /\ broken' = TRUE /\ netreset' = TRUE
  BY DEF NetReset, recvVars, clientVars, serverVars
<1>6. TypeOK' /\ Queues'
  <2>1. /\ recv' \in [Side -> {"top", "polling", "ready", "close", "done"}]
        /\ ring_open' \in [Side -> BOOLEAN] /\ fd' \in [Side -> BOOLEAN]
        /\ gone' \in [Side -> BOOLEAN] /\ rst' \in [Side -> {"no", "owed", "yes"}]
        /\ sockerr' \in [Side -> BOOLEAN]
    BY <1>5 DEF IInv, TypeOK
  <2> QED BY <2>1, <1>3, <1>4, <1>5, NetTypes DEF IInv
<1>7. rst'["client"] = "yes" /\ \A s \in Side : rst'[s] = "yes" /\ sockerr'[s]
  BY <1>5, SideFacts
<1>8. StreamInv' /\ CallsInv'
  <2>1. ~Intact'
    BY <1>7 DEF Intact
  <2> QED BY <2>1, <1>4, <1>5, NetStep
<1>9. ResetInv'
  <2>1. ~UnreportedReset'
    BY <1>7, SideFacts DEF UnreportedReset
  <2> QED BY <2>1, <1>7 DEF ResetInv
<1>10. ReadyInv'
  <2>1. \A s \in Side : Peer(s) \in Side /\ ~gone[Peer(s)]
    BY <1>5, SideFacts
  <2>2. \A s \in Side : ~gone[s] /\ recv[s] = "ready" => wire[s] # <<>>
    BY <2>1 DEF IInv, ConnInv, ReadyInv
  <2> QED BY <2>2, <1>4, <1>5 DEF ReadyInv
<1>11. NoReadAfterFailedWrite' /\ PollingInv'
  BY <1>5, <1>7 DEF IInv, ConnInv, NoReadAfterFailedWrite, PollingInv, Works, Runs, Freed
<1> QED BY <1>6, <1>8, <1>9, <1>10, <1>11 DEF IInv, ConnInv

LEMMA RstArrivesKeeps ==
  ASSUME IInv, NEW s \in Side, RstArrives(s)
  PROVE  IInv'
<1>1. /\ ~gone[s] /\ rst[s] = "owed" /\ rst' = Put(rst, s, "yes")
      /\ UNCHANGED <<clientVars, serverVars, recvVars, faultVars, recv, ring, ring_open,
                     fd, wire, gone, sockerr, broken, netreset, cpc, calls, returned,
                     smain, pool, executed>>
  BY DEF RstArrives, recvVars, clientVars, serverVars, faultVars
<1>2. rst \in [Side -> {"no", "owed", "yes"}] /\ AreQueues(wire)
  BY StateParts DEF IInv, TypeOK
<1>3. /\ rst' \in [Side -> {"no", "owed", "yes"}] /\ rst'[s] = "yes"
      /\ \A t \in Side : t # s => rst'[t] = rst[t]
  BY <1>1, <1>2 DEF Put
<1>4. wire' = [t \in Side |-> wire'[t]] /\ \A t \in Side : CutOf(wire'[t], wire[t])
  BY <1>1, <1>2 DEF AreQueues, CutOf
<1>5. TypeOK' /\ Queues'
  <2>1. /\ recv' \in [Side -> {"top", "polling", "ready", "close", "done"}]
        /\ ring_open' \in [Side -> BOOLEAN] /\ fd' \in [Side -> BOOLEAN]
        /\ gone' \in [Side -> BOOLEAN] /\ sockerr' \in [Side -> BOOLEAN]
        /\ broken' \in BOOLEAN /\ netreset' \in BOOLEAN
    BY <1>1 DEF IInv, TypeOK
  <2> QED BY <2>1, <1>1, <1>3, <1>4, NetTypes DEF IInv
<1>6. StreamInv' /\ CallsInv'
  <2>1. Intact' => Intact
    BY <1>1, <1>3, SideFacts DEF Intact
  <2> QED BY <2>1, <1>1, <1>4, NetStep
<1>7. ResetInv'
  <2>1. \A t \in Side : sockerr'[t] => rst'[t] = "yes"
    BY <1>1, <1>3 DEF IInv, ConnInv, ResetInv
  <2>2. UnreportedReset' => UnreportedReset
    BY <1>1, <1>3, SideFacts DEF UnreportedReset
  <2> QED BY <2>1, <2>2, <1>1 DEF IInv, ConnInv, ResetInv, last, Executed
<1>8. ReadyInv' /\ NoReadAfterFailedWrite'
  BY <1>1 DEF IInv, ConnInv, ReadyInv, NoReadAfterFailedWrite, Works, Runs, Freed
<1>9. PollingInv'
  BY <1>1, <1>3 DEF IInv, ConnInv, PollingInv, Works, Runs, Freed
<1> QED BY <1>5, <1>6, <1>7, <1>8, <1>9 DEF IInv, ConnInv

-----------------------------------------------------------------------------
(* The receiver threads.                                                   *)

(***************************************************************************)
(* They go on, close the connection or the ring, or read what was freed    *)
(* and survive it.                                                         *)
(***************************************************************************)
SurvivesFreed(s) ==
  /\ ReadFreed(s) /\ recv[s] = "ready"
  /\ \E next \in {"top", "close"} : recv' = Put(recv, s, next)
  /\ UNCHANGED <<ring, ring_open, netVars, clientVars, serverVars, faultVars>>

LEMMA ReceiverGoesOn ==
  ASSUME IInv, NEW s \in Side,
         EnterPoll(s) \/ PollHup(s) \/ PollIn(s) \/ SleepOnFullRing(s)
           \/ ReadEof(s) \/ CloseRing(s) \/ SurvivesFreed(s)
  PROVE  IInv'
<1>1. /\ UNCHANGED <<clientVars, serverVars, faultVars, ring, wire, gone, rst, sockerr,
                     broken, netreset, cpc, calls, returned, smain, pool, executed>>
  BY DEF EnterPoll, PollHup, PollIn, SleepOnFullRing, ReadEof, CloseRing, SurvivesFreed,
         clientVars, serverVars, faultVars, netVars
<1>2. PICK a \in {"top", "polling", "ready", "close", "done"} : recv' = Put(recv, s, a)
  BY DEF EnterPoll, PollHup, PollIn, SleepOnFullRing, ReadEof, CloseRing, SurvivesFreed
<1>3. /\ recv \in [Side -> {"top", "polling", "ready", "close", "done"}]
      /\ ring_open \in [Side -> BOOLEAN] /\ fd \in [Side -> BOOLEAN]
      /\ AreQueues(wire)
  BY StateParts DEF IInv, TypeOK
<1>4. /\ recv' \in [Side -> {"top", "polling", "ready", "close", "done"}] /\ recv'[s] = a
      /\ \A t \in Side : t # s => recv'[t] = recv[t]
  BY <1>2, <1>3 DEF Put
<1>5. a = "ready" => PollIn(s)
  BY <1>4 DEF EnterPoll, PollHup, PollIn, SleepOnFullRing, ReadEof, CloseRing, SurvivesFreed, Put
<1>6. fd' = fd \/ (fd' = Put(fd, s, FALSE) /\ a = "close")
  BY <1>2, <1>3, <1>4
     DEF EnterPoll, PollHup, PollIn, SleepOnFullRing, ReadEof, CloseRing, SurvivesFreed, netVars, Put
<1>7. /\ ring_open' \in [Side -> BOOLEAN] /\ fd' \in [Side -> BOOLEAN]
      /\ \A t \in Side : fd'[t] => fd[t]
      /\ \A t \in Side : t # s \/ fd' = fd => fd'[t] = fd[t]
  <2>1. ring_open' \in [Side -> BOOLEAN]
    BY <1>3 DEF EnterPoll, PollHup, PollIn, SleepOnFullRing, ReadEof, CloseRing, SurvivesFreed, Put
  <2>2. CASE fd' = fd
    BY <2>1, <2>2, <1>3
  <2>3. CASE fd' = Put(fd, s, FALSE)
    BY <2>1, <2>3, <1>3 DEF Put
  <2> QED BY <1>6, <2>2, <2>3
<1>8. wire' = [t \in Side |-> wire'[t]] /\ \A t \in Side : CutOf(wire'[t], wire[t])
  BY <1>1, <1>3 DEF AreQueues, CutOf
<1>9. TypeOK' /\ Queues'
  <2>1. /\ gone' \in [Side -> BOOLEAN] /\ rst' \in [Side -> {"no", "owed", "yes"}]
        /\ sockerr' \in [Side -> BOOLEAN] /\ broken' \in BOOLEAN /\ netreset' \in BOOLEAN
    BY <1>1 DEF IInv, TypeOK
  <2> QED BY <2>1, <1>1, <1>4, <1>7, <1>8, NetTypes DEF IInv
<1>10. StreamInv' /\ CallsInv'
  <2>1. Intact' => Intact
    BY <1>1, <1>7, SideFacts DEF Intact
  <2> QED BY <2>1, <1>1, <1>8, NetStep
<1>11. ResetInv'
  <2>1. UnreportedReset' => UnreportedReset
    BY <1>1, <1>7, SideFacts DEF UnreportedReset
  <2> QED BY <2>1, <1>1 DEF IInv, ConnInv, ResetInv, last, Executed
<1>12. ReadyInv'
  <2>1. a = "ready" /\ wire[s] = <<>> => gone[Peer(s)] /\ ~sockerr[s]
    BY <1>5 DEF PollIn, IInv, ConnInv, ResetInv
  <2>2. ASSUME NEW t \in Side
        PROVE  ~gone'[t] /\ recv'[t] = "ready" /\ wire'[t] = <<>>
                 => gone'[Peer(t)] /\ ~sockerr'[t]
    <3>1. CASE t = s
      BY <3>1, <2>1, <1>1, <1>4
    <3>2. CASE t # s
      BY <3>2, <1>1, <1>4 DEF IInv, ConnInv, ReadyInv
    <3> QED BY <3>1, <3>2
  <2> QED BY <2>2 DEF ReadyInv
<1>13. NoReadAfterFailedWrite' /\ PollingInv'
  <2>1. a = "ready" => recv[s] = "polling" /\ rst[s] # "yes" /\ fd' = fd
    BY <1>5 DEF PollIn, netVars
  <2>2. a = "ready" /\ Works(s) => fd[s]
    BY <2>1 DEF IInv, ConnInv, PollingInv
  <2>3. a = "polling" => fd[s] /\ fd' = fd
    BY <1>4 DEF EnterPoll, PollHup, PollIn, SleepOnFullRing, ReadEof, CloseRing, SurvivesFreed, Put, netVars
  <2>4. ASSUME NEW t \in Side
        PROVE  /\ Works(t)' /\ recv'[t] = "ready" => fd'[t]
               /\ Works(t)' /\ recv'[t] = "polling" => fd'[t] \/ rst'[t] = "yes"
    <3>1. Works(t)' => Works(t)
      BY <1>1 DEF Works, Runs, Freed
    <3>2. CASE t = s
      BY <3>1, <3>2, <2>1, <2>2, <2>3, <1>4, <1>7
    <3>3. CASE t # s
      <4>1. fd'[t] = fd[t] /\ recv'[t] = recv[t] /\ rst' = rst
        BY <3>3, <1>1, <1>4, <1>7
      <4>2. /\ Works(t) /\ recv[t] = "ready" => fd[t]
            /\ Works(t) /\ recv[t] = "polling" => fd[t] \/ rst[t] = "yes"
        BY DEF IInv, ConnInv, NoReadAfterFailedWrite, PollingInv
      <4> QED BY <3>1, <4>1, <4>2
    <3> QED BY <3>2, <3>3
  <2> QED BY <2>4 DEF NoReadAfterFailedWrite, PollingInv
<1> QED BY <1>9, <1>10, <1>11, <1>12, <1>13 DEF IInv, ConnInv

-----------------------------------------------------------------------------
(* The application's thread, when it only goes on or stops.                *)

LEMMA CallerStops ==
  ASSUME IInv, AppExit \/ WaitHangup \/ TimeOut \/ Cleanup
  PROVE  IInv'
<1> USE DEF IInv, CallsInv, ConnInv
<1>1. /\ UNCHANGED <<calls, returned, smain, pool, executed, recv, ring, ring_open,
                     wire, gone, rst, sockerr, netreset>>
      /\ cpc \in {"idle", "wait", "exiting"} /\ cpc' \in {"exiting", "cleaned"}
      /\ fd' = fd \/ (fd' = Put(fd, "client", FALSE) /\ cpc' = "cleaned")
  BY DEF AppExit, WaitHangup, TimeOut, Cleanup, serverVars, recvVars, netVars, faultVars
<1>2. broken' \in BOOLEAN
  <2>1. broken \in BOOLEAN
    BY DEF TypeOK
  <2>2. CASE AppExit \/ WaitHangup \/ Cleanup
    BY <2>1, <2>2 DEF AppExit, WaitHangup, Cleanup, faultVars
  <2>3. CASE TimeOut
    BY <2>1, <2>3 DEF TimeOut
  <2> QED BY <2>2, <2>3
<1>3. fd' \in [Side -> BOOLEAN] /\ fd'["server"] = fd["server"]
      /\ (fd'["client"] = fd["client"] \/ (cpc' = "cleaned" /\ ~fd'["client"]))
  <2>1. fd \in [Side -> BOOLEAN]
    BY DEF TypeOK
  <2> QED BY <1>1, <2>1, SideFacts DEF Put
<1>4. TypeOK' /\ Queues'
  BY <1>1, <1>2, <1>3 DEF TypeOK, Queues
<1>5. UNCHANGED <<last, kind, Executed, RepliesNum, ServerPosition, ClientPosition>>
  BY <1>1 DEF last, kind, Executed, RepliesNum, ServerPosition, ClientPosition
<1>6. StreamInv'
  <2>1. Intact' \in BOOLEAN /\ Intact \in BOOLEAN /\ (Intact' => Intact)
    BY <1>1, <1>3 DEF Intact
  <2> QED BY <2>1, <1>1, <1>5 DEF StreamInv, Stream
<1>7. CallsInv'
  <2>1. Asked'
    BY <1>1 DEF Asked
  <2>2. PoolInv' /\ ReplyingInv' /\ RepliesInv'
    BY <2>1, <1>1, <1>5 DEF PoolInv, ReplyingInv, RepliesInv
  <2>3. QueryInv' /\ CallerInv'
    BY <1>1, <1>5 DEF QueryInv, CallerInv
  <2> QED BY <2>2, <2>3
<1>8. ConnInv'
  <2>1. UnreportedReset' => UnreportedReset
    BY <1>1, <1>3 DEF UnreportedReset
  <2>2. ResetInv'
    BY <2>1, <1>1, <1>5 DEF ResetInv
  <2>3. ReadyInv'
    BY <1>1 DEF ReadyInv
  <2>4. Works("client")' => Works("client") /\ fd'["client"] = fd["client"]
    BY <1>1, <1>3 DEF Works, Runs, Freed
  <2>5. Works("server")' => Works("server")
    BY <1>1 DEF Works, Runs, Freed
  <2>6. \A s \in Side : Works(s)' => Works(s) /\ fd'[s] = fd[s]
    BY <2>4, <2>5, <1>3, SideFacts
  <2>7. PollingInv' /\ NoReadAfterFailedWrite'
    BY <2>6, <1>1 DEF PollingInv, NoReadAfterFailedWrite
  <2> QED BY <2>2, <2>3, <2>7
<1> QED BY <1>4, <1>6, <1>7, <1>8

LEMMA CallsExtended ==
  ASSUME TypeOK, Queues, NEW k \in CallKinds
  PROVE  /\ Append(calls, k) \in Seq(CallKinds) /\ Len(Append(calls, k)) = last + 1
         /\ last \in Nat
         /\ \A i \in 1 .. last : Append(calls, k)[i] = calls[i]
         /\ Append(calls, k)[last + 1] = k
BY AppendProperties, StateParts DEF last

LEMMA StartCallKeeps ==
  ASSUME IInv, NEW k \in CallKinds, StartCall(k)
  PROVE  IInv'
<1> USE DEF IInv, CallsInv, ConnInv
<1>1. /\ UNCHANGED <<returned, smain, pool, executed, recv, ring, ring_open,
                     wire, gone, fd, rst, sockerr, broken, netreset>>
      /\ ~gone["client"] /\ cpc = "idle" /\ last < MaxCalls
      /\ calls' = Append(calls, k)
      /\ cpc' = IF k = "data" THEN "data" ELSE "send"
  BY DEF StartCall, serverVars, recvVars, netVars, faultVars
<1>2. /\ calls' \in Seq(CallKinds) /\ last' = last + 1 /\ last \in Nat
      /\ \A i \in 1 .. last : calls'[i] = calls[i]
      /\ calls'[last + 1] = k /\ kind' = k
  BY <1>1, CallsExtended DEF last, kind
<1>3. MaxCalls \in Nat /\ last' \in 1 .. MaxCalls
  BY <1>1, <1>2, SessionAssumption
<1>4. TypeOK' /\ Queues'
  <2>1. calls' \in Seq(CallKinds) /\ Len(calls') <= MaxCalls
    BY <1>2, <1>3 DEF last
  <2>2. cpc' \in {"idle", "data", "send", "wait", "exiting", "cleaned"}
    BY <1>1
  <2> QED BY <2>1, <2>2, <1>1 DEF TypeOK, Queues
<1>5. UNCHANGED <<Executed, RepliesNum, ServerPosition, Intact>>
  BY <1>1 DEF Executed, RepliesNum, ServerPosition, Intact
<1>6. ClientPosition' = ClientPosition
  <2>1. cpc' \in {"data", "send"} /\ last' - 1 = last
    BY <1>1, <1>2
  <2>2. ~(cpc' = "send" /\ kind' = "data") /\ ~(cpc = "send" /\ kind = "data")
    BY <1>1, <1>2
  <2>3. ClientPosition = [n |-> last, half |-> FALSE]
    BY <2>2, <1>1 DEF ClientPosition
  <2>4. ClientPosition' = [n |-> last, half |-> FALSE]
    BY <2>1, <2>2 DEF ClientPosition
  <2> QED BY <2>3, <2>4
<1>7. StreamInv'
  <2>1. calls \in Seq(CallKinds) /\ Intact \in BOOLEAN
    BY StateParts DEF Intact
  <2>2. Stream(ring["server"], wire["server"], Append(calls, k), ServerPosition,
               ClientPosition, smain = "reply", Intact)
    BY <2>1, StreamExtended DEF StreamInv
  <2> QED BY <2>2, <1>1, <1>5, <1>6 DEF StreamInv
<1>8. RepliesNum = 0 /\ smain # "reply" /\ \A i \in 1 .. last : calls[i] = "query" => i <= Executed
  BY <1>1 DEF RepliesInv, ReplyingInv, Asked, QueryInv
<1>9. CallsInv'
  <2>1. ReplyingInv' /\ RepliesInv'
    BY <1>1, <1>5, <1>8 DEF ReplyingInv, RepliesInv
  <2>2. PoolInv'
    <3>1. pool # 0 => pool \in 1 .. last' /\ calls'[pool] = calls[pool]
      BY <1>2 DEF PoolInv
    <3> QED BY <3>1, <1>1, <1>5 DEF PoolInv
  <2>3. QueryInv'
    <3>1. ASSUME NEW i \in 1 .. last', calls'[i] = "query"
          PROVE  i <= Executed \/ (i = last' /\ cpc' \notin {"idle", "data"})
      <4>1. CASE i \in 1 .. last
        BY <4>1, <3>1, <1>2, <1>8
      <4>2. CASE i = last + 1
        BY <4>2, <3>1, <1>1, <1>2
      <4> QED BY <4>1, <4>2, <1>2
    <3> QED BY <3>1, <1>5 DEF QueryInv
  <2>4. CallerInv'
    BY <1>1, <1>2, <1>3 DEF CallerInv
  <2> QED BY <2>1, <2>2, <2>3, <2>4
<1>10. ConnInv'
  <2>1. ~UnreportedReset'
    <3>1. UnreportedReset' => UnreportedReset
      BY <1>1 DEF UnreportedReset
    <3> QED BY <3>1, <1>1 DEF ResetInv
  <2>2. ResetInv' /\ ReadyInv'
    BY <2>1, <1>1 DEF ResetInv, ReadyInv
  <2>3. \A s \in Side : Works(s)' => Works(s)
    BY <1>1 DEF Works, Runs, Freed
  <2>4. PollingInv' /\ NoReadAfterFailedWrite'
    BY <2>3, <1>1 DEF PollingInv, NoReadAfterFailedWrite
  <2> QED BY <2>2, <2>4
<1> QED BY <1>4, <1>7, <1>9, <1>10

LEMMA ServerHangupKeeps ==
  ASSUME IInv, ServerHangup
  PROVE  IInv'
<1> USE DEF IInv, CallsInv, ConnInv
<1>1. /\ UNCHANGED <<cpc, calls, returned, pool, executed, recv, ring, ring_open,
                     wire, gone, fd, rst, sockerr, broken, netreset>>
      /\ smain = "loop" /\ smain' = "join"
  BY DEF ServerHangup, clientVars, recvVars, netVars, faultVars
<1>2. TypeOK' /\ Queues'
  BY <1>1 DEF TypeOK, Queues
<1>3. UNCHANGED <<last, kind, Executed, RepliesNum, ServerPosition, ClientPosition, Intact, Asked>>
  BY <1>1 DEF last, kind, Executed, RepliesNum, ServerPosition, ClientPosition, Intact, Asked
<1>4. StreamInv'
  BY <1>1, <1>3 DEF StreamInv
<1>5. PoolInv' /\ ReplyingInv' /\ RepliesInv' /\ QueryInv' /\ CallerInv'
  BY <1>1, <1>3 DEF PoolInv, ReplyingInv, RepliesInv, QueryInv, CallerInv
<1>6. ConnInv'
  BY <1>1, <1>3 DEF ResetInv, UnreportedReset, ReadyInv, PollingInv, NoReadAfterFailedWrite, Works, Runs, Freed
<1> QED BY <1>2, <1>4, <1>5, <1>6

-----------------------------------------------------------------------------
(* A receiver thread reads a packet.                                       *)

LEMMA ReadTypes ==
  ASSUME TypeOK, Queues, NEW s \in Side, ReadPacket(s)
  PROVE  /\ AreQueues(ring') /\ AreQueues(wire')
         /\ ring'[s] = Append(ring[s], Head(wire[s])) /\ wire'[s] = Tail(wire[s])
         /\ \A t \in Side : t # s => ring'[t] = ring[t] /\ wire'[t] = wire[t]
         /\ Len(ring'[s]) = Len(ring[s]) + 1 /\ Len(wire'[s]) = Len(wire[s]) - 1
<1> DEFINE q == Append(ring[s], Head(wire[s]))
           v == Tail(wire[s])
<1>1. AreQueues(ring) /\ AreQueues(wire)
  BY StateParts
<1>2. ring[s] \in Seq(PacketTo(s)) /\ wire[s] \in Seq(PacketTo(s)) /\ wire[s] # <<>>
  BY <1>1, AreQueuesParts DEF ReadPacket
<1>3. Head(wire[s]) \in PacketTo(s) /\ v \in Seq(PacketTo(s)) /\ Len(v) = Len(wire[s]) - 1
  BY <1>2, HeadTailProperties
<1>4. q \in Seq(PacketTo(s)) /\ Len(q) = Len(ring[s]) + 1
  BY <1>2, <1>3, AppendProperties
<1>5. ring' = Put(ring, s, q) /\ wire' = Put(wire, s, v)
  BY DEF ReadPacket
<1> HIDE DEF q, v
<1> DEFINE f == Put(ring, s, q)
           g == Put(wire, s, v)
<1>6. AreQueues(f) /\ f[s] = q /\ \A t \in Side : t # s => f[t] = ring[t]
  BY <1>1, <1>4, AreQueuesPut
<1>7. AreQueues(g) /\ g[s] = v /\ \A t \in Side : t # s => g[t] = wire[t]
  BY <1>1, <1>3, AreQueuesPut
<1>8. ring' = f /\ wire' = g
  BY <1>5
<1> HIDE DEF f, g
<1>9. /\ AreQueues(ring') /\ AreQueues(wire')
      /\ ring'[s] = q /\ wire'[s] = v
      /\ \A t \in Side : t # s => ring'[t] = ring[t] /\ wire'[t] = wire[t]
  BY <1>6, <1>7, <1>8
<1> QED BY <1>3, <1>4, <1>9 DEF q, v

LEMMA ReadPacketKeeps ==
  ASSUME IInv, NEW s \in Side, ReadPacket(s)
  PROVE  IInv'
<1> USE DEF IInv, CallsInv, ConnInv
<1> DEFINE q == ring'[s]
           v == wire'[s]
           r == ring[s]
           w == wire[s]
<1>1. /\ UNCHANGED <<cpc, calls, returned, smain, pool, executed, ring_open,
                     gone, fd, rst, sockerr, broken, netreset>>
      /\ recv' = Put(recv, s, "top") /\ ~RingIsFull(s) /\ w # <<>>
  BY DEF ReadPacket, clientVars, serverVars, faultVars
<1>2. AreQueues(ring) /\ AreQueues(wire)
  BY StateParts
<1>3. /\ AreQueues(ring') /\ AreQueues(wire')
      /\ q = Append(r, Head(w)) /\ v = Tail(w)
      /\ \A t \in Side : t # s => ring'[t] = ring[t] /\ wire'[t] = wire[t]
      /\ Len(q) = Len(r) + 1 /\ Len(v) = Len(w) - 1
  BY ReadTypes
<1>4. /\ recv' \in [Side -> {"top", "polling", "ready", "close", "done"}] /\ recv'[s] = "top"
      /\ \A t \in Side : t # s => recv'[t] = recv[t]
  <2>1. recv \in [Side -> {"top", "polling", "ready", "close", "done"}]
    BY DEF TypeOK
  <2> QED BY <2>1, <1>1 DEF Put
<1>5. r \in Seq(PacketTo(s)) /\ w \in Seq(PacketTo(s)) /\ Len(r) \in Nat /\ Len(w) \in Nat
  BY <1>2, AreQueuesParts
<1>6. /\ Num(q, v) = Num(r, w)
      /\ \A k \in 1 .. Num(r, w) : Item(q, v, k) = Item(r, w, k)
  BY <1>1, <1>3, <1>5, ItemMoved
<1>7. TypeOK' /\ Queues'
  <2>1. /\ RingRoom[s] \in Nat /\ Len(r) <= RingRoom[s] /\ Len(r) # RingRoom[s]
        /\ SockSize \in Nat /\ Len(w) <= SockSize
    BY <1>1, SessionAssumption DEF TypeOK, RingIsFull
  <2>2. Len(q) <= RingRoom[s] /\ Len(v) <= SockSize
    BY <2>1, <1>3, <1>5
  <2>3. \A t \in Side : /\ ring'[t] \in Seq(PacketTo(t)) /\ Len(ring'[t]) <= RingRoom[t]
                        /\ wire'[t] \in Seq(PacketTo(t)) /\ Len(wire'[t]) <= SockSize
    <3> SUFFICES ASSUME NEW t \in Side
                 PROVE  /\ ring'[t] \in Seq(PacketTo(t)) /\ Len(ring'[t]) <= RingRoom[t]
                        /\ wire'[t] \in Seq(PacketTo(t)) /\ Len(wire'[t]) <= SockSize
      OBVIOUS
    <3>1. ring'[t] \in Seq(PacketTo(t)) /\ wire'[t] \in Seq(PacketTo(t))
      BY <1>3 DEF AreQueues
    <3>2. CASE t = s
      BY <2>2, <3>1, <3>2
    <3>3. CASE t # s
      BY <1>3, <3>1, <3>3 DEF TypeOK
    <3> QED BY <3>2, <3>3
  <2>4. TypeOK'
    BY <2>3, <1>1, <1>4 DEF TypeOK
  <2>5. Queues'
    BY <1>3 DEF AreQueues, Queues
  <2> QED BY <2>4, <2>5
<1>8. UNCHANGED <<last, kind, Executed, ServerPosition, ClientPosition, Intact, Asked>>
  BY <1>1 DEF last, kind, Executed, ServerPosition, ClientPosition, Intact, Asked
<1> HIDE DEF q, v, r, w
<1>9. StreamInv'
  <2>1. CASE s = "server"
    <3>1. Stream(r, w, calls, ServerPosition, ClientPosition, smain = "reply", Intact)
      BY <2>1 DEF StreamInv, r, w
    <3>2. Num(r, w) \in Nat /\ Intact \in BOOLEAN
      BY <1>5 DEF Num, Intact
    <3>3. Stream(q, v, calls, ServerPosition, ClientPosition, smain = "reply", Intact)
      BY <3>1, <3>2, <1>6, StreamMoved
    <3> QED BY <2>1, <3>3, <1>1, <1>8 DEF StreamInv, q, v
  <2>2. CASE s # "server"
    <3>1. ring'["server"] = ring["server"] /\ wire'["server"] = wire["server"]
      BY <2>2, <1>3, SideFacts
    <3> QED BY <3>1, <1>1, <1>8 DEF StreamInv
  <2> QED BY <2>1, <2>2
<1>10. /\ RepliesNum' = RepliesNum
       /\ RepliesNum = 1 => Item(ring["client"], wire["client"], 1)'
                              = Item(ring["client"], wire["client"], 1)
  <2>1. CASE s = "client"
    BY <2>1, <1>6 DEF RepliesNum, q, v, r, w
  <2>2. CASE s # "client"
    BY <2>2, <1>3, SideFacts DEF RepliesNum, Item
  <2> QED BY <2>1, <2>2
<1>11. ReplyingInv'
  <2>1. smain = "reply" => ring'["server"] # <<>> /\ Head(ring'["server"]) = Head(ring["server"])
    <3>1. CASE s = "server"
      <4> SUFFICES ASSUME smain = "reply"
                   PROVE  q # <<>> /\ Head(q) = Head(r)
        BY <3>1 DEF q, r
      <4>1. r # <<>>
        BY <3>1 DEF ReplyingInv, r
      <4>2. Head(w) \in PacketTo(s)
        BY <1>1, <1>5, HeadTailProperties
      <4>3. q \in Seq(PacketTo(s)) /\ q # <<>> /\ q[1] = r[1]
        <5>1. Len(r) # 0
          BY <4>1, <1>5, EmptySeq
        <5>2. 1 \in 1 .. Len(r)
          BY <5>1, <1>5
        <5> QED BY <5>2, <4>2, <1>3, <1>5, AppendProperties
      <4> QED BY <4>1, <4>3, <1>5, HeadTailProperties
    <3>2. CASE s # "server"
      BY <3>2, <1>3, SideFacts DEF ReplyingInv
    <3> QED BY <3>1, <3>2
  <2> QED BY <2>1, <1>1, <1>8, <1>10 DEF ReplyingInv
<1>12. PoolInv' /\ RepliesInv' /\ QueryInv' /\ CallerInv'
  <2>1. PoolInv' /\ QueryInv' /\ CallerInv'
    BY <1>1, <1>8 DEF PoolInv, QueryInv, CallerInv
  <2>2. RepliesInv'
    BY <1>1, <1>8, <1>10 DEF RepliesInv
  <2> QED BY <2>1, <2>2
<1>13. ConnInv'
  <2>1. ResetInv'
    BY <1>1, <1>8 DEF ResetInv, UnreportedReset
  <2>2. ReadyInv' /\ PollingInv' /\ NoReadAfterFailedWrite'
    <3>1. \A t \in Side : recv'[t] \in {"ready", "polling"}
            => recv'[t] = recv[t] /\ wire'[t] = wire[t]
      BY <1>3, <1>4
    <3> QED BY <3>1, <1>1 DEF ReadyInv, PollingInv, NoReadAfterFailedWrite, Works, Runs, Freed
  <2> QED BY <2>1, <2>2
<1> QED BY <1>7, <1>9, <1>11, <1>12, <1>13

-----------------------------------------------------------------------------
(* A write.                                                                *)

(***************************************************************************)
(* What it does to the connection, whether it is accepted or fails.        *)
(***************************************************************************)
LEMMA WriteEffect ==
  ASSUME IInv, NEW s \in Side, NEW x \in PacketTo(Peer(s)),
         Transmit(s, x) \/ CloseAfterFailure(s)
  PROVE  /\ AreQueues(wire') /\ \A t \in Side : Len(wire'[t]) <= SockSize
         /\ wire'[s] = wire[s]
         /\ \/ wire'[Peer(s)] = wire[Peer(s)]
            \/ /\ wire'[Peer(s)] = Append(wire[Peer(s)], x) /\ wire'[Peer(s)] # <<>>
               /\ ~gone[Peer(s)] /\ fd[s] /\ rst[s] # "yes"
         /\ fd' \in [Side -> BOOLEAN] /\ rst' \in [Side -> {"no", "owed", "yes"}]
         /\ sockerr' \in [Side -> BOOLEAN] /\ gone' = gone
         /\ fd'[Peer(s)] = fd[Peer(s)] /\ rst'[Peer(s)] = rst[Peer(s)]
         /\ sockerr'[Peer(s)] = sockerr[Peer(s)]
         /\ \/ /\ fd[s] /\ fd'[s] /\ rst[s] # "yes" /\ rst'[s] # "yes"
               /\ sockerr'[s] = sockerr[s]
               /\ IF gone[Peer(s)] THEN wire'[Peer(s)] = wire[Peer(s)]
                  ELSE /\ wire'[Peer(s)] = Append(wire[Peer(s)], x)
                       /\ rst'[s] = rst[s]
            \/ /\ ~fd'[s] /\ ~sockerr'[s] /\ rst'[s] = rst[s]
               /\ fd[s] => rst[s] = "yes" /\ sockerr[s]
               /\ wire'[Peer(s)] = wire[Peer(s)]
<1> DEFINE p == Peer(s)
           w == wire[p]
           y == Append(w, x)
<1>1. p \in Side /\ p # s
  BY SideFacts
<1>2. AreQueues(wire) /\ w \in Seq(PacketTo(p)) /\ Len(w) \in Nat
  <2>1. AreQueues(wire)
    BY StateParts DEF IInv
  <2> QED BY <2>1, <1>1, AreQueuesParts
<1>3. y \in Seq(PacketTo(p)) /\ Len(y) = Len(w) + 1
  BY <1>2, AppendProperties
<1>4. y # <<>>
  BY <1>2, <1>3, EmptySeq
<1> DEFINE f == Put(wire, p, y)
<1>5. AreQueues(f) /\ f[p] = y /\ f[s] = wire[s]
  <2> HIDE DEF y, p, w
  <2> QED BY <1>1, <1>2, <1>3, AreQueuesPut
<1>6. SockSize \in Nat /\ \A t \in Side : Len(wire[t]) <= SockSize
  BY SessionAssumption DEF IInv, TypeOK
<1>7. /\ fd \in [Side -> BOOLEAN] /\ rst \in [Side -> {"no", "owed", "yes"}]
      /\ sockerr \in [Side -> BOOLEAN]
  BY DEF IInv, TypeOK
<1> HIDE DEF p, w, y
<1>8. CASE Transmit(s, x) /\ ~gone[p]
  <2>1. /\ fd[s] /\ rst[s] # "yes" /\ Len(w) < SockSize
        /\ wire' = f /\ rst' = rst
        /\ UNCHANGED <<fd, gone, sockerr>>
    BY <1>8 DEF Transmit, WriteAccepted, p, w, y
  <2> HIDE DEF f
  <2>2. AreQueues(wire') /\ wire'[s] = wire[s] /\ wire'[p] = y
    BY <2>1, <1>5
  <2>3. \A t \in Side : t = s \/ t = p
    BY SideFacts DEF p
  <2>4. \A t \in Side : Len(wire'[t]) <= SockSize
    BY <2>1, <2>2, <2>3, <1>2, <1>3, <1>6
  <2> QED BY <2>1, <2>2, <2>4, <1>1, <1>4, <1>7, <1>8 DEF p, w, y
<1>9. CASE Transmit(s, x) /\ gone[p]
  <2>1. /\ fd[s] /\ rst[s] # "yes"
        /\ wire' = wire /\ rst' = Put(rst, s, "owed")
        /\ UNCHANGED <<fd, gone, sockerr>>
    BY <1>9 DEF Transmit, WriteAccepted, p
  <2>2. /\ rst' \in [Side -> {"no", "owed", "yes"}] /\ rst'[s] = "owed" /\ rst'[p] = rst[p]
    BY <2>1, <1>1, <1>7 DEF Put
  <2> QED BY <2>1, <2>2, <1>2, <1>6, <1>7, <1>9 DEF p
<1>10. CASE CloseAfterFailure(s)
  <2>1. /\ ~fd[s] \/ (rst[s] = "yes" /\ sockerr[s])
        /\ fd' = Put(fd, s, FALSE) /\ sockerr' = Put(sockerr, s, FALSE)
        /\ UNCHANGED <<wire, gone, rst>>
    BY <1>10 DEF CloseAfterFailure, WriteFails
  <2>2. /\ fd' \in [Side -> BOOLEAN] /\ ~fd'[s] /\ fd'[p] = fd[p]
        /\ sockerr' \in [Side -> BOOLEAN] /\ ~sockerr'[s] /\ sockerr'[p] = sockerr[p]
    BY <2>1, <1>1, <1>7 DEF Put
  <2> QED BY <2>1, <2>2, <1>2, <1>6, <1>7 DEF p
<1> QED BY <1>8, <1>9, <1>10

-----------------------------------------------------------------------------
(* The client sends a packet.                                              *)

LEMMA ClientWrites ==
  ASSUME IInv, NEW x \in ServerPacket, ~gone["client"], cpc \in {"data", "send"},
         Transmit("client", x) \/ CloseAfterFailure("client"),
         cpc' \in {"send", "wait", "idle", "exiting"},
         UNCHANGED <<calls, returned, serverVars, recvVars, faultVars>>,
         Extends(calls, ClientPosition, x),
         NotAfter(ClientPosition, ClientPosition'), ClientPosition' = PositionAfter(x)
  PROVE  /\ TypeOK' /\ Queues' /\ StreamInv' /\ ConnInv'
         /\ PoolInv' /\ ReplyingInv' /\ RepliesInv'
<1> USE DEF IInv, CallsInv, ConnInv
<1> DEFINE R == ring["server"]
           W == wire["server"]
           V == wire'["server"]
<1>1. /\ UNCHANGED <<calls, returned, smain, pool, executed, recv, ring, ring_open, broken,
                     netreset, last, kind, Executed, ServerPosition>>
  BY DEF serverVars, recvVars, faultVars, last, kind, Executed, ServerPosition
<1>2. x \in PacketTo(Peer("client")) /\ x \in Packets
  <2>1. ServerPacket \subseteq Packets
    BY SessionAssumption DEF ServerPacket, Packets, CallNumber
  <2> QED BY <2>1, SideFacts
<1>3. /\ AreQueues(wire') /\ \A t \in Side : Len(wire'[t]) <= SockSize
      /\ wire'["client"] = wire["client"]
      /\ V = W \/ (V = Append(W, x) /\ V # <<>> /\ ~gone["server"] /\ fd["client"]
                    /\ rst["client"] # "yes")
      /\ fd' \in [Side -> BOOLEAN] /\ rst' \in [Side -> {"no", "owed", "yes"}]
      /\ sockerr' \in [Side -> BOOLEAN] /\ gone' = gone
      /\ fd'["server"] = fd["server"] /\ rst'["server"] = rst["server"]
      /\ sockerr'["server"] = sockerr["server"]
  BY <1>2, WriteEffect, SideFacts
<1>4. \/ /\ fd["client"] /\ fd'["client"] /\ rst["client"] # "yes" /\ rst'["client"] # "yes"
         /\ sockerr'["client"] = sockerr["client"]
         /\ IF gone["server"] THEN V = W
            ELSE V = Append(W, x) /\ rst'["client"] = rst["client"]
      \/ /\ ~fd'["client"] /\ ~sockerr'["client"] /\ rst'["client"] = rst["client"]
         /\ fd["client"] => rst["client"] = "yes" /\ sockerr["client"]
         /\ V = W
  BY <1>2, WriteEffect, SideFacts
<1> HIDE DEF R, W, V
<1>5. TypeOK'
  BY <1>1, <1>3 DEF TypeOK, AreQueues
<1>6. Queues'
  BY <1>1, <1>3 DEF Queues, AreQueues
<1>7. AreQueues(ring) /\ AreQueues(wire) /\ R \in Seq(Packets) /\ W \in Seq(Packets)
  BY StateParts, AreQueuesParts DEF R, W
<1>8. /\ ServerPosition \in Position /\ ClientPosition \in Position
      /\ ClientPosition' \in Position
  <2>1. CallerInv
    OBVIOUS
  <2>2. ServerPosition \in Position /\ ClientPosition \in Position
    BY <2>1, Positions
  <2>3. x.n \in Nat /\ x.n - 1 \in Nat /\ x.data \in BOOLEAN
    BY <1>2, <2>2 DEF Extends, Position, Packets
  <2>4. PositionAfter(x) \in Position
    BY <2>3 DEF PositionAfter, Position
  <2> QED BY <2>2, <2>4
<1> DEFINE c == ClientPosition
           d == PositionAfter(x)
           s == ServerPosition
<1>9. c \in Position /\ d \in Position /\ s \in Position /\ Extends(calls, c, x) /\ NotAfter(c, d)
      /\ ClientPosition' = d
  BY <1>8
<1>10. Stream(R, W, calls, s, c, smain = "reply", Intact)
  BY DEF StreamInv, R, W
<1> HIDE DEF c, s
<1>11. Stream(R, V, calls, s, d, smain = "reply", Intact')
  <2>1. CASE V = Append(W, x) /\ ~gone["server"] /\ fd["client"] /\ rst["client"] # "yes"
    <3>1. Intact
      BY <2>1 DEF Intact
    <3>2. Stream(R, W, calls, s, c, smain = "reply", TRUE)
      BY <3>1, <1>10 DEF Stream
    <3>3. Stream(R, Append(W, x), calls, s, d, smain = "reply", TRUE)
      BY <3>2, <1>2, <1>7, <1>9, StreamSent
    <3> QED BY <3>3, <2>1 DEF Stream
  <2>2. CASE V = W /\ (gone["server"] \/ ~fd'["client"])
    <3>1. ~Intact'
      BY <2>2, <1>3 DEF Intact
    <3>2. Intact \in BOOLEAN
      BY DEF Intact
    <3> HIDE DEF d
    <3>3. Stream(R, W, calls, s, d, smain = "reply", FALSE)
      BY <3>2, <1>7, <1>9, <1>10, StreamLeft
    <3> QED BY <3>1, <3>3, <2>2 DEF Stream
  <2> QED BY <2>1, <2>2, <1>3, <1>4
<1>12. StreamInv'
  BY <1>1, <1>9, <1>11 DEF StreamInv, R, V, s
<1>13. RepliesNum = 0 /\ RepliesNum' = 0 /\ smain # "reply"
  <2>1. RepliesNum = 0 /\ smain # "reply"
    BY DEF RepliesInv, ReplyingInv, Asked
  <2> QED BY <2>1, <1>1, <1>3 DEF RepliesNum
<1>14. PoolInv' /\ ReplyingInv' /\ RepliesInv'
  BY <1>1, <1>13 DEF PoolInv, ReplyingInv, RepliesInv
<1>15. ResetInv'
  <2>1. \A t \in Side : sockerr'[t] => rst'[t] = "yes"
    BY <1>3, <1>4, SideFacts DEF ResetInv
  <2>2. UnreportedReset' => UnreportedReset
    BY <1>3 DEF UnreportedReset
  <2> QED BY <2>1, <2>2, <1>1, <1>3 DEF ResetInv
<1>16. ReadyInv'
  <2>1. V = <<>> => W = <<>>
    BY <1>3
  <2>2. sockerr'["client"] => sockerr["client"]
    BY <1>4
  <2>3. \A t \in Side : /\ wire'[t] = <<>> => wire[t] = <<>>
                        /\ sockerr'[t] => sockerr[t]
    BY <2>1, <2>2, <1>3, SideFacts DEF V, W
  <2> QED BY <2>3, <1>1, <1>3 DEF ReadyInv
<1>17. PollingInv' /\ NoReadAfterFailedWrite'
  <2>1. \A t \in Side : Works(t)' <=> Works(t)
    BY <1>3, SideFacts DEF Works, Runs, Freed
  <2>2. wire["client"] = <<>>
    <3>1. ring["client"] \in Seq(CallNumber) /\ wire["client"] \in Seq(CallNumber)
      BY <1>7, AreQueuesParts
    <3>2. Num(ring["client"], wire["client"]) = 0
      BY <1>13 DEF RepliesNum
    <3> QED BY <3>1, <3>2, NumParts
  <2>3. recv["client"] = "ready" => ~sockerr["client"]
    BY <2>2, SideFacts DEF ReadyInv
  <2>4. /\ Works("client") /\ recv["client"] = "ready" => fd'["client"]
        /\ Works("client") /\ recv["client"] = "polling"
             => fd'["client"] \/ rst'["client"] = "yes"
    BY <2>3, <1>4, SideFacts DEF PollingInv, NoReadAfterFailedWrite
  <2>5. /\ Works("server") /\ recv["server"] = "ready" => fd'["server"]
        /\ Works("server") /\ recv["server"] = "polling"
             => fd'["server"] \/ rst'["server"] = "yes"
    BY <1>3, SideFacts DEF PollingInv, NoReadAfterFailedWrite
  <2> QED BY <2>1, <2>4, <2>5, <1>1 DEF PollingInv, NoReadAfterFailedWrite, Side
<1> QED BY <1>5, <1>6, <1>12, <1>14, <1>15, <1>16, <1>17

LEMMA SendDataKeeps ==
  ASSUME IInv, SendData
  PROVE  IInv'
<1> USE DEF IInv, CallsInv
<1> DEFINE x == [data |-> TRUE, n |-> last]
<1>1. /\ ~gone["client"] /\ cpc = "data" /\ cpc' = "send"
      /\ Transmit("client", x) \/ CloseAfterFailure("client")
      /\ UNCHANGED <<calls, returned, serverVars, recvVars, faultVars>>
      /\ UNCHANGED <<calls, last, kind, executed>>
  BY DEF SendData, last, kind, serverVars
<1>2. last \in 1 .. MaxCalls /\ last \in Nat /\ last - 1 \in Nat /\ kind = "data"
  <2>1. CallerInv
    OBVIOUS
  <2> QED BY <1>1, <2>1, Positions, StateParts DEF CallerInv
<1>3. x \in ServerPacket /\ x.n = last /\ x.data = TRUE
  BY <1>2 DEF ServerPacket, CallNumber
<1>4. /\ ClientPosition = [n |-> last - 1, half |-> FALSE]
      /\ ClientPosition' = [n |-> last - 1, half |-> TRUE]
  BY <1>1, <1>2 DEF ClientPosition
<1>5. PositionAfter(x) = [n |-> last - 1, half |-> TRUE]
  BY <1>3 DEF PositionAfter
<1>6. Extends(calls, ClientPosition, x)
  <2>1. ClientPosition.n = last - 1 /\ ClientPosition.half = FALSE /\ calls[last] = "data"
    BY <1>4, <1>2 DEF kind
  <2> HIDE DEF x
  <2>2. x.n = ClientPosition.n + 1 /\ x.n \in 1 .. Len(calls)
    BY <2>1, <1>2, <1>3 DEF last
  <2> QED BY <2>1, <2>2, <1>3 DEF Extends
<1>7. NotAfter(ClientPosition, ClientPosition')
  BY <1>4 DEF NotAfter
<1> HIDE DEF x
<1>8. /\ TypeOK' /\ Queues' /\ StreamInv' /\ ConnInv'
      /\ PoolInv' /\ ReplyingInv' /\ RepliesInv'
  <2>1. cpc \in {"data", "send"} /\ cpc' \in {"send", "wait", "idle", "exiting"}
        /\ ClientPosition' = PositionAfter(x)
    BY <1>1, <1>4, <1>5
  <2> QED BY <2>1, <1>1, <1>3, <1>6, <1>7, ClientWrites
<1>9. QueryInv' /\ CallerInv'
  <2>1. Executed' = Executed
    BY <1>1 DEF Executed
  <2> QED BY <2>1, <1>1, <1>2 DEF QueryInv, CallerInv
<1> QED BY <1>8, <1>9

LEMMA SendCallKeeps ==
  ASSUME IInv, SendCall
  PROVE  IInv'
<1> USE DEF IInv, CallsInv
<1> DEFINE x == [data |-> FALSE, n |-> last]
<1>1. /\ ~gone["client"] /\ cpc = "send"
      /\ cpc' \in {"exiting", IF kind = "query" THEN "wait" ELSE "idle"}
      /\ Transmit("client", x) \/ CloseAfterFailure("client")
      /\ UNCHANGED <<calls, returned, serverVars, recvVars, faultVars>>
      /\ UNCHANGED <<calls, last, kind, executed>>
  BY DEF SendCall, AfterSend, last, kind, serverVars
<1>2. last \in 1 .. MaxCalls /\ last \in Nat /\ last - 1 \in Nat
  <2>1. CallerInv
    OBVIOUS
  <2> QED BY <1>1, <2>1, Positions, StateParts
<1>3. x \in ServerPacket /\ x.n = last /\ x.data = FALSE
  BY <1>2 DEF ServerPacket, CallNumber
<1>4. /\ ClientPosition = [n |-> last - 1, half |-> (kind = "data")]
      /\ ClientPosition' = [n |-> last, half |-> FALSE]
  <2>1. cpc' \notin {"data", "send"}
    BY <1>1
  <2>2. ClientPosition' = [n |-> last, half |-> FALSE]
    BY <2>1, <1>1 DEF ClientPosition
  <2>3. ClientPosition = [n |-> last - 1, half |-> (kind = "data")]
    BY <1>1 DEF ClientPosition
  <2> QED BY <2>2, <2>3
<1>5. PositionAfter(x) = [n |-> last, half |-> FALSE]
  BY <1>3 DEF PositionAfter
<1>6. Extends(calls, ClientPosition, x)
  <2>1. ClientPosition.n = last - 1 /\ ClientPosition.half = (calls[last] = "data")
    BY <1>4 DEF kind
  <2> HIDE DEF x
  <2>2. x.n = ClientPosition.n + 1 /\ x.n \in 1 .. Len(calls)
    BY <2>1, <1>2, <1>3 DEF last
  <2> QED BY <2>1, <2>2, <1>3 DEF Extends
<1>7. NotAfter(ClientPosition, ClientPosition')
  BY <1>2, <1>4 DEF NotAfter
<1> HIDE DEF x
<1>8. /\ TypeOK' /\ Queues' /\ StreamInv' /\ ConnInv'
      /\ PoolInv' /\ ReplyingInv' /\ RepliesInv'
  <2>1. cpc \in {"data", "send"} /\ cpc' \in {"send", "wait", "idle", "exiting"}
        /\ ClientPosition' = PositionAfter(x)
    BY <1>1, <1>4, <1>5
  <2> QED BY <2>1, <1>1, <1>3, <1>6, <1>7, ClientWrites
<1>9. QueryInv'
  <2>1. Executed' = Executed
    BY <1>1 DEF Executed
  <2>2. calls[last] = "query" => cpc' \notin {"idle", "data"}
    BY <1>1 DEF kind
  <2> QED BY <2>1, <2>2, <1>1, <1>2 DEF QueryInv
<1>10. CallerInv'
  BY <1>1, <1>2 DEF CallerInv
<1> QED BY <1>8, <1>9, <1>10

-----------------------------------------------------------------------------
(* The client takes its reply.                                             *)

LEMMA ReplyIsDue ==
  ASSUME IInv, ring["client"] # <<>>
  PROVE  /\ RepliesNum = 1 /\ Head(ring["client"]) = last /\ Executed = last
         /\ smain # "reply" /\ Len(ring["client"]) = 1 /\ wire["client"] = <<>>
<1> DEFINE Q == ring["client"]
           X == wire["client"]
<1>1. Q \in Seq(CallNumber) /\ X \in Seq(CallNumber) /\ Len(Q) \in Nat /\ Len(X) \in Nat
      /\ Q # <<>>
  <2>1. AreQueues(ring) /\ AreQueues(wire)
    BY StateParts DEF IInv
  <2> QED BY <2>1, AreQueuesParts, SideFacts
<1> HIDE DEF Q, X
<1>4. RepliesNum = Num(Q, X) /\ RepliesNum # 0
  <2>1. Num(Q, X) # 0
    BY <1>1, NumParts
  <2> QED BY <2>1 DEF RepliesNum, Q, X
<1>5. /\ RepliesNum = 1 /\ Item(Q, X, 1) = last
      /\ Executed = last /\ smain # "reply"
  BY <1>4 DEF IInv, CallsInv, RepliesInv, Q, X
<1>6. Len(Q) = 1 /\ X = <<>>
  BY <1>1, <1>4, <1>5, NumParts
<1>8. Head(Q) = Q[1] /\ Item(Q, X, 1) = Q[1]
  BY <1>1, <1>6, HeadTailProperties DEF Item
<1> QED BY <1>5, <1>6, <1>8 DEF Q, X

Taken(s) == Put(ring, s, Tail(ring[s]))

LEMMA TakenTypes ==
  ASSUME IInv, NEW s \in Side, ring[s] # <<>>
  PROVE  /\ AreQueues(Taken(s)) /\ Taken(s)[s] = Tail(ring[s])
         /\ \A t \in Side : t # s => Taken(s)[t] = ring[t]
         /\ \A t \in Side : Len(Taken(s)[t]) <= RingRoom[t]
<1> DEFINE q == Tail(ring[s])
           f == Put(ring, s, q)
<1>1. AreQueues(ring) /\ ring[s] \in Seq(PacketTo(s)) /\ Len(ring[s]) \in Nat
  <2>1. AreQueues(ring)
    BY StateParts DEF IInv
  <2> QED BY <2>1, AreQueuesParts
<1>2. q \in Seq(PacketTo(s)) /\ Len(q) = Len(ring[s]) - 1
  BY <1>1, HeadTailProperties
<1> HIDE DEF q
<1>3. AreQueues(f) /\ f[s] = q /\ \A t \in Side : t # s => f[t] = ring[t]
  BY <1>1, <1>2, AreQueuesPut
<1>4. Taken(s) = f
  BY DEF Taken, q
<1> HIDE DEF f
<1>5. \A t \in Side : Len(ring[t]) <= RingRoom[t] /\ RingRoom[t] \in Nat
  BY SessionAssumption DEF IInv, TypeOK
<1>6. Len(f[s]) <= RingRoom[s]
  BY <1>1, <1>2, <1>3, <1>5
<1>7. \A t \in Side : Len(f[t]) <= RingRoom[t]
  BY <1>3, <1>5, <1>6
<1> QED BY <1>3, <1>4, <1>7 DEF q

LEMMA HandlePacketKeeps ==
  ASSUME IInv, HandlePacket
  PROVE  IInv'
<1> USE DEF IInv, CallsInv, ConnInv
<1>1. /\ UNCHANGED <<calls, smain, pool, executed, recv, ring_open, fd, wire, gone, rst,
                     sockerr, broken, netreset, last, kind>>
      /\ cpc = "wait" /\ cpc' = "idle" /\ ring["client"] # <<>>
      /\ ring' = Put(ring, "client", Tail(ring["client"]))
      /\ returned' = Append(returned, Head(ring["client"]))
  BY DEF HandlePacket, serverVars, netVars, faultVars, last, kind
<1>2. /\ RepliesNum = 1 /\ Head(ring["client"]) = last /\ Executed = last
      /\ smain # "reply" /\ Len(ring["client"]) = 1 /\ wire["client"] = <<>>
  BY <1>1, ReplyIsDue
<1> DEFINE q == Tail(ring["client"])
<1>3. AreQueues(ring) /\ ring["client"] \in Seq(CallNumber)
  BY StateParts, AreQueuesParts
<1>4. Head(ring["client"]) \in CallNumber /\ q \in Seq(PacketTo("client")) /\ Len(q) = 0
  BY <1>1, <1>2, <1>3, HeadTailProperties, SideFacts
<1>5. /\ AreQueues(ring') /\ ring'["client"] = q /\ ring'["server"] = ring["server"]
      /\ \A t \in Side : Len(ring'[t]) <= RingRoom[t]
  <2>1. "client" \in Side /\ "server" \in Side
    BY SideFacts
  <2>2. ring' = Taken("client")
    BY <1>1 DEF Taken
  <2>3. /\ AreQueues(Taken("client")) /\ Taken("client")["client"] = q
        /\ \A t \in Side : t # "client" => Taken("client")[t] = ring[t]
        /\ \A t \in Side : Len(Taken("client")[t]) <= RingRoom[t]
    BY <1>1, <2>1, TakenTypes
  <2> QED BY <2>1, <2>2, <2>3
<1> HIDE DEF q
<1>6. RepliesNum' = 0
  <2>1. q \in Seq(CallNumber) /\ q = <<>> /\ wire["client"] \in Seq(CallNumber)
    BY <1>2, <1>4, SideFacts, EmptySeq
  <2>2. Num(q, wire["client"]) = 0
    BY <2>1, <1>2, NumParts
  <2> QED BY <2>2, <1>1, <1>5 DEF RepliesNum
<1>7. TypeOK' /\ Queues'
  <2>1. returned' \in Seq(CallNumber)
    BY <1>1, <1>4, AppendProperties DEF TypeOK
  <2>2. \A t \in Side : /\ ring'[t] \in Seq(PacketTo(t)) /\ Len(ring'[t]) <= RingRoom[t]
    BY <1>5 DEF AreQueues
  <2>3. TypeOK'
    BY <2>1, <2>2, <1>1 DEF TypeOK
  <2> QED BY <2>3, <1>1, <1>5 DEF Queues, AreQueues
<1>8. UNCHANGED <<Executed, ServerPosition, ClientPosition, Intact>>
  BY <1>1 DEF Executed, ServerPosition, ClientPosition, Intact
<1>9. StreamInv'
  BY <1>1, <1>5, <1>8 DEF StreamInv
<1>10. PoolInv' /\ CallerInv' /\ ReplyingInv' /\ RepliesInv'
  BY <1>1, <1>2, <1>6, <1>8 DEF PoolInv, CallerInv, ReplyingInv, RepliesInv
<1>11. QueryInv'
  BY <1>1, <1>2, <1>8 DEF QueryInv
<1>12. ConnInv'
  <2>1. ResetInv' /\ ReadyInv'
    BY <1>1, <1>8 DEF ResetInv, UnreportedReset, ReadyInv
  <2>2. \A s \in Side : Works(s)' => Works(s)
    BY <1>1 DEF Works, Runs, Freed
  <2>3. PollingInv' /\ NoReadAfterFailedWrite'
    BY <2>2, <1>1 DEF PollingInv, NoReadAfterFailedWrite
  <2> QED BY <2>1, <2>3
<1> QED BY <1>7, <1>9, <1>10, <1>11, <1>12

-----------------------------------------------------------------------------
(* The server handles a packet.                                            *)

(***************************************************************************)
(* The packet it handles is the next of the stream: data if and only if    *)
(* its call has data that did not come yet.                                *)
(***************************************************************************)
LEMMA CurrentIsNext ==
  ASSUME IInv, HasPacket
  PROVE  /\ Current \in ServerPacket /\ Current \in Packets
         /\ Current.n = Executed + 1 /\ Current.n \in 1 .. last
         /\ Current.data <=> calls[Current.n] = "data" /\ pool = 0
         /\ pool # 0 => calls[Current.n] = "data" /\ pool = Current.n
         /\ NotAfter(PositionAfter(Current), ClientPosition)
         /\ Stream(ring["server"], wire["server"], calls, PositionAfter(Current),
                   ClientPosition, TRUE, Intact)
         /\ Stream(Tail(ring["server"]), wire["server"], calls, PositionAfter(Current),
                   ClientPosition, FALSE, Intact)
<1> DEFINE R == ring["server"]
           W == wire["server"]
           s == ServerPosition
           c == ClientPosition
<1>1. R # <<>> /\ smain = "loop" /\ Current = Head(R)
  BY DEF HasPacket, Current
<1>2. R \in Seq(Packets) /\ W \in Seq(Packets) /\ R \in Seq(ServerPacket)
  <2>1. AreQueues(ring) /\ AreQueues(wire)
    BY StateParts DEF IInv
  <2> QED BY <2>1, AreQueuesParts
<1>3. Head(R) \in ServerPacket /\ Head(R) \in Packets
  BY <1>1, <1>2, HeadTailProperties
<1>4. Stream(R, W, calls, s, c, FALSE, Intact) /\ Intact \in BOOLEAN
  BY <1>1 DEF IInv, StreamInv, Intact
<1> HIDE DEF R, W, s, c
<1>5. /\ Extends(calls, s, Head(R)) /\ NotAfter(PositionAfter(Head(R)), c)
      /\ Stream(R, W, calls, PositionAfter(Head(R)), c, TRUE, Intact)
  BY <1>1, <1>2, <1>4, StreamBegun
<1>6. Stream(Tail(R), W, calls, PositionAfter(Head(R)), c, FALSE, Intact)
  BY <1>1, <1>2, <1>4, <1>5, StreamPopped
<1>7. s.n = Executed /\ s.half = (pool # 0)
  BY DEF s, ServerPosition
<1>8. /\ Head(R).n = Executed + 1 /\ Head(R).n \in 1 .. last
      /\ Head(R).data <=> calls[Head(R).n] = "data" /\ pool = 0
      /\ pool # 0 => calls[Head(R).n] = "data"
  BY <1>5, <1>7 DEF Extends, last
<1>9. pool # 0 => pool = Executed + 1
  BY DEF IInv, CallsInv, PoolInv
<1> QED BY <1>1, <1>3, <1>5, <1>6, <1>8, <1>9 DEF R, W, c

LEMMA PopTypes ==
  ASSUME IInv, ring["server"] # <<>>
  PROVE  /\ AreQueues(RingAdvanced) /\ RingAdvanced["server"] = Tail(ring["server"])
         /\ RingAdvanced["client"] = ring["client"]
         /\ \A t \in Side : Len(RingAdvanced[t]) <= RingRoom[t]
<1>1. "server" \in Side /\ "client" \in Side
  BY SideFacts
<1>2. RingAdvanced = Taken("server")
  BY DEF RingAdvanced, Taken
<1>3. /\ AreQueues(Taken("server")) /\ Taken("server")["server"] = Tail(ring["server"])
      /\ \A t \in Side : t # "server" => Taken("server")[t] = ring[t]
      /\ \A t \in Side : Len(Taken("server")[t]) <= RingRoom[t]
  BY <1>1, TakenTypes
<1> QED BY <1>1, <1>2, <1>3

LEMMA HandleDataKeeps ==
  ASSUME IInv, HandleData
  PROVE  IInv'
<1> USE DEF IInv, CallsInv, ConnInv
<1>1. /\ HasPacket /\ Current.data /\ pool' = Current.n /\ ring' = RingAdvanced
      /\ UNCHANGED <<cpc, calls, returned, smain, executed, recv, ring_open, fd, wire, gone,
                     rst, sockerr, broken, netreset, last, kind, Executed>>
      /\ smain = "loop" /\ ring["server"] # <<>>
  BY DEF HandleData, HasPacket, clientVars, netVars, faultVars, last, kind, Executed
<1>2. /\ Current \in ServerPacket
      /\ Current.n = Executed + 1 /\ Current.n \in 1 .. last
      /\ calls[Current.n] = "data" /\ pool = 0
      /\ Stream(Tail(ring["server"]), wire["server"], calls, PositionAfter(Current),
                ClientPosition, FALSE, Intact)
  BY <1>1, CurrentIsNext
<1>3. /\ AreQueues(ring') /\ ring'["server"] = Tail(ring["server"])
      /\ ring'["client"] = ring["client"]
      /\ \A t \in Side : Len(ring'[t]) <= RingRoom[t]
  BY <1>1, PopTypes
<1>4. Executed \in Nat /\ last \in Nat /\ last <= MaxCalls /\ MaxCalls \in Nat
  BY StateParts, SessionAssumption
<1>5. pool' \in 1 .. last /\ pool' = Executed + 1 /\ pool' # 0
  BY <1>1, <1>2, <1>4
<1>6. TypeOK' /\ Queues'
  <2>1. pool' \in 0 .. MaxCalls
    BY <1>4, <1>5
  <2>2. TypeOK'
    BY <2>1, <1>1, <1>3 DEF TypeOK, AreQueues
  <2> QED BY <2>2, <1>1, <1>3 DEF Queues, AreQueues
<1>7. ServerPosition' = PositionAfter(Current)
  <2>1. ServerPosition' = [n |-> Executed, half |-> TRUE]
    BY <1>1, <1>5 DEF ServerPosition
  <2>2. Current.n - 1 = Executed /\ Current.data = TRUE
    BY <1>1, <1>2, <1>4 DEF ServerPacket
  <2>3. PositionAfter(Current) = [n |-> Executed, half |-> TRUE]
    BY <2>2 DEF PositionAfter
  <2> QED BY <2>1, <2>3
<1>8. UNCHANGED <<ClientPosition, Intact, RepliesNum>>
  BY <1>1, <1>3 DEF ClientPosition, Intact, RepliesNum
<1>9. StreamInv'
  BY <1>1, <1>2, <1>3, <1>7, <1>8 DEF StreamInv
<1>10. PoolInv' /\ CallerInv' /\ QueryInv'
  BY <1>1, <1>2, <1>5 DEF PoolInv, CallerInv, QueryInv
<1>11. ReplyingInv' /\ RepliesInv'
  BY <1>1, <1>3, <1>8 DEF ReplyingInv, RepliesInv, Asked
<1>12. ConnInv'
  BY <1>1 DEF ResetInv, UnreportedReset, ReadyInv, PollingInv, NoReadAfterFailedWrite, Works, Runs, Freed
<1> QED BY <1>6, <1>9, <1>10, <1>11, <1>12

LEMMA HandleCallEffect ==
  ASSUME IInv, HandleCall
  PROVE  /\ executed' = Append(executed,
                          [n |-> Executed + 1,
                           input |-> IF calls[Executed + 1] = "data" THEN Executed + 1 ELSE 0])
         /\ executed' \in Seq([n : CallNumber, input : 0 .. MaxCalls])
         /\ Executed' = Executed + 1 /\ Executed + 1 \in 1 .. last /\ Executed \in Nat
         /\ pool' = 0 /\ Current = [data |-> FALSE, n |-> Executed + 1]
         /\ smain' = IF calls[Executed + 1] = "query" THEN "reply" ELSE "loop"
         /\ ring' = IF calls[Executed + 1] = "query" THEN ring ELSE RingAdvanced
<1> DEFINE k == calls[Current.n]
<1>1. /\ HasPacket /\ ~Current.data
      /\ executed' = Append(executed, [n |-> Current.n, input |-> IF k = "data" THEN pool ELSE 0])
      /\ pool' = IF k = "data" THEN 0 ELSE pool
      /\ smain' = IF k = "query" THEN "reply" ELSE "loop"
      /\ ring' = IF k = "query" THEN ring ELSE RingAdvanced
  BY DEF HandleCall
<1>2. /\ Current \in ServerPacket /\ Current.n = Executed + 1 /\ Current.n \in 1 .. last
      /\ k = "data" => pool # 0
      /\ pool # 0 => k = "data" /\ pool = Current.n
  BY <1>1, CurrentIsNext
<1>3. Executed \in Nat /\ last \in Nat /\ last <= MaxCalls /\ MaxCalls \in Nat
  BY StateParts, SessionAssumption DEF IInv
<1>4. pool' = 0
  BY <1>1, <1>2
<1>5. (IF k = "data" THEN pool ELSE 0) = IF k = "data" THEN Current.n ELSE 0
  BY <1>2
<1>6. executed' = Append(executed, [n |-> Executed + 1,
                                    input |-> IF k = "data" THEN Executed + 1 ELSE 0])
  BY <1>1, <1>2, <1>5
<1>7. Current = [data |-> FALSE, n |-> Executed + 1]
  BY <1>1, <1>2 DEF ServerPacket
<1>8. [n |-> Executed + 1, input |-> IF k = "data" THEN Executed + 1 ELSE 0]
        \in [n : CallNumber, input : 0 .. MaxCalls]
  BY <1>2, <1>3 DEF CallNumber
<1>9. executed \in Seq([n : CallNumber, input : 0 .. MaxCalls])
  BY DEF IInv, TypeOK
<1>10. executed' \in Seq([n : CallNumber, input : 0 .. MaxCalls])
       /\ Len(executed') = Len(executed) + 1
  <2> DEFINE e == [n |-> Executed + 1, input |-> IF k = "data" THEN Executed + 1 ELSE 0]
  <2>1. e \in [n : CallNumber, input : 0 .. MaxCalls] /\ executed' = Append(executed, e)
    BY <1>6, <1>8
  <2> HIDE DEF e
  <2> QED BY <2>1, <1>9, AppendProperties
<1> QED BY <1>1, <1>2, <1>3, <1>4, <1>6, <1>7, <1>10 DEF Executed

LEMMA HandleCallKeeps ==
  ASSUME IInv, HandleCall
  PROVE  IInv'
<1> USE DEF IInv, CallsInv, ConnInv
<1> DEFINE n == Executed + 1
<1>1. /\ UNCHANGED <<cpc, calls, returned, recv, ring_open, fd, wire, gone,
                     rst, sockerr, broken, netreset, last, kind, Asked>>
      /\ HasPacket /\ smain = "loop" /\ ring["server"] # <<>>
  BY DEF HandleCall, HasPacket, clientVars, netVars, faultVars, last, kind, Asked
<1>2. /\ executed' \in Seq([n : CallNumber, input : 0 .. MaxCalls])
      /\ Executed' = n /\ n \in 1 .. last /\ Executed \in Nat
      /\ pool' = 0 /\ Current = [data |-> FALSE, n |-> n]
      /\ smain' = IF calls[n] = "query" THEN "reply" ELSE "loop"
      /\ ring' = IF calls[n] = "query" THEN ring ELSE RingAdvanced
  BY HandleCallEffect
<1>3. last \in Nat /\ last <= MaxCalls /\ MaxCalls \in Nat /\ n \in Nat
  BY <1>2, StateParts, SessionAssumption
<1>4. AreQueues(ring) /\ AreQueues(RingAdvanced)
      /\ RingAdvanced["server"] = Tail(ring["server"])
      /\ RingAdvanced["client"] = ring["client"]
      /\ \A t \in Side : Len(RingAdvanced[t]) <= RingRoom[t] /\ Len(ring[t]) <= RingRoom[t]
  BY <1>1, PopTypes, StateParts DEF TypeOK
<1>5. /\ AreQueues(ring') /\ ring'["client"] = ring["client"]
      /\ \A t \in Side : Len(ring'[t]) <= RingRoom[t]
  BY <1>2, <1>4
<1>6. TypeOK' /\ Queues'
  <2>1. pool' \in 0 .. MaxCalls /\ smain' \in {"loop", "reply", "join"}
    BY <1>2, <1>3
  <2>2. TypeOK'
    BY <2>1, <1>1, <1>2, <1>5 DEF TypeOK, AreQueues
  <2> QED BY <2>2, <1>1, <1>5 DEF Queues, AreQueues
<1>7. PositionAfter(Current) = [n |-> n, half |-> FALSE]
  BY <1>2 DEF PositionAfter
<1>8. ServerPosition' = PositionAfter(Current)
  BY <1>2, <1>7 DEF ServerPosition
<1>9. UNCHANGED <<ClientPosition, Intact, RepliesNum>>
  BY <1>1, <1>5 DEF ClientPosition, Intact, RepliesNum
<1>10. /\ Stream(ring["server"], wire["server"], calls, PositionAfter(Current),
                 ClientPosition, TRUE, Intact)
       /\ Stream(Tail(ring["server"]), wire["server"], calls, PositionAfter(Current),
                 ClientPosition, FALSE, Intact)
       /\ NotAfter(PositionAfter(Current), ClientPosition)
  BY <1>1, CurrentIsNext
<1>11. StreamInv'
  <2>1. CASE calls[n] = "query"
    <3>1. smain' = "reply" /\ ring' = ring
      BY <2>1, <1>2
    <3> QED BY <3>1, <1>1, <1>8, <1>9, <1>10 DEF StreamInv
  <2>2. CASE calls[n] # "query"
    <3>1. smain' = "loop" /\ ring'["server"] = Tail(ring["server"])
      BY <2>2, <1>2, <1>4
    <3> QED BY <3>1, <1>1, <1>8, <1>9, <1>10 DEF StreamInv
  <2> QED BY <2>1, <2>2
<1>12. RepliesNum = 0
  <2>1. Executed # last
    BY <1>2, <1>3
  <2> QED BY <2>1 DEF RepliesInv
<1>13. calls[n] = "query" => n = last /\ kind = "query" /\ Asked
  <2> SUFFICES ASSUME calls[n] = "query"
               PROVE  n = last /\ kind = "query" /\ Asked
    OBVIOUS
  <2>1. n = last /\ cpc \notin {"idle", "data"}
    <3>1. ~(n <= Executed)
      BY <1>2
    <3> QED BY <3>1, <1>2 DEF QueryInv
  <2>2. cpc # "send"
    <3>1. CASE cpc = "send"
      <4>1. ClientPosition.n = last - 1
        BY <3>1 DEF ClientPosition
      <4>2. NotAfter([n |-> n, half |-> FALSE], ClientPosition)
        BY <1>7, <1>10
      <4>3. n < last - 1 \/ n = last - 1
        BY <4>1, <4>2 DEF NotAfter
      <4> QED BY <4>3, <2>1, <1>3
    <3> QED BY <3>1
  <2>3. kind = "query"
    BY <2>1 DEF kind
  <2> QED BY <2>1, <2>2, <2>3 DEF Asked, TypeOK
<1>14. ReplyingInv'
  <2> SUFFICES ASSUME smain' = "reply"
               PROVE  /\ ring'["server"] # <<>>
                      /\ Head(ring'["server"]) = [data |-> FALSE, n |-> Executed']
                      /\ pool' = 0 /\ Executed' = last' /\ last' \in 1 .. MaxCalls
                      /\ kind' = "query" /\ Asked' /\ RepliesNum' = 0
    BY DEF ReplyingInv
  <2>1. calls[n] = "query"
    BY <1>2
  <2>2. ring' = ring /\ Head(ring["server"]) = [data |-> FALSE, n |-> n]
    BY <2>1, <1>2 DEF Current
  <2>3. n = last /\ kind = "query" /\ Asked /\ last \in 1 .. MaxCalls
    BY <2>1, <1>2, <1>3, <1>13
  <2> QED BY <2>2, <2>3, <1>1, <1>2, <1>9, <1>12
<1>15. PoolInv' /\ RepliesInv' /\ CallerInv'
  BY <1>1, <1>2, <1>9, <1>12 DEF PoolInv, RepliesInv, CallerInv
<1>16. \A i \in 1 .. last : i <= Executed => i <= Executed'
  BY <1>2
<1>17. QueryInv'
  BY <1>1, <1>16 DEF QueryInv
<1>18. ResetInv'
  <2>1. UnreportedReset' => UnreportedReset
    BY <1>1 DEF UnreportedReset
  <2>2. UnreportedReset => smain' # "reply"
    <3>1. UnreportedReset => (calls[n] = "query" => n <= Executed)
      BY <1>2 DEF ResetInv
    <3>2. ~(n <= Executed)
      BY <1>2
    <3> QED BY <3>1, <3>2, <1>2
  <2> QED BY <2>1, <2>2, <1>1, <1>16 DEF ResetInv
<1>19. ReadyInv' /\ PollingInv' /\ NoReadAfterFailedWrite'
  BY <1>1 DEF ReadyInv, PollingInv, NoReadAfterFailedWrite, Works, Runs, Freed
<1> QED BY <1>6, <1>11, <1>14, <1>15, <1>17, <1>18, <1>19

-----------------------------------------------------------------------------
(* The server sends a reply.                                               *)

(***************************************************************************)
(* Nothing can follow a call whose reply is due.                           *)
(***************************************************************************)
LEMMA NoMoreWhileReplying ==
  ASSUME IInv, smain = "reply"
  PROVE  /\ wire["server"] = <<>>
         /\ PositionAfter(Head(ring["server"])) = ServerPosition
         /\ Stream(Tail(ring["server"]), wire["server"], calls, ServerPosition,
                   ClientPosition, FALSE, Intact)
<1> DEFINE R == ring["server"]
           W == wire["server"]
           c == ClientPosition
           h == PositionAfter(Head(R))
           T == Tail(R)
<1>1. R # <<>> /\ Head(R) = [data |-> FALSE, n |-> Executed] /\ pool = 0 /\ Executed = last
  BY DEF IInv, CallsInv, ReplyingInv
<1>2. R \in Seq(Packets) /\ W \in Seq(Packets) /\ last \in Nat
  <2>1. AreQueues(ring) /\ AreQueues(wire) /\ last \in Nat
    BY StateParts DEF IInv
  <2> QED BY <2>1, AreQueuesParts
<1>3. h = [n |-> Executed, half |-> FALSE] /\ h = ServerPosition
  <2>1. Head(R).data = FALSE /\ Head(R).n = Executed
    BY <1>1
  <2>2. h = [n |-> Executed, half |-> FALSE]
    BY <2>1 DEF PositionAfter
  <2>3. (pool # 0) = FALSE
    BY <1>1
  <2>4. ServerPosition = [n |-> Executed, half |-> FALSE]
    BY <2>3 DEF ServerPosition
  <2> QED BY <2>2, <2>4
<1>4. Stream(R, W, calls, h, c, TRUE, Intact) /\ Intact \in BOOLEAN
  BY <1>3 DEF IInv, StreamInv, Intact
<1> HIDE DEF R, W, c
<1>5. Stream(T, W, calls, h, c, FALSE, Intact)
  BY <1>1, <1>2, <1>4, StreamPopped
<1>6. T \in Seq(Packets)
  BY <1>1, <1>2, HeadTailProperties
<1> HIDE DEF T
<1>7. Num(T, W) \in Nat /\ (Num(T, W) = 0 <=> T = <<>> /\ W = <<>>)
  BY <1>2, <1>6, NumParts
<1>8. Num(T, W) = 0
  <2> SUFFICES ASSUME Num(T, W) # 0
               PROVE  FALSE
    OBVIOUS
  <2>1. 1 \in 1 .. Num(T, W)
    BY <1>7
  <2> HIDE DEF h
  <2>2. Extends(calls, Reached(T, W, h, 1 - 1), Item(T, W, 1))
    BY <1>5, <2>1 DEF Stream, Chain
  <2>3. Reached(T, W, h, 1 - 1) = h /\ h.n = Executed
    BY <1>3 DEF Reached
  <2>4. Item(T, W, 1).n = Executed + 1 /\ Item(T, W, 1).n \in 1 .. last
    BY <2>2, <2>3 DEF Extends, last
  <2> QED BY <2>4, <1>1, <1>2
<1> QED BY <1>3, <1>5, <1>7, <1>8 DEF R, W, T, c

LEMMA SendReplyKeeps ==
  ASSUME IInv, SendReply
  PROVE  IInv'
<1> USE DEF IInv, CallsInv, ConnInv
<1> DEFINE x == Current.n
           X == wire["client"]
           Y == wire'["client"]
<1>1. /\ ~gone["server"] /\ smain = "reply" /\ smain' = "loop" /\ ring' = RingAdvanced
      /\ Transmit("server", x) \/ CloseAfterFailure("server")
      /\ UNCHANGED <<cpc, calls, returned, pool, executed, recv, ring_open, broken, netreset,
                     last, kind, Asked, Executed>>
  BY DEF SendReply, clientVars, faultVars, last, kind, Asked, Executed
<1>2. /\ ring["server"] # <<>> /\ Current = [data |-> FALSE, n |-> Executed]
      /\ pool = 0 /\ Executed = last /\ last \in 1 .. MaxCalls /\ kind = "query"
      /\ Asked /\ RepliesNum = 0
  BY <1>1 DEF ReplyingInv, Current
<1>3. x = last /\ x \in PacketTo(Peer("server")) /\ x \in CallNumber
  BY <1>2, SideFacts DEF CallNumber
<1>4. /\ AreQueues(wire') /\ \A t \in Side : Len(wire'[t]) <= SockSize
      /\ wire'["server"] = wire["server"]
      /\ Y = X \/ (Y = Append(X, x) /\ Y # <<>> /\ ~gone["client"] /\ fd["server"]
                    /\ rst["server"] # "yes")
      /\ fd' \in [Side -> BOOLEAN] /\ rst' \in [Side -> {"no", "owed", "yes"}]
      /\ sockerr' \in [Side -> BOOLEAN] /\ gone' = gone
      /\ fd'["client"] = fd["client"] /\ rst'["client"] = rst["client"]
      /\ sockerr'["client"] = sockerr["client"]
  BY <1>1, <1>3, WriteEffect, SideFacts
<1>5. \/ /\ fd["server"] /\ fd'["server"] /\ rst["server"] # "yes" /\ rst'["server"] # "yes"
         /\ sockerr'["server"] = sockerr["server"]
         /\ ~gone["client"] => rst'["server"] = rst["server"]
      \/ /\ ~fd'["server"] /\ ~sockerr'["server"] /\ rst'["server"] = rst["server"]
         /\ fd["server"] => rst["server"] = "yes" /\ sockerr["server"]
  BY <1>1, <1>3, WriteEffect, SideFacts
<1>6. /\ AreQueues(ring') /\ ring'["server"] = Tail(ring["server"])
      /\ ring'["client"] = ring["client"]
      /\ \A t \in Side : Len(ring'[t]) <= RingRoom[t]
  BY <1>1, <1>2, PopTypes
<1>7. TypeOK'
  BY <1>1, <1>4, <1>6 DEF TypeOK, AreQueues
<1>8. Queues'
  BY <1>4, <1>6 DEF Queues, AreQueues
<1>9. UNCHANGED <<ServerPosition, ClientPosition, Intact>>
  BY <1>1, <1>4 DEF ServerPosition, ClientPosition, Intact
<1>10. /\ wire["server"] = <<>>
       /\ Stream(Tail(ring["server"]), wire["server"], calls, ServerPosition,
                 ClientPosition, FALSE, Intact)
  BY <1>1, NoMoreWhileReplying
<1>11. StreamInv'
  BY <1>1, <1>4, <1>6, <1>9, <1>10 DEF StreamInv
<1>12. RepliesNum' = 0 \/ (RepliesNum' = 1 /\ Item(ring["client"], wire["client"], 1)' = last)
  <2> DEFINE Q == ring["client"]
  <2>1. AreQueues(ring) /\ AreQueues(wire)
    BY StateParts
  <2>2. Q \in Seq(CallNumber) /\ X \in Seq(CallNumber)
    BY <2>1, AreQueuesParts
  <2>3. Num(Q, X) = 0
    BY <1>2 DEF RepliesNum
  <2>4. RepliesNum' = Num(Q, Y) /\ Item(ring["client"], wire["client"], 1)' = Item(Q, Y, 1)
    BY <1>6 DEF RepliesNum
  <2> HIDE DEF Q, X, Y, x
  <2>5. CASE Y = X
    BY <2>3, <2>4, <2>5
  <2>6. CASE Y = Append(X, x)
    <3>1. Num(Q, Append(X, x)) = 1 /\ Item(Q, Append(X, x), 1) = x
      <4>1. /\ Num(Q, Append(X, x)) = Num(Q, X) + 1
            /\ Item(Q, Append(X, x), Num(Q, X) + 1) = x
        BY <2>2, <1>3, ItemSent
      <4>2. Num(Q, X) + 1 = 1
        BY <2>3
      <4> QED BY <4>1, <4>2
    <3> QED BY <3>1, <2>4, <2>6, <1>3
  <2> QED BY <2>5, <2>6, <1>4
<1>13. CallsInv'
  <2>1. RepliesInv'
    BY <1>1, <1>2, <1>12 DEF RepliesInv
  <2>2. ReplyingInv'
    BY <1>1 DEF ReplyingInv
  <2>3. PoolInv' /\ QueryInv' /\ CallerInv'
    BY <1>1 DEF PoolInv, QueryInv, CallerInv
  <2> QED BY <2>1, <2>2, <2>3
<1>14. ResetInv'
  <2>1. \A t \in Side : sockerr'[t] => rst'[t] = "yes"
    BY <1>4, <1>5, SideFacts DEF ResetInv
  <2>2. ~UnreportedReset
    BY <1>1 DEF ResetInv
  <2>3. UnreportedReset' => gone["client"]
    BY <2>2, <1>1, <1>5 DEF UnreportedReset
  <2>4. \A i \in 1 .. last : i <= Executed
    BY <1>2
  <2> QED BY <2>1, <2>3, <2>4, <1>1, <1>4 DEF ResetInv
<1>15. ReadyInv'
  <2>1. \A t \in Side : /\ wire'[t] = <<>> => wire[t] = <<>>
                        /\ sockerr'[t] => sockerr[t]
    BY <1>4, <1>5, SideFacts
  <2> QED BY <2>1, <1>1, <1>4 DEF ReadyInv
<1>16. PollingInv' /\ NoReadAfterFailedWrite'
  <2>1. \A t \in Side : Works(t)' <=> Works(t)
    BY <1>1, <1>4 DEF Works, Runs, Freed
  <2>2. recv["server"] = "ready" => ~sockerr["server"]
    BY <1>1, <1>10, SideFacts DEF ReadyInv
  <2>3. /\ Works("server") /\ recv["server"] = "ready" => fd'["server"]
        /\ Works("server") /\ recv["server"] = "polling"
             => fd'["server"] \/ rst'["server"] = "yes"
    BY <2>2, <1>5, SideFacts DEF PollingInv, NoReadAfterFailedWrite
  <2>4. /\ Works("client") /\ recv["client"] = "ready" => fd'["client"]
        /\ Works("client") /\ recv["client"] = "polling"
             => fd'["client"] \/ rst'["client"] = "yes"
    BY <1>4, SideFacts DEF PollingInv, NoReadAfterFailedWrite
  <2> QED BY <2>1, <2>3, <2>4, <1>1 DEF PollingInv, NoReadAfterFailedWrite, Side
<1> QED BY <1>7, <1>8, <1>11, <1>13, <1>14, <1>15, <1>16

-----------------------------------------------------------------------------
(* The invariant, of the whole session.                                    *)

LEMMA InitOK == Init => IInv
<1> SUFFICES ASSUME Init
             PROVE  IInv
  OBVIOUS
<1>1. <<>> \in Seq(CallKinds) /\ <<>> \in Seq(CallNumber) /\ <<>> \in Seq(ServerPacket)
      /\ <<>> \in Seq([n : CallNumber, input : 0 .. MaxCalls])
  BY EmptySeq
<1>2. Len(<<>>) = 0
  OBVIOUS
<1>3. \A s \in Side : ring[s] = <<>> /\ wire[s] = <<>> /\ recv[s] = "top" /\ rst[s] = "no"
                      /\ sockerr[s] = FALSE /\ fd[s] = TRUE /\ gone[s] = FALSE
  BY DEF Init
<1>4. TypeOK
  <2>1. \A s \in Side : <<>> \in Seq(PacketTo(s)) /\ 0 <= RingRoom[s] /\ 0 <= SockSize
    BY <1>1, SessionAssumption, SideFacts
  <2>2. MaxCalls \in Nat
    BY SessionAssumption
  <2>3. \A s \in Side : /\ ring[s] \in Seq(PacketTo(s)) /\ Len(ring[s]) <= RingRoom[s]
                        /\ wire[s] \in Seq(PacketTo(s)) /\ Len(wire[s]) <= SockSize
    BY <1>2, <1>3, <2>1
  <2>4. /\ calls \in Seq(CallKinds) /\ Len(calls) <= MaxCalls /\ pool \in 0 .. MaxCalls
        /\ executed \in Seq([n : CallNumber, input : 0 .. MaxCalls])
        /\ returned \in Seq(CallNumber)
    BY <1>1, <1>2, <2>2 DEF Init
  <2> QED BY <2>3, <2>4 DEF Init, TypeOK
<1>5. Queues
  BY <1>1 DEF Init, Queues
<1>6. last = 0 /\ Executed = 0 /\ RepliesNum = 0 /\ Num(ring["server"], wire["server"]) = 0
  BY <1>2, <1>3, SideFacts DEF Init, last, Executed, RepliesNum, Num
<1>7. ServerPosition = [n |-> 0, half |-> FALSE] /\ ClientPosition = ServerPosition
  BY <1>6 DEF Init, ServerPosition, ClientPosition
<1>8. StreamInv
  BY <1>6, <1>7 DEF StreamInv, Stream, Chain, Sent, NotAfter, Reached
<1>9. CallsInv
  BY <1>6 DEF Init, CallsInv, PoolInv, ReplyingInv, RepliesInv, QueryInv, CallerInv
<1>10. ConnInv
  BY <1>3, SideFacts
     DEF ConnInv, ResetInv, UnreportedReset, ReadyInv, PollingInv, NoReadAfterFailedWrite
<1> QED BY <1>4, <1>5, <1>8, <1>9, <1>10 DEF IInv

LEMMA Stutters ==
  ASSUME IInv, UNCHANGED vars
  PROVE  IInv'
<1>1. UNCHANGED <<cpc, calls, returned, smain, pool, executed, recv, ring, ring_open,
                  fd, wire, gone, rst, sockerr, broken, netreset>>
  BY DEF vars, clientVars, serverVars, recvVars, netVars, faultVars
<1>2. UNCHANGED <<last, kind, Executed, RepliesNum, Asked, ServerPosition, ClientPosition, Intact>>
  BY <1>1 DEF last, kind, Executed, RepliesNum, Asked, ServerPosition, ClientPosition, Intact
<1>3. TypeOK' /\ Queues'
  BY <1>1 DEF IInv, TypeOK, Queues
<1>4. StreamInv'
  BY <1>1, <1>2 DEF IInv, StreamInv
<1>5. CallsInv'
  BY <1>1, <1>2 DEF IInv, CallsInv, PoolInv, ReplyingInv, RepliesInv, QueryInv, CallerInv
<1>6. ConnInv'
  BY <1>1, <1>2 DEF IInv, ConnInv, ResetInv, UnreportedReset, ReadyInv, PollingInv,
                    NoReadAfterFailedWrite, Works, Runs, Freed
<1> QED BY <1>3, <1>4, <1>5, <1>6 DEF IInv

LEMMA NextKeeps ==
  ASSUME IInv, [Next]_vars
  PROVE  IInv'
<1>1. ASSUME NEW k \in CallKinds, StartCall(k) PROVE IInv'
  BY <1>1, StartCallKeeps
<1>2. CASE Library
  BY <1>2, SendDataKeeps, SendCallKeeps, EndKeeps, HandlePacketKeeps, CallerStops
     DEF Library, LibraryGoesOn
<1>3. CASE AppExit
  BY <1>3, CallerStops
<1>4. CASE ServerMain
  BY <1>4, HandleDataKeeps, HandleCallKeeps, SendReplyKeeps, ServerHangupKeeps, EndKeeps
     DEF ServerMain
<1>5. ASSUME NEW s \in Side, Receiver(s) PROVE IInv'
  <2>1. CASE PollNval(s)
    BY <2>1, Stutters DEF PollNval
  <2>2. CASE ReadPacket(s)
    BY <2>2, ReadPacketKeeps
  <2>3. CASE ReadFreed(s)
    <3>1. CASE Die(s) /\ UNCHANGED recvVars
      <4>1. ~gone[s] /\ UNCHANGED <<clientVars, serverVars, faultVars>>
        BY <2>3 DEF ReadFreed, Runs
      <4>2. broken' \in BOOLEAN /\ netreset' \in BOOLEAN
        BY <4>1 DEF faultVars, IInv, TypeOK
      <4> QED BY <3>1, <4>1, <4>2, DieKeeps
    <3>2. CASE SurvivesFreed(s)
      BY <3>2, ReceiverGoesOn
    <3> QED BY <2>3, <3>1, <3>2 DEF ReadFreed, SurvivesFreed
  <2> QED BY <1>5, <2>1, <2>2, <2>3, ReceiverGoesOn DEF Receiver
<1>6. ASSUME NEW s \in Side, RstArrives(s) \/ Kill(s) PROVE IInv'
  BY <1>6, RstArrivesKeeps, KillKeeps
<1>7. CASE NetReset
  BY <1>7, NetResetKeeps
<1>8. CASE Terminated \/ UNCHANGED vars
  BY <1>8, Stutters DEF Terminated
<1> QED BY <1>1, <1>2, <1>3, <1>4, <1>5, <1>6, <1>7, <1>8 DEF Next

LEMMA IInvAlways == SafeSpec => []IInv
<1>1. IInv /\ [Next]_vars => IInv'
  BY NextKeeps
<1> QED BY <1>1, InitOK, PTL DEF SafeSpec

(***************************************************************************)
(* The state of both programs and of their connection stays well-formed:   *)
(* no ring and no socket ever holds more than it can, for any number of    *)
(* calls, any room and every fault.                                        *)
(***************************************************************************)
THEOREM TypeCorrect == Spec => []TypeOK
<1>1. IInv => TypeOK
  BY DEF IInv
<1> QED BY <1>1, IInvAlways, PTL DEF Spec

(***************************************************************************)
(* No failed write (send_packet, glse_cmd_send_data) ever closes the       *)
(* connection under a receiver thread that was told of data: a write only  *)
(* fails before the reset was reported, and then the reader that has seen  *)
(* POLLIN has a packet to read, which a side that still writes cannot have *)
(* left unread.  It holds until the client's gls_cleanup_library, whose    *)
(* close may well meet such a thread.                                      *)
(***************************************************************************)
THEOREM FailedWritesAreSafe == Spec => []NoReadAfterFailedWrite
<1>1. IInv => NoReadAfterFailedWrite
  BY DEF IInv, ConnInv
<1> QED BY <1>1, IInvAlways, PTL DEF Spec

(***************************************************************************)
(* glse_cmd_send_data neither blocks nor raises SIGPIPE: there is never a  *)
(* second reply under way, and a reset that a write would not report is    *)
(* one that an earlier reply to the dead client has called for.            *)
(***************************************************************************)
THEOREM RepliesNeverBlock == Spec => []ReplyNeverBlocks
<1>1. ASSUME IInv
      PROVE  ReplyNeverBlocks
  <2> SUFFICES ASSUME smain = "reply", ~gone["server"]
               PROVE  WriteAccepted("server") \/ WriteFails("server")
    BY DEF ReplyNeverBlocks
  <2>1. RepliesNum = 0 /\ ~UnreportedReset
    BY <1>1 DEF IInv, CallsInv, ConnInv, ReplyingInv, ResetInv
  <2>2. wire["client"] = <<>>
    <3>1. AreQueues(ring) /\ AreQueues(wire)
      BY <1>1, StateParts DEF IInv
    <3>2. ring["client"] \in Seq(CallNumber) /\ wire["client"] \in Seq(CallNumber)
      BY <3>1, AreQueuesParts
    <3>3. Num(ring["client"], wire["client"]) = 0
      BY <2>1 DEF RepliesNum
    <3> QED BY <3>2, <3>3, NumParts
  <2>3. Len(wire["client"]) < SockSize
    BY <2>2, SessionAssumption
  <2> QED BY <2>1, <2>3, SideFacts DEF WriteAccepted, WriteFails, UnreportedReset
<1> QED BY <1>1, IInvAlways, PTL DEF Spec

-----------------------------------------------------------------------------
(* The session implements RemoteCalls.                                     *)

LEMMA InitRefines == Init => Abstract!Init
<1> SUFFICES ASSUME Init
             PROVE  Abstract!Init
  OBVIOUS
<1>1. gone["client"] = FALSE
  BY SideFacts DEF Init
<1>2. Caller = "running"
  BY <1>1 DEF Init, Caller
<1> QED BY <1>2 DEF Init, Abstract!Init

(***************************************************************************)
(* A step that neither makes nor executes nor returns a call leaves the    *)
(* caller as it is or ends it.                                             *)
(***************************************************************************)
LEMMA QuietStep ==
  ASSUME UNCHANGED <<calls, executed, returned>>, Caller' = Caller \/ Caller' = "ended"
  PROVE  [Abstract!Next]_(Abstract!vars)
BY DEF Abstract!Next, Abstract!End, Abstract!vars

LEMMA UnchangedCaller ==
  ASSUME UNCHANGED <<calls, cpc>>, gone'["client"] = gone["client"] \/ gone'["client"]
  PROVE  Caller' = Caller \/ Caller' = "ended"
BY DEF Caller, kind, last

LEMMA DieIsQuiet ==
  ASSUME IInv, NEW s \in Side, Die(s), UNCHANGED <<clientVars, serverVars>>
  PROVE  [Abstract!Next]_(Abstract!vars)
<1>1. gone' = Put(gone, s, TRUE) /\ gone \in [Side -> BOOLEAN]
  BY DEF Die, IInv, TypeOK
<1>2. gone'["client"] = gone["client"] \/ gone'["client"]
  BY <1>1, SideFacts DEF Put
<1>3. UNCHANGED <<calls, executed, returned, cpc>>
  BY DEF clientVars, serverVars
<1> QED BY <1>2, <1>3, UnchangedCaller, QuietStep

LEMMA StartCallIsCall ==
  ASSUME IInv, NEW k \in CallKinds, StartCall(k)
  PROVE  Abstract!Call(k)
<1>1. /\ ~gone["client"] /\ gone' = gone /\ cpc = "idle" /\ calls' = Append(calls, k)
      /\ cpc' = IF k = "data" THEN "data" ELSE "send"
      /\ UNCHANGED <<executed, returned>>
  BY DEF StartCall, netVars, serverVars
<1>2. kind' = k
  BY <1>1, CallsExtended DEF kind, last, IInv
<1>3. Caller = "running"
  BY <1>1 DEF Caller
<1>4. Caller' = IF k = "query" THEN "waiting" ELSE "running"
  BY <1>1, <1>2 DEF Caller
<1> QED BY <1>1, <1>3, <1>4 DEF Abstract!Call

LEMMA HandleCallIsExecute ==
  ASSUME IInv, HandleCall
  PROVE  Abstract!Execute
<1>1. /\ executed' = Append(executed,
                       [n |-> Executed + 1,
                        input |-> IF calls[Executed + 1] = "data" THEN Executed + 1 ELSE 0])
      /\ Executed + 1 \in 1 .. last /\ Executed \in Nat
  BY HandleCallEffect
<1>2. last \in Nat
  BY StateParts DEF IInv
<1>3. Len(executed) < Len(calls)
  BY <1>1, <1>2 DEF Executed, last
<1>4. UNCHANGED <<calls, returned, cpc, gone>>
  BY DEF HandleCall, clientVars, netVars
<1>5. Caller' = Caller
  BY <1>4 DEF Caller, kind, last
<1> QED BY <1>1, <1>3, <1>4, <1>5 DEF Abstract!Execute, Executed

LEMMA HandlePacketIsReturn ==
  ASSUME IInv, HandlePacket
  PROVE  Abstract!Return
<1>1. /\ ~gone["client"] /\ cpc = "wait" /\ ring["client"] # <<>> /\ cpc' = "idle"
      /\ returned' = Append(returned, Head(ring["client"]))
      /\ UNCHANGED <<calls, executed, gone>>
  BY DEF HandlePacket, serverVars, netVars
<1>2. Head(ring["client"]) = last /\ Executed = last
  BY <1>1, ReplyIsDue
<1>3. kind = "query"
  BY <1>1 DEF IInv, CallsInv, CallerInv
<1>4. Caller = "waiting" /\ Caller' = "running"
  BY <1>1, <1>3 DEF Caller
<1> QED BY <1>1, <1>2, <1>4 DEF Abstract!Return, Executed, last

LEMMA StepRefines ==
  ASSUME IInv, [Next]_vars
  PROVE  [Abstract!Next]_(Abstract!vars)
<1>1. ASSUME NEW k \in CallKinds, StartCall(k)
      PROVE  [Abstract!Next]_(Abstract!vars)
  <2>1. k \in Abstract!CallKinds
    BY DEF CallKinds, Abstract!CallKinds
  <2> QED BY <1>1, <2>1, StartCallIsCall DEF Abstract!Next
<1>2. CASE HandleCall
  BY <1>2, HandleCallIsExecute DEF Abstract!Next
<1>3. CASE HandlePacket
  BY <1>3, HandlePacketIsReturn DEF Abstract!Next
<1>4. CASE SendData
  <2>1. /\ cpc = "data" /\ cpc' = "send"
        /\ UNCHANGED <<calls, executed, returned>> /\ gone' = gone
    BY <1>4 DEF SendData, serverVars, Transmit, CloseAfterFailure
  <2>2. kind = "data" /\ kind' = "data"
    BY <2>1 DEF IInv, CallsInv, CallerInv, kind, last
  <2>3. Caller' = Caller
    BY <2>1, <2>2 DEF Caller
  <2> QED BY <2>1, <2>3, QuietStep
<1>5. CASE SendCall
  <2>1. /\ cpc = "send" /\ cpc' \in {"exiting", IF kind = "query" THEN "wait" ELSE "idle"}
        /\ UNCHANGED <<calls, executed, returned, kind>> /\ gone' = gone
    BY <1>5 DEF SendCall, AfterSend, serverVars, Transmit, CloseAfterFailure, kind, last
  <2>2. Caller' = Caller \/ Caller' = "ended"
    BY <2>1 DEF Caller
  <2> QED BY <2>1, <2>2, QuietStep
<1>6. CASE ClientSigpipe \/ ExitProcess \/ JoinAndExit
  <2>1. PICK s \in Side : Die(s) /\ UNCHANGED <<clientVars, serverVars>>
    BY <1>6, SideFacts DEF ClientSigpipe, ExitProcess, JoinAndExit
  <2> QED BY <2>1, DieIsQuiet
<1>7. ASSUME NEW s \in Side, Kill(s)
      PROVE  [Abstract!Next]_(Abstract!vars)
  BY <1>7, DieIsQuiet DEF Kill
<1>8. CASE WaitHangup \/ TimeOut \/ Cleanup \/ AppExit
  <2>1. cpc' \in {"exiting", "cleaned"} /\ UNCHANGED <<calls, executed, returned>>
    BY <1>8 DEF WaitHangup, TimeOut, Cleanup, AppExit, serverVars
  <2>2. Caller' = "ended"
    BY <2>1 DEF Caller
  <2> QED BY <2>1, <2>2, QuietStep
<1>9. CASE HandleData \/ SendReply \/ ServerHangup \/ NetReset \/ Terminated \/ UNCHANGED vars
  <2>1. UNCHANGED <<calls, executed, returned, cpc, gone>>
    BY <1>9 DEF HandleData, SendReply, ServerHangup, NetReset, Terminated, Transmit,
                CloseAfterFailure, vars, clientVars, serverVars, netVars
  <2> QED BY <2>1, UnchangedCaller, QuietStep
<1>10. ASSUME NEW s \in Side, Receiver(s) \/ RstArrives(s)
       PROVE  [Abstract!Next]_(Abstract!vars)
  <2>1. CASE ReadFreed(s)
    <3>1. UNCHANGED <<clientVars, serverVars>> /\ (UNCHANGED netVars \/ Die(s))
      BY <2>1 DEF ReadFreed
    <3>2. UNCHANGED <<calls, executed, returned, cpc>>
      BY <3>1 DEF clientVars, serverVars
    <3>3. CASE UNCHANGED netVars
      BY <3>2, <3>3, UnchangedCaller, QuietStep DEF netVars
    <3>4. CASE Die(s)
      BY <3>1, <3>4, DieIsQuiet
    <3> QED BY <3>1, <3>3, <3>4
  <2>2. CASE UNCHANGED <<calls, executed, returned, cpc, gone>>
    BY <2>2, UnchangedCaller, QuietStep
  <2>3. ReadFreed(s) \/ UNCHANGED <<calls, executed, returned, cpc, gone>>
    BY <1>10 DEF Receiver, EnterPoll, PollNval, PollHup, PollIn, SleepOnFullRing, ReadPacket,
                 ReadEof, CloseRing, RstArrives, vars, clientVars, serverVars, netVars
  <2> QED BY <2>1, <2>2, <2>3
<1> QED BY <1>1, <1>2, <1>3, <1>4, <1>5, <1>6, <1>7, <1>8, <1>9, <1>10
        DEF Next, Library, LibraryGoesOn, ServerMain

(***************************************************************************)
(* Whatever fails and whenever, for any number of calls and any room: the  *)
(* server executes a prefix of the application's calls, in their order and *)
(* each on its own data, and wait_for_data only returns the reply that     *)
(* belongs to the call that waits (send_packet, gls_cmd_send_data,         *)
(* wait_for_data, glserver_handle_packets, glse_cmd_send_data).            *)
(***************************************************************************)
THEOREM SessionImplementsRemoteCalls == Spec => RefinesRemoteCalls
<1>1. IInv /\ [Next]_vars => [Abstract!Next]_(Abstract!vars)
  BY StepRefines
<1> QED BY <1>1, InitRefines, IInvAlways, PTL DEF Spec, SafeSpec, RefinesRemoteCalls, Abstract!Spec
=============================================================================
