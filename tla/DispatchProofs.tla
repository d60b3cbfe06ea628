---------------------------- MODULE DispatchProofs ----------------------------
(***************************************************************************)
(* Proofs about module Dispatch, for applications that make any number of  *)
(* any of the calls: a call is executed on its own data, a large buffer is *)
(* freed by the call it was sent for, a call returns its own reply, and    *)
(* where nothing is lost every call is executed, in order, and answered.   *)
(***************************************************************************)
EXTENDS Dispatch, SequenceTheorems, TLAPS

-----------------------------------------------------------------------------
(* The tables of the two sides against each other.                         *)

(***************************************************************************)
(* Calls of the client's that the server has no handler for.               *)
(***************************************************************************)
Unanswered == {"eglBindTexImage", "eglReleaseTexImage", "eglSurfaceAttrib"}

LEMMA SameData ==
  /\ SendsAttribs = UsesAttribs /\ SendsPayload = UsesPayload
  /\ SendsVertexAttrib = UsesVertexAttrib
BY DEF SendsAttribs, UsesAttribs, SendsPayload, UsesPayload, SendsVertexAttrib, UsesVertexAttrib

LEMMA DataKinds ==
  ASSUME NEW op, NEW size \in DataSizes(op)
  PROVE  /\ size \in Sizes
         /\ op \in UsesAlways => size # "none"
         /\ size # "none" => op \in ServerUses
         /\ size = "large" => op \in UsesPayload \cup {"glDeleteBuffers", "glShaderSource"}
<1>1. CASE op \in SendsAttribs
  <2>3. op \notin SendsPayload \cup SendsVertexAttrib /\ op \notin {"glDeleteBuffers", "glShaderSource"}
    BY <1>1 DEF SendsAttribs, SendsPayload, SendsVertexAttrib
  <2>1. size \in {"none", "small"}
    BY <1>1, <2>3 DEF DataSizes
  <2>2. op \notin UsesAlways
    BY <1>1 DEF SendsAttribs, UsesAlways, UsesVertexAttrib
  <2> QED BY <1>1, <2>1, <2>2, SameData DEF ServerUses, Sizes
<1>2. CASE op \in SendsPayload
  <2>3. op \notin SendsAttribs \cup SendsVertexAttrib /\ op \notin {"glDeleteBuffers", "glShaderSource"}
    BY <1>2 DEF SendsAttribs, SendsPayload, SendsVertexAttrib
  <2>1. size \in {"none", "small", "large"}
    BY <1>2, <2>3 DEF DataSizes
  <2>2. op \notin UsesAlways
    BY <1>2 DEF SendsPayload, UsesAlways, UsesVertexAttrib
  <2> QED BY <1>2, <2>1, <2>2, SameData DEF ServerUses, Sizes
<1>3. CASE op = "glDeleteBuffers"
  <2>3. op \notin UNION {SendsAttribs, SendsPayload, SendsVertexAttrib} /\ op # "glShaderSource"
    BY <1>3 DEF SendsAttribs, SendsPayload, SendsVertexAttrib
  <2>1. size \in {"small", "large"}
    BY <1>3, <2>3 DEF DataSizes
  <2> QED BY <1>3, <2>1 DEF ServerUses, UsesAlways, Sizes
<1>4. CASE op = "glShaderSource"
  <2>3. op \notin UNION {SendsAttribs, SendsPayload, SendsVertexAttrib} /\ op # "glDeleteBuffers"
    BY <1>4 DEF SendsAttribs, SendsPayload, SendsVertexAttrib
  <2>1. size = "large"
    BY <1>4, <2>3 DEF DataSizes
  <2> QED BY <1>4, <2>1 DEF ServerUses, UsesAlways, Sizes
<1>5. CASE op \in SendsVertexAttrib
  <2>1. op \notin SendsAttribs \cup SendsPayload /\ op \notin {"glDeleteBuffers", "glShaderSource"}
    BY <1>5 DEF SendsAttribs, SendsPayload, SendsVertexAttrib
  <2>2. size = "small"
    BY <1>5, <2>1 DEF DataSizes
  <2> QED BY <1>5, <2>2, SameData DEF ServerUses, UsesAlways, Sizes
<1>6. CASE op \notin UNION {SendsAttribs, SendsPayload, SendsVertexAttrib,
                             {"glDeleteBuffers", "glShaderSource"}}
  <2>1. size = "none"
    BY <1>6 DEF DataSizes
  <2>2. op \notin UsesAlways
    BY <1>6, SameData DEF UsesAlways
  <2> QED BY <2>1, <2>2 DEF Sizes
<1> QED BY <1>1, <1>2, <1>3, <1>4, <1>5, <1>6

LEMMA LargeData ==
  ASSUME NEW op, "large" \in DataSizes(op)
  PROVE  op \in ServerReleases /\ op \notin MayAbandon
<1>1. op \in UsesPayload \cup {"glDeleteBuffers", "glShaderSource"}
  BY DataKinds
<1>2. op \in ServerUses /\ op \notin {"eglGetPlatformDisplay", "eglGetPlatformDisplayEXT"}
  BY <1>1 DEF ServerUses, UsesAlways, UsesPayload
<1>3. op \notin MayAbandon
  BY <1>1 DEF UsesPayload, MayAbandon, SendsUniformVector
<1> QED BY <1>2, <1>3 DEF ServerReleases

LEMMA Handled ==
  ServerUses \subseteq ServerHandles /\ ServerReplies \subseteq ServerHandles
BY DEF ServerHandles, ServerReplies

LEMMA DataIsNoCall == "SEND_DATA" \notin ClientCalls /\ "none" \notin ClientCalls
<1>1. /\ {"SEND_DATA", "none"} \cap SendsState = {} /\ {"SEND_DATA", "none"} \cap SendsClear = {}
      /\ {"SEND_DATA", "none"} \cap SendsDelete = {} /\ {"SEND_DATA", "none"} \cap SendsDraw = {}
      /\ {"SEND_DATA", "none"} \cap SendsSetting = {} /\ {"SEND_DATA", "none"} \cap SendsStencil = {}
      /\ {"SEND_DATA", "none"} \cap SendsUniform = {} /\ {"SEND_DATA", "none"} \cap SendsView = {}
      /\ {"SEND_DATA", "none"} \cap SendsUniformVector = {}
  BY DEF SendsState, SendsClear, SendsDelete, SendsDraw, SendsSetting, SendsStencil,
         SendsUniform, SendsUniformVector, SendsView
<1>2. {"SEND_DATA", "none"} \cap SendsOnly = {}
  BY <1>1 DEF SendsOnly
<1>3. /\ {"SEND_DATA", "none"} \cap SendsAttribs = {} /\ {"SEND_DATA", "none"} \cap EglWaits = {}
      /\ {"SEND_DATA", "none"} \cap EglQueryWaits = {} /\ {"SEND_DATA", "none"} \cap EglLaterWaits = {}
      /\ {"SEND_DATA", "none"} \cap CreateWaits = {} /\ {"SEND_DATA", "none"} \cap Generates = {}
      /\ {"SEND_DATA", "none"} \cap GetWaits = {} /\ {"SEND_DATA", "none"} \cap GetTextWaits = {}
      /\ {"SEND_DATA", "none"} \cap IsWaits = {}
  BY DEF SendsAttribs, EglWaits, EglQueryWaits, EglLaterWaits, CreateWaits, Generates,
         GetWaits, GetTextWaits, IsWaits
<1>4. {"SEND_DATA", "none"} \cap ClientWaits = {}
  BY <1>3 DEF ClientWaits
<1>5. {"SEND_DATA", "none"} \cap SendsPayload = {} /\ {"SEND_DATA", "none"} \cap SendsVertexAttrib = {}
  BY DEF SendsPayload, SendsVertexAttrib
<1> QED BY <1>2, <1>4, <1>5 DEF ClientCalls

(***************************************************************************)
(* The calls that wait are those that are answered, but for three.         *)
(***************************************************************************)
LEMMA WaitsAreAnswered ==
  /\ ServerReplies \subseteq ClientWaits
  /\ ClientWaits \ Unanswered \subseteq ServerReplies
<1>1. SendsAttribs = UsesAttribs /\ EglWaits = EglReplies /\ CreateWaits = CreateReplies
      /\ Generates = GeneratesReplies
  BY DEF SendsAttribs, UsesAttribs, EglWaits, EglReplies, CreateWaits, CreateReplies,
         Generates, GeneratesReplies
<1>2. EglQueryReplies \subseteq EglQueryWaits \cup EglLaterWaits
  BY DEF EglQueryReplies, EglQueryWaits, EglLaterWaits
<1>3. (EglQueryWaits \cup EglLaterWaits) \ Unanswered \subseteq EglQueryReplies
  BY DEF EglQueryReplies, EglQueryWaits, EglLaterWaits, Unanswered
<1>4. GetReplies \cup LateReplies \subseteq GetWaits \cup GetTextWaits \cup IsWaits
  BY DEF GetReplies, LateReplies, GetWaits, GetTextWaits, IsWaits
<1>5. GetWaits \cup GetTextWaits \cup IsWaits \subseteq GetReplies \cup LateReplies
  BY DEF GetReplies, LateReplies, GetWaits, GetTextWaits, IsWaits
<1>6. ASSUME NEW op \in ServerReplies
      PROVE  op \in ClientWaits
  BY <1>1, <1>2, <1>4 DEF ServerReplies, AllReplies, ClientWaits
<1>7. ASSUME NEW op \in ClientWaits, op \notin Unanswered
      PROVE  op \in ServerReplies
  <2>1. CASE op \in EglQueryWaits \cup EglLaterWaits
    BY <1>3, <1>7, <2>1 DEF ServerReplies, AllReplies
  <2>2. CASE op \in GetWaits \cup GetTextWaits \cup IsWaits
    BY <1>5, <2>2 DEF ServerReplies, AllReplies
  <2>3. CASE op \in UNION {SendsAttribs, EglWaits, CreateWaits, Generates, {"HANDSHAKE"}}
    BY <1>1, <2>3 DEF ServerReplies, AllReplies
  <2> QED BY <2>1, <2>2, <2>3 DEF ClientWaits
<1> QED BY <1>6, <1>7

LEMMA CallsAreHandled == ClientCalls \ Unanswered \subseteq ServerHandles
<1>1. SendsState = HandlesState /\ SendsClear = HandlesClear
  BY DEF SendsState, HandlesState, SendsClear, HandlesClear
<1>2. SendsDelete = HandlesDelete /\ SendsDraw = HandlesDraw
  BY DEF SendsDelete, HandlesDelete, SendsDraw, HandlesDraw
<1>3. SendsSetting = HandlesSetting /\ SendsStencil = HandlesStencil /\ SendsView = HandlesView
  BY DEF SendsSetting, HandlesSetting, SendsStencil, HandlesStencil, SendsView, HandlesView
<1>4. SendsUniform \cup SendsUniformVector = HandlesUniform
  BY DEF SendsUniform, SendsUniformVector, HandlesUniform
<1>5. SendsOnly \subseteq ServerHandles
  BY <1>1, <1>2, <1>3, <1>4 DEF SendsOnly, ServerHandles
<1>6. ClientWaits \ Unanswered \subseteq ServerHandles
  BY WaitsAreAnswered, Handled
<1>7. UNION {SendsPayload, SendsVertexAttrib, {"glDeleteBuffers", "glShaderSource"}} \subseteq ServerHandles
  BY SameData, Handled DEF ServerUses, UsesAlways
<1> QED BY <1>5, <1>6, <1>7 DEF ClientCalls

-----------------------------------------------------------------------------
(* The inductive invariant.                                                *)

(***************************************************************************)
(* What the server has still to take: the packets on their way, and the    *)
(* packet of the call whose data, if any, is already sent.                 *)
(***************************************************************************)
CallPacket == [cmd |-> call.op, n |-> ncalls, size |-> call.size]
Upcoming == IF cpc = "call" THEN Append(toServer, CallPacket) ELSE toServer

IsData(p) == p.cmd = "SEND_DATA"
Takes(p) == ~IsData(p) /\ p.size # "none"

(***************************************************************************)
(* A call that takes data follows its data at once, a large one is always  *)
(* followed by its call, and calls come in the order they were made.       *)
(***************************************************************************)
Legal(p) ==
  /\ IsData(p) => p.size # "none"
  /\ ~IsData(p) => p.cmd \in ClientCalls /\ p.size \in DataSizes(p.cmd)
DataOf(p) == [cmd |-> "SEND_DATA", n |-> p.n, size |-> p.size]
Stream(ps) ==
  /\ \A i \in 1 .. Len(ps) : Legal(ps[i])
  /\ \A i \in 1 .. Len(ps) : i > 1 /\ Takes(ps[i]) => ps[i - 1] = DataOf(ps[i])
  /\ \A i \in 1 .. Len(ps) :
       IsData(ps[i]) /\ ps[i].size = "large" =>
         i < Len(ps) /\ ~IsData(ps[i + 1]) /\ ps[i + 1].size = "large"
Ascending(ps) ==
  \A i, j \in 1 .. Len(ps) : i < j /\ ~IsData(ps[i]) /\ ~IsData(ps[j]) => ps[i].n < ps[j].n

(***************************************************************************)
(* The call the client is in.                                              *)
(***************************************************************************)
ClientInv ==
  /\ cpc # "idle" => call.op \in app.calls /\ call.size \in DataSizes(call.op) /\ ncalls > 0
  /\ cpc = "data" => call.size # "none"
  /\ \A i \in 1 .. Len(toServer) : toServer[i].n <= ncalls
  /\ cpc = "data" =>
       \A i \in 1 .. Len(toServer) : ~IsData(toServer[i]) => toServer[i].n < ncalls

StreamInv == Stream(Upcoming) /\ Ascending(Upcoming)

(***************************************************************************)
(* The server's pool against the next packet: the data of the call that is *)
(* next is held, and no large buffer is held for any other.                *)
(***************************************************************************)
PoolInv ==
  /\ spool.buf # Nothing =>
       /\ spool.has_data
       /\ \/ Len(Upcoming) > 0 /\ ~IsData(Upcoming[1]) /\ Upcoming[1].size = "large"
          \/ cpc = "exited" /\ Len(toServer) = 0
  /\ ~app.lossy /\ Len(Upcoming) > 0 =>
       (Takes(Upcoming[1]) => spool.has_data /\ Payload = Data(Upcoming[1].n))

(***************************************************************************)
(* One reply at most is due, to the call the client waits in: from the     *)
(* last packet the server has to execute, or on its way.                   *)
(***************************************************************************)
ReplyInv ==
  /\ \A i \in 1 .. Len(toServer) :
       toServer[i].cmd \in ServerReplies =>
         /\ i = Len(toServer) /\ Len(toClient) = 0
         /\ toServer[i].n = ncalls /\ toServer[i].cmd = call.op
         /\ cpc \in {"wait", "exited"}
  /\ Len(toClient) > 0 =>
       /\ Len(toClient) = 1 /\ toClient[1].n = ncalls /\ toClient[1].cmd = call.op
       /\ cpc \in {"wait", "exited"}
  /\ app.calls \cap EarlyRet = {} =>
       (cpc = "use" => SeenThrough(retptr) = Reply(ncalls)) /\ OwnReply

(***************************************************************************)
(* Where nothing is lost or late and every call has its handler.           *)
(***************************************************************************)
Served == Undisturbed /\ app.calls \cap Unanswered = {}
WaitInv ==
  Served /\ cpc = "wait" =>
    \/ Len(toClient) > 0
    \/ Len(toServer) > 0 /\ toServer[Len(toServer)].cmd \in ServerReplies

SentInv ==
  /\ \A i, j \in 1 .. Len(sent) : i < j => sent[i] < sent[j]
  /\ \A i \in 1 .. Len(sent) : sent[i] <= ncalls
  /\ cpc \in {"data", "call"} => \A i \in 1 .. Len(sent) : sent[i] < ncalls
OrderInv ==
  Served => ExecutedInOrder /\ (cpc = "exited" => Len(toServer) = 0)

IInv ==
  /\ TypeOK /\ ClientInv /\ StreamInv /\ PoolInv /\ ReplyInv /\ WaitInv
  /\ OwnData /\ SentInv /\ OrderInv

-----------------------------------------------------------------------------
(* Streams of packets, and what takes them and adds to them.               *)

LEMMA Parts ==
  ASSUME NEW P, NEW ps \in Seq(P), ps # <<>>
  PROVE  /\ Len(ps) \in Nat /\ Len(ps) > 0 /\ Head(ps) = ps[1] /\ ps[1] \in P
         /\ Tail(ps) \in Seq(P) /\ Len(Tail(ps)) = Len(ps) - 1
         /\ \A i \in 1 .. Len(ps) - 1 : Tail(ps)[i] = ps[i + 1]
<1>1. Len(ps) \in Nat /\ Len(ps) > 0
  BY EmptySeq, LenProperties
<1>2. Tail(ps) \in Seq(P) /\ Len(Tail(ps)) = Len(ps) - 1 /\ Head(ps) \in P
  BY HeadTailProperties
<1>3. \A i \in 1 .. Len(Tail(ps)) : Tail(ps)[i] = ps[i + 1]
  BY HeadTailProperties
<1>4. Head(ps) = ps[1]
  OBVIOUS
<1> QED BY <1>1, <1>2, <1>3, <1>4

LEMMA Appended ==
  ASSUME NEW P, NEW ps \in Seq(P), NEW p \in P
  PROVE  /\ Append(ps, p) \in Seq(P) /\ Len(ps) \in Nat /\ Len(Append(ps, p)) = Len(ps) + 1
         /\ \A i \in 1 .. Len(ps) : Append(ps, p)[i] = ps[i]
         /\ Append(ps, p)[Len(ps) + 1] = p
BY AppendProperties, LenProperties

LEMMA TailOfAppended ==
  ASSUME NEW P, NEW ps \in Seq(P), NEW p \in P, ps # <<>>
  PROVE  /\ Append(ps, p) # <<>> /\ Append(ps, p)[1] = ps[1]
         /\ Tail(Append(ps, p)) = Append(Tail(ps), p)
<1> DEFINE a == Append(ps, p)  t == Tail(ps)  b == Append(t, p)  ta == Tail(a)
<1>1. /\ a \in Seq(P) /\ Len(a) = Len(ps) + 1
      /\ \A i \in 1 .. Len(ps) : a[i] = ps[i]
      /\ a[Len(ps) + 1] = p
  BY Appended
<1>2. /\ Len(ps) \in Nat /\ Len(ps) > 0 /\ t \in Seq(P) /\ Len(t) = Len(ps) - 1
      /\ \A i \in 1 .. Len(ps) - 1 : t[i] = ps[i + 1]
  BY Parts
<1>3. a # <<>>
  BY <1>1, <1>2, EmptySeq
<1> HIDE DEF a, t
<1>4. /\ ta \in Seq(P) /\ Len(ta) = Len(a) - 1
      /\ \A i \in 1 .. Len(a) - 1 : ta[i] = a[i + 1]
  BY <1>1, <1>3, Parts
<1>5. /\ b \in Seq(P) /\ Len(b) = Len(t) + 1
      /\ \A i \in 1 .. Len(t) : b[i] = t[i]
      /\ b[Len(t) + 1] = p
  BY <1>2, Appended
<1> HIDE DEF ta, b
<1>6. Len(ta) = Len(b) /\ Len(ta) = Len(ps)
  BY <1>1, <1>2, <1>4, <1>5
<1>7. ASSUME NEW i \in 1 .. Len(ta)
      PROVE  ta[i] = b[i]
  <2>1. CASE i = Len(ps)
    BY <2>1, <1>1, <1>2, <1>4, <1>5, <1>6
  <2>2. CASE i < Len(ps)
    <3>1. i \in 1 .. Len(ps) - 1 /\ i \in 1 .. Len(t) /\ i + 1 \in 1 .. Len(ps) /\ i \in 1 .. Len(a) - 1
      BY <2>2, <1>1, <1>2, <1>6
    <3> QED BY <3>1, <1>1, <1>2, <1>4, <1>5
  <2> QED BY <2>1, <2>2, <1>2, <1>6
<1>8. ta = b
  BY <1>4, <1>5, <1>6, <1>7, SeqEqual
<1>9. a[1] = ps[1]
  BY <1>1, <1>2
<1> QED BY <1>3, <1>8, <1>9 DEF a, ta, b, t

LEMMA TailOfStream ==
  ASSUME NEW P, NEW ps \in Seq(P), ps # <<>>, Stream(ps), Ascending(ps)
  PROVE  Stream(Tail(ps)) /\ Ascending(Tail(ps))
<1> DEFINE t == Tail(ps)
<1>1. /\ Len(ps) \in Nat /\ Len(ps) > 0 /\ Len(t) = Len(ps) - 1
      /\ \A i \in 1 .. Len(ps) - 1 : t[i] = ps[i + 1]
  BY Parts
<1> HIDE DEF t
<1>2. \A i \in 1 .. Len(t) : i + 1 \in 1 .. Len(ps) /\ t[i] = ps[i + 1] /\ i \in Nat
  BY <1>1
<1>3. \A i \in 1 .. Len(t) : Legal(t[i])
  BY <1>2 DEF Stream
<1>4. ASSUME NEW i \in 1 .. Len(t), i > 1, Takes(t[i])
      PROVE  t[i - 1] = DataOf(t[i])
  <2>1. i - 1 \in 1 .. Len(t) /\ (i - 1) + 1 = i /\ (i + 1) - 1 = i /\ i + 1 > 1
    BY <1>4, <1>1
  <2>2. ps[(i + 1) - 1] = DataOf(ps[i + 1])
    BY <2>1, <1>2, <1>4 DEF Stream
  <2> QED BY <2>1, <2>2, <1>2
<1>5. ASSUME NEW i \in 1 .. Len(t), IsData(t[i]), t[i].size = "large"
      PROVE  i < Len(t) /\ ~IsData(t[i + 1]) /\ t[i + 1].size = "large"
  <2>1. i + 1 < Len(ps) /\ ~IsData(ps[(i + 1) + 1]) /\ ps[(i + 1) + 1].size = "large"
    BY <1>2, <1>5 DEF Stream
  <2>2. i + 1 \in 1 .. Len(t)
    BY <2>1, <1>1
  <2> QED BY <2>1, <2>2, <1>1, <1>2
<1>6. Stream(t)
  BY <1>3, <1>4, <1>5 DEF Stream
<1>7. Ascending(t)
  <2>1. \A i, j \in 1 .. Len(t) : i < j => i + 1 < j + 1
    BY <1>1
  <2> QED BY <2>1, <1>2 DEF Ascending
<1> QED BY <1>6, <1>7 DEF t

LEMMA CallAppended ==
  ASSUME NEW P, NEW ps \in Seq(P), NEW p \in P, Stream(ps), Ascending(ps),
         ~IsData(p), p.size = "none", Legal(p),
         \A i \in 1 .. Len(ps) : ~IsData(ps[i]) => ps[i].n < p.n
  PROVE  Stream(Append(ps, p)) /\ Ascending(Append(ps, p))
<1> DEFINE a == Append(ps, p)
<1>1. /\ Len(ps) \in Nat /\ Len(a) = Len(ps) + 1
      /\ \A i \in 1 .. Len(ps) : a[i] = ps[i]
      /\ a[Len(ps) + 1] = p
  BY Appended
<1> HIDE DEF a
<1>2. ASSUME NEW i \in 1 .. Len(a), i # Len(ps) + 1
      PROVE  i \in 1 .. Len(ps) /\ a[i] = ps[i] /\ (i > 1 => a[i - 1] = ps[i - 1])
  BY <1>1, <1>2
<1>3. \A i \in 1 .. Len(a) : Legal(a[i])
  BY <1>1, <1>2 DEF Stream
<1>4. ~Takes(p)
  BY DEF Takes
<1>5. \A i \in 1 .. Len(a) : i > 1 /\ Takes(a[i]) => a[i - 1] = DataOf(a[i])
  BY <1>1, <1>2, <1>4 DEF Stream
<1>6. ASSUME NEW i \in 1 .. Len(a), IsData(a[i]), a[i].size = "large"
      PROVE  i < Len(a) /\ ~IsData(a[i + 1]) /\ a[i + 1].size = "large"
  <2>1. i \in 1 .. Len(ps) /\ a[i] = ps[i]
    BY <1>1, <1>2, <1>6
  <2>2. i < Len(ps) /\ ~IsData(ps[i + 1]) /\ ps[i + 1].size = "large"
    BY <2>1, <1>6 DEF Stream
  <2> QED BY <2>1, <2>2, <1>1
<1>7. Stream(a)
  BY <1>3, <1>5, <1>6 DEF Stream
<1>8. ASSUME NEW i \in 1 .. Len(a), NEW j \in 1 .. Len(a), i < j, ~IsData(a[i]), ~IsData(a[j])
      PROVE  a[i].n < a[j].n
  <2>1. i \in 1 .. Len(ps) /\ a[i] = ps[i]
    BY <1>1, <1>8
  <2>2. CASE j = Len(ps) + 1
    BY <2>1, <2>2, <1>1, <1>8
  <2>3. CASE j # Len(ps) + 1
    BY <2>1, <2>3, <1>2, <1>8 DEF Ascending
  <2> QED BY <2>2, <2>3
<1> QED BY <1>7, <1>8 DEF Ascending, a

LEMMA PairAppended ==
  ASSUME NEW P, NEW ps \in Seq(P), NEW d \in P, NEW p \in P, Stream(ps), Ascending(ps),
         ~IsData(p), Legal(p), p.size # "none", d = DataOf(p),
         \A i \in 1 .. Len(ps) : ~IsData(ps[i]) => ps[i].n < p.n
  PROVE  Stream(Append(Append(ps, d), p)) /\ Ascending(Append(Append(ps, d), p))
<1> DEFINE b == Append(ps, d)  a == Append(b, p)
<1>1. /\ b \in Seq(P) /\ Len(ps) \in Nat /\ Len(b) = Len(ps) + 1
      /\ \A i \in 1 .. Len(ps) : b[i] = ps[i]
      /\ b[Len(ps) + 1] = d
  BY Appended
<1> HIDE DEF b
<1>2. /\ Len(a) = Len(b) + 1
      /\ \A i \in 1 .. Len(b) : a[i] = b[i]
      /\ a[Len(b) + 1] = p
  BY <1>1, Appended
<1> HIDE DEF a
<1>3. /\ Len(a) = Len(ps) + 2 /\ a[Len(ps) + 1] = d /\ a[Len(ps) + 2] = p
      /\ \A i \in 1 .. Len(ps) : a[i] = ps[i]
  BY <1>1, <1>2
<1>4. IsData(d) /\ d.size = p.size /\ Legal(d)
  BY DEF DataOf, IsData, Legal
<1>5. ASSUME NEW i \in 1 .. Len(a)
      PROVE  \/ i \in 1 .. Len(ps) /\ a[i] = ps[i] /\ (i > 1 => a[i - 1] = ps[i - 1])
             \/ i = Len(ps) + 1 /\ a[i] = d
             \/ i = Len(ps) + 2 /\ a[i] = p /\ a[i - 1] = d
  BY <1>1, <1>3
<1>6. \A i \in 1 .. Len(a) : Legal(a[i])
  BY <1>4, <1>5 DEF Stream
<1>7. ASSUME NEW i \in 1 .. Len(a), i > 1, Takes(a[i])
      PROVE  a[i - 1] = DataOf(a[i])
  BY <1>4, <1>5, <1>7 DEF Stream, Takes
<1>8. ASSUME NEW i \in 1 .. Len(a), IsData(a[i]), a[i].size = "large"
      PROVE  i < Len(a) /\ ~IsData(a[i + 1]) /\ a[i + 1].size = "large"
  <2>1. CASE i = Len(ps) + 1 /\ a[i] = d
    <3>1. i + 1 = Len(ps) + 2 /\ i < Len(a)
      BY <2>1, <1>1, <1>3
    <3> QED BY <2>1, <3>1, <1>3, <1>4, <1>8
  <2>2. CASE i \in 1 .. Len(ps) /\ a[i] = ps[i]
    <3>1. i < Len(ps) /\ ~IsData(ps[i + 1]) /\ ps[i + 1].size = "large"
      BY <2>2, <1>8 DEF Stream
    <3> QED BY <2>2, <3>1, <1>1, <1>3
  <2> QED BY <2>1, <2>2, <1>5, <1>8
<1>9. Stream(a)
  BY <1>6, <1>7, <1>8 DEF Stream
<1>10. ASSUME NEW i \in 1 .. Len(a), NEW j \in 1 .. Len(a), i < j, ~IsData(a[i]), ~IsData(a[j])
       PROVE  a[i].n < a[j].n
  <2>1. i \in 1 .. Len(ps) /\ a[i] = ps[i]
    BY <1>1, <1>3, <1>4, <1>10
  <2>2. CASE j = Len(ps) + 2
    BY <2>1, <2>2, <1>3, <1>10
  <2>3. CASE j \in 1 .. Len(ps)
    BY <2>1, <2>3, <1>3, <1>10 DEF Ascending
  <2> QED BY <2>2, <2>3, <1>4, <1>5, <1>10
<1> QED BY <1>9, <1>10 DEF Ascending, a, b

(***************************************************************************)
(* A call without large data may be given up.                              *)
(***************************************************************************)
LEMMA CallDropped ==
  ASSUME NEW P, NEW ps \in Seq(P), NEW p \in P, Stream(Append(ps, p)), Ascending(Append(ps, p)),
         p.size # "large"
  PROVE  Stream(ps) /\ Ascending(ps)
<1> DEFINE a == Append(ps, p)
<1>1. /\ Len(ps) \in Nat /\ Len(a) = Len(ps) + 1
      /\ \A i \in 1 .. Len(ps) : a[i] = ps[i]
      /\ a[Len(ps) + 1] = p
  BY Appended
<1>2. Stream(a) /\ Ascending(a)
  OBVIOUS
<1> HIDE DEF a
<1>3. \A i \in 1 .. Len(ps) : i \in 1 .. Len(a) /\ a[i] = ps[i] /\ (i > 1 => a[i - 1] = ps[i - 1])
  BY <1>1
<1>4. \A i \in 1 .. Len(ps) : Legal(ps[i])
  BY <1>2, <1>3 DEF Stream
<1>5. \A i \in 1 .. Len(ps) : i > 1 /\ Takes(ps[i]) => ps[i - 1] = DataOf(ps[i])
  BY <1>2, <1>3 DEF Stream
<1>6. ASSUME NEW i \in 1 .. Len(ps), IsData(ps[i]), ps[i].size = "large"
      PROVE  i < Len(ps) /\ ~IsData(ps[i + 1]) /\ ps[i + 1].size = "large"
  <2>1. i < Len(a) /\ ~IsData(a[i + 1]) /\ a[i + 1].size = "large"
    BY <1>2, <1>3, <1>6 DEF Stream
  <2>2. i # Len(ps)
    BY <2>1, <1>1
  <2> QED BY <2>1, <2>2, <1>1
<1>7. Ascending(ps)
  BY <1>2, <1>3 DEF Ascending
<1> QED BY <1>4, <1>5, <1>6, <1>7 DEF Stream

-----------------------------------------------------------------------------
(* The numbers of the calls on their way against those of the calls sent.  *)

Numbers(ps) == {ps[i].n : i \in {j \in DOMAIN ps : ps[j].cmd # "SEND_DATA"}}
Rest(s, k) == {s[i] : i \in k + 1 .. Len(s)}
Increasing(s) == \A i, j \in 1 .. Len(s) : i < j => s[i] < s[j]
InOrder(ex, s, ps) ==
  /\ Len(ex) <= Len(s)
  /\ \A i \in 1 .. Len(ex) : ex[i].n = s[i]
  /\ Numbers(ps) = Rest(s, Len(ex))

LEMMA OrderNow == ExecutedInOrder <=> (Undisturbed => InOrder(executed, sent, toServer))
BY DEF ExecutedInOrder, NumbersOnTheirWay, InOrder, Numbers, Rest

LEMMA OrderNext ==
  ExecutedInOrder' <=> (Undisturbed' => InOrder(executed', sent', toServer'))
BY DEF ExecutedInOrder, NumbersOnTheirWay, InOrder, Numbers, Rest

LEMMA InNumbers ==
  ASSUME NEW P, NEW ps \in Seq(P), NEW n
  PROVE  n \in Numbers(ps) <=> \E i \in 1 .. Len(ps) : ~IsData(ps[i]) /\ ps[i].n = n
<1>1. DOMAIN ps = 1 .. Len(ps)
  BY LenProperties
<1> QED BY <1>1 DEF Numbers, IsData

LEMMA InRest ==
  ASSUME NEW s, NEW k, NEW n
  PROVE  n \in Rest(s, k) <=> \E i \in k + 1 .. Len(s) : s[i] = n
BY DEF Rest

LEMMA NumbersAppended ==
  ASSUME NEW P, NEW ps \in Seq(P), NEW p \in P
  PROVE  Numbers(Append(ps, p)) = Numbers(ps) \cup (IF IsData(p) THEN {} ELSE {p.n})
<1> DEFINE a == Append(ps, p)
<1>1. /\ a \in Seq(P) /\ Len(ps) \in Nat /\ Len(a) = Len(ps) + 1
      /\ \A i \in 1 .. Len(ps) : a[i] = ps[i]
      /\ a[Len(ps) + 1] = p
  BY Appended
<1> HIDE DEF a
<1>2. \A n : n \in Numbers(a) <=> \E i \in 1 .. Len(a) : ~IsData(a[i]) /\ a[i].n = n
  BY <1>1, InNumbers
<1>3. \A n : n \in Numbers(ps) <=> \E i \in 1 .. Len(ps) : ~IsData(ps[i]) /\ ps[i].n = n
  BY InNumbers
<1>4. \A i : i \in 1 .. Len(a) <=> i \in 1 .. Len(ps) \/ i = Len(ps) + 1
  BY <1>1
<1>5. \A n : n \in Numbers(a) <=> n \in Numbers(ps) \/ (~IsData(p) /\ p.n = n)
  BY <1>1, <1>2, <1>3, <1>4
<1> QED BY <1>5 DEF a

LEMMA RestAppended ==
  ASSUME NEW s \in Seq(Nat), NEW n \in Nat, NEW k \in Nat, k <= Len(s)
  PROVE  Rest(Append(s, n), k) = Rest(s, k) \cup {n}
<1> DEFINE a == Append(s, n)
<1>1. /\ Len(s) \in Nat /\ Len(a) = Len(s) + 1
      /\ \A i \in 1 .. Len(s) : a[i] = s[i]
      /\ a[Len(s) + 1] = n
  BY Appended
<1> HIDE DEF a
<1>2. \A i : i \in k + 1 .. Len(a) <=> i \in k + 1 .. Len(s) \/ i = Len(s) + 1
  BY <1>1
<1>3. \A i \in k + 1 .. Len(s) : a[i] = s[i]
  BY <1>1
<1>4. \A m : m \in Rest(a, k) <=> m \in Rest(s, k) \/ m = n
  BY <1>1, <1>2, <1>3 DEF Rest
<1> QED BY <1>4 DEF a

LEMMA DataTaken ==
  ASSUME NEW P, NEW ps \in Seq(P), ps # <<>>, IsData(ps[1])
  PROVE  Numbers(Tail(ps)) = Numbers(ps)
<1> DEFINE t == Tail(ps)
<1>1. /\ Len(ps) \in Nat /\ Len(ps) > 0 /\ t \in Seq(P) /\ Len(t) = Len(ps) - 1
      /\ \A i \in 1 .. Len(ps) - 1 : t[i] = ps[i + 1]
  BY Parts
<1> HIDE DEF t
<1>2. \A n : n \in Numbers(t) <=> \E i \in 1 .. Len(t) : ~IsData(t[i]) /\ t[i].n = n
  BY <1>1, InNumbers
<1>3. \A n : n \in Numbers(ps) <=> \E i \in 1 .. Len(ps) : ~IsData(ps[i]) /\ ps[i].n = n
  BY InNumbers
<1>4. \A i \in 1 .. Len(t) : i + 1 \in 1 .. Len(ps) /\ t[i] = ps[i + 1]
  BY <1>1
<1>5. \A i \in 1 .. Len(ps) : i = 1 \/ (i - 1 \in 1 .. Len(t) /\ t[i - 1] = ps[i])
  BY <1>1
<1>6. \A n : n \in Numbers(t) => n \in Numbers(ps)
  BY <1>2, <1>3, <1>4
<1>7. \A n : n \in Numbers(ps) => n \in Numbers(t)
  BY <1>2, <1>3, <1>5
<1> QED BY <1>6, <1>7 DEF t

LEMMA CallTaken ==
  ASSUME NEW P, NEW ps \in Seq(P), ps # <<>>, ~IsData(ps[1]), Ascending(ps),
         \A i \in 1 .. Len(ps) : ps[i].n \in Nat,
         NEW s \in Seq(Nat), Increasing(s), NEW k \in Nat, k <= Len(s),
         Numbers(ps) = Rest(s, k)
  PROVE  k + 1 <= Len(s) /\ s[k + 1] = ps[1].n /\ Numbers(Tail(ps)) = Rest(s, k + 1)
<1> DEFINE t == Tail(ps)
<1>1. /\ Len(ps) \in Nat /\ Len(ps) > 0 /\ t \in Seq(P) /\ Len(t) = Len(ps) - 1
      /\ \A i \in 1 .. Len(ps) - 1 : t[i] = ps[i + 1]
  BY Parts
<1> HIDE DEF t
<1>2. \A n : n \in Numbers(t) <=> \E i \in 1 .. Len(t) : ~IsData(t[i]) /\ t[i].n = n
  BY <1>1, InNumbers
<1>3. \A n : n \in Numbers(ps) <=> \E i \in 1 .. Len(ps) : ~IsData(ps[i]) /\ ps[i].n = n
  BY InNumbers
<1>4. Len(s) \in Nat /\ \A i \in 1 .. Len(s) : s[i] \in Nat
  BY ElementOfSeq, LenProperties
<1>5. ps[1].n \in Numbers(ps)
  BY <1>1, <1>3
<1>15. \A n : n \in Rest(s, k) <=> \E i \in k + 1 .. Len(s) : s[i] = n
  BY InRest
<1>6. PICK j \in k + 1 .. Len(s) : s[j] = ps[1].n
  BY <1>5, <1>15
<1>7. k + 1 <= Len(s) /\ k + 1 \in k + 1 .. Len(s) /\ k + 1 \in 1 .. Len(s) /\ j \in 1 .. Len(s)
  BY <1>4, <1>6
<1>8. s[k + 1] \in Numbers(ps)
  BY <1>7, <1>15
<1>9. PICK m \in 1 .. Len(ps) : ~IsData(ps[m]) /\ ps[m].n = s[k + 1]
  BY <1>3, <1>8
<1>10. 1 \in 1 .. Len(ps)
  BY <1>1
<1>11. \A i \in 1 .. Len(ps) : i # 1 /\ ~IsData(ps[i]) => ps[1].n < ps[i].n
  <2>1. \A i \in 1 .. Len(ps) : i # 1 => 1 < i
    BY <1>1
  <2> QED BY <2>1, <1>10 DEF Ascending
<1>12. s[k + 1] = ps[1].n
  <2>1. k + 1 # j => s[k + 1] < s[j]
    <3>1. k + 1 # j => k + 1 < j
      BY <1>4, <1>6
    <3> QED BY <3>1, <1>7 DEF Increasing
  <2>2. m # 1 => ps[1].n < s[k + 1]
    BY <1>9, <1>11
  <2>3. s[k + 1] \in Nat /\ ps[1].n \in Nat
    BY <1>4, <1>7, <1>10
  <2>4. s[k + 1] = ps[1].n \/ s[k + 1] < ps[1].n
    BY <2>1, <1>6
  <2>5. s[k + 1] = ps[1].n \/ ps[1].n < s[k + 1]
    BY <2>2, <1>9
  <2> QED BY <2>3, <2>4, <2>5
<1>13. ASSUME NEW n \in Numbers(t)
       PROVE  n \in Rest(s, k + 1)
  <2>1. PICK i \in 1 .. Len(t) : ~IsData(t[i]) /\ t[i].n = n
    BY <1>2, <1>13
  <2>2. i + 1 \in 1 .. Len(ps) /\ i + 1 # 1 /\ t[i] = ps[i + 1]
    BY <1>1
  <2>3. n \in Numbers(ps) /\ ps[1].n < n /\ n \in Nat
    BY <2>1, <2>2, <1>3, <1>11
  <2>4. PICK l \in k + 1 .. Len(s) : s[l] = n
    BY <2>3, InRest
  <2>5. l # k + 1
    BY <2>3, <2>4, <1>10, <1>12
  <2>6. l \in (k + 1) + 1 .. Len(s)
    BY <2>4, <2>5, <1>4
  <2> QED BY <2>4, <2>6, InRest
<1>14. ASSUME NEW n \in Rest(s, k + 1)
       PROVE  n \in Numbers(t)
  <2>1. PICK l \in (k + 1) + 1 .. Len(s) : s[l] = n
    BY <1>14, InRest
  <2>2. l \in k + 1 .. Len(s) /\ l \in 1 .. Len(s) /\ k + 1 < l
    BY <1>4
  <2>3. n \in Numbers(ps)
    BY <2>1, <2>2, InRest
  <2>4. s[k + 1] < n
    BY <2>1, <2>2, <1>7 DEF Increasing
  <2>5. PICK i \in 1 .. Len(ps) : ~IsData(ps[i]) /\ ps[i].n = n
    BY <2>3, <1>3
  <2>6. i # 1
    BY <2>4, <2>5, <1>10, <1>12
  <2>7. i - 1 \in 1 .. Len(t) /\ t[i - 1] = ps[i]
    BY <2>6, <1>1
  <2> QED BY <2>5, <2>7, <1>2
<1> QED BY <1>7, <1>12, <1>13, <1>14 DEF t

-----------------------------------------------------------------------------
(* States: what the parts of the invariant say together.                   *)

Packet == [cmd : app.calls \cup {"SEND_DATA"}, n : 1 .. app.max, size : Sizes]

LEMMA Contents ==
  /\ Nothing \in Content /\ Freed \in Content /\ Nothing # Freed
  /\ \A n \in 1 .. app.max : Data(n) \in Content /\ Reply(n) \in Content
  /\ \A n : Data(n) # Nothing /\ Reply(n) # Nothing /\ Reply(n) # Freed
BY DEF Nothing, Freed, Data, Reply, Content

LEMMA AppType ==
  ASSUME TypeOK
  PROVE  /\ app.calls \subseteq ClientCalls /\ app.max \in Nat
         /\ app.lossy \in BOOLEAN /\ app.slow \in BOOLEAN
BY DispatchAssumption DEF TypeOK

LEMMA PacketsType ==
  ASSUME TypeOK, ClientInv
  PROVE  /\ toServer \in Seq(Packet)
         /\ Upcoming \in Seq(Packet)
         /\ cpc # "idle" => /\ ncalls \in 1 .. app.max
                            /\ CallPacket \in Packet /\ ~IsData(CallPacket) /\ Legal(CallPacket)
                            /\ DataOf(CallPacket) \in Packet
         /\ \A p \in Packet : p.n \in Nat
<1>1. toServer \in Seq(Packet)
  BY DEF TypeOK, Packet
<1>2. ASSUME cpc # "idle"
      PROVE  /\ ncalls \in 1 .. app.max
             /\ CallPacket \in Packet /\ ~IsData(CallPacket) /\ Legal(CallPacket)
             /\ DataOf(CallPacket) \in Packet
  <2>1. call.op \in app.calls /\ call.op \in ClientCalls /\ call.op # "SEND_DATA"
    BY <1>2, AppType, DataIsNoCall DEF ClientInv
  <2>2. call.size \in Sizes /\ call.size \in DataSizes(call.op)
    BY <1>2 DEF ClientInv, TypeOK
  <2>3. ncalls \in 1 .. app.max
    BY <1>2, AppType DEF ClientInv, TypeOK
  <2>4. CallPacket \in Packet
    BY <2>1, <2>2, <2>3 DEF CallPacket, Packet
  <2>5. ~IsData(CallPacket) /\ Legal(CallPacket)
    BY <2>1, <2>2 DEF CallPacket, IsData, Legal
  <2>6. DataOf(CallPacket) \in Packet
    BY <2>2, <2>3 DEF CallPacket, DataOf, Packet
  <2> QED BY <2>3, <2>4, <2>5, <2>6
<1>3. Upcoming \in Seq(Packet)
  <2>1. CASE cpc = "call"
    <3>1. Append(toServer, CallPacket) \in Seq(Packet)
      BY <1>1, <1>2, <2>1, Appended
    <3> QED BY <3>1, <2>1 DEF Upcoming
  <2>2. CASE cpc # "call"
    BY <1>1, <2>2 DEF Upcoming
  <2> QED BY <2>1, <2>2
<1>4. \A p \in Packet : p.n \in Nat
  BY DEF Packet
<1> QED BY <1>1, <1>2, <1>3, <1>4

(***************************************************************************)
(* Before a call is on its way nothing replies.                            *)
(***************************************************************************)
LEMMA NothingReplies ==
  ASSUME TypeOK, ReplyInv, cpc \notin {"wait", "exited"}
  PROVE  Len(toClient) = 0 /\ \A i \in 1 .. Len(toServer) : toServer[i].cmd \notin ServerReplies
<1>1. Len(toClient) \in Nat
  BY LenProperties DEF TypeOK
<1> QED BY <1>1 DEF ReplyInv

(***************************************************************************)
(* A step of the client that leaves the next packet as it was, leaves the  *)
(* server's pool as fit for it as it was.                                  *)
(***************************************************************************)
LEMMA PoolKept ==
  ASSUME PoolInv, Len(Upcoming) \in Nat, Len(Upcoming)' \in Nat,
         UNCHANGED <<app, spool>>,
         cpc # "exited" \/ UNCHANGED <<cpc, toServer>>,
         Len(Upcoming) > 0 /\ Len(Upcoming)' > 0 => Upcoming'[1] = Upcoming[1],
         Len(Upcoming) = 0 /\ Len(Upcoming)' > 0 => ~Takes(Upcoming'[1]),
         Len(Upcoming) > 0 /\ Len(Upcoming)' = 0 => Upcoming[1].size # "large"
  PROVE  PoolInv'
<1> DEFINE k == Len(Upcoming)  h == Upcoming[1]
<1>1. Payload' = Payload /\ spool' = spool /\ app' = app
  BY DEF Payload
<1>2. (Len(Upcoming))' = Len(Upcoming') /\ (Upcoming[1])' = Upcoming'[1]
  OBVIOUS
<1>3. \A p : Takes(p)' = Takes(p)
  BY DEF Takes, IsData
<1>4. ASSUME spool.buf # Nothing
      PROVE  /\ spool'.has_data
             /\ \/ Len(Upcoming') > 0 /\ ~IsData(Upcoming'[1]) /\ Upcoming'[1].size = "large"
                \/ cpc' = "exited" /\ Len(toServer') = 0
  <2>1. CASE Len(Upcoming) > 0 /\ ~IsData(Upcoming[1]) /\ Upcoming[1].size = "large"
    BY <1>1, <1>4, <2>1 DEF PoolInv
  <2>2. CASE cpc = "exited" /\ Len(toServer) = 0
    BY <1>1, <1>4, <2>2 DEF PoolInv
  <2> QED BY <1>4, <2>1, <2>2 DEF PoolInv
<1>5. ASSUME ~app.lossy, Len(Upcoming') > 0, Takes(Upcoming'[1])
      PROVE  spool'.has_data /\ Payload' = Data(Upcoming'[1].n)
  <2>1. Len(Upcoming) > 0 /\ Upcoming'[1] = Upcoming[1]
    BY <1>5
  <2> QED BY <1>1, <1>5, <2>1 DEF PoolInv
<1> QED BY <1>1, <1>4, <1>5 DEF PoolInv, Nothing, Data

-----------------------------------------------------------------------------
(* The steps of the client.                                                *)

LEMMA StartStep ==
  ASSUME IInv, NEW op \in app.calls, NEW size \in Sizes, StartCall(op, size)
  PROVE  IInv'
<1>1. /\ cpc = "idle" /\ ncalls < app.max /\ size \in DataSizes(op)
      /\ ncalls' = ncalls + 1 /\ call' = [op |-> op, size |-> size]
      /\ cpc' = IF size = "none" THEN "call" ELSE "data"
      /\ UNCHANGED <<app, cpool, retptr, sent, returned, toServer, toClient, spool, executed>>
  BY DEF StartCall, serverVars
<1>2. TypeOK /\ ClientInv /\ StreamInv /\ PoolInv /\ ReplyInv /\ OwnData /\ SentInv /\ OrderInv
  BY DEF IInv
<1>3. cpc' \in {"call", "data"} /\ cpc' # "idle" /\ (cpc' = "call" <=> size = "none")
  BY <1>1
<1>4. TypeOK'
  <2>1. call' \in [op : app.calls \cup {"none"}, size : Sizes]
    BY <1>1
  <2>2. ncalls' \in 0 .. app.max
    BY <1>1, <1>2, AppType DEF TypeOK
  <2> QED BY <1>1, <1>2, <1>3, <2>1, <2>2 DEF TypeOK, Content
<1>5. /\ toServer \in Seq(Packet) /\ Upcoming \in Seq(Packet)
      /\ \A i \in 1 .. Len(toServer) : toServer[i].n \in Nat
      /\ ncalls \in Nat
  <2>1. toServer \in Seq(Packet) /\ Upcoming \in Seq(Packet) /\ \A p \in Packet : p.n \in Nat
    BY <1>2, PacketsType
  <2>2. \A i \in 1 .. Len(toServer) : toServer[i] \in Packet
    BY <2>1, ElementOfSeq
  <2> QED BY <1>2, <2>1, <2>2, AppType DEF TypeOK
<1>6. ClientInv'
  <2>1. ncalls' > 0 /\ \A i \in 1 .. Len(toServer) : toServer[i].n < ncalls'
    BY <1>1, <1>2, <1>5 DEF ClientInv
  <2>2. \A i \in 1 .. Len(toServer) : toServer[i].n <= ncalls'
    BY <2>1, <1>1, <1>5
  <2>3. call'.op = op /\ call'.size = size
    BY <1>1
  <2> QED BY <1>1, <1>3, <2>1, <2>2, <2>3 DEF ClientInv
<1>7. Packet' = Packet
  BY <1>1 DEF Packet
<1>8. Upcoming = toServer
  BY <1>1 DEF Upcoming
<1>9. /\ CallPacket' \in Packet /\ ~IsData(CallPacket') /\ Legal(CallPacket')
      /\ CallPacket'.n = ncalls' /\ CallPacket'.size = size
  <2>1. CallPacket' = [cmd |-> op, n |-> ncalls', size |-> size]
    BY <1>1 DEF CallPacket
  <2>2. op \in ClientCalls /\ op # "SEND_DATA"
    BY <1>2, AppType, DataIsNoCall
  <2>3. ncalls' \in 1 .. app.max
    BY <1>1, <1>2, <1>5, AppType
  <2> QED BY <2>1, <2>2, <2>3, <1>1 DEF IsData, Legal, Packet
<1>10. \A i \in 1 .. Len(toServer) : ~IsData(toServer[i]) => toServer[i].n < CallPacket'.n
  BY <1>1, <1>2, <1>5, <1>9 DEF ClientInv
<1>11. StreamInv' /\ PoolInv'
  <2>1. Stream(toServer) /\ Ascending(toServer)
    BY <1>2, <1>8 DEF StreamInv
  <2>2. CASE size = "none"
    <3> DEFINE c == CallPacket'  u == Append(toServer, c)
    <3>1. Upcoming' = u
      BY <1>1, <1>3, <2>2 DEF Upcoming
    <3>2. c \in Packet /\ ~IsData(c) /\ Legal(c) /\ c.size = "none"
      BY <1>9, <2>2
    <3>3. \A i \in 1 .. Len(toServer) : ~IsData(toServer[i]) => toServer[i].n < c.n
      BY <1>10
    <3> HIDE DEF c
    <3>4. Stream(u) /\ Ascending(u)
      BY <3>2, <3>3, <2>1, <1>5, CallAppended
    <3>5. /\ Len(toServer) \in Nat /\ Len(u) = Len(toServer) + 1
          /\ \A i \in 1 .. Len(toServer) : u[i] = toServer[i]
          /\ u[Len(toServer) + 1] = c
      BY <3>2, <1>5, Appended
    <3>6. ~Takes(c)
      BY <3>2 DEF Takes
    <3> HIDE DEF u
    <3>7. StreamInv'
      BY <3>1, <3>4 DEF StreamInv, Stream, Ascending, Legal, Takes, IsData, DataOf
    <3>8. PoolInv'
      <4>1. Len(Upcoming) = Len(toServer) /\ Len(Upcoming)' = Len(toServer) + 1
        BY <1>8, <3>1, <3>5
      <4>2. Len(toServer) > 0 => u[1] = toServer[1]
        BY <3>5
      <4>3. Len(toServer) = 0 => u[1] = c
        BY <3>5
      <4> QED BY <4>1, <4>2, <4>3, <3>1, <3>5, <3>6, <1>1, <1>2, <1>8, PoolKept
    <3> QED BY <3>7, <3>8
  <2>3. CASE size # "none"
    <3>1. Upcoming' = toServer
      BY <1>1, <1>3, <2>3 DEF Upcoming
    <3>2. StreamInv'
      BY <3>1, <2>1 DEF StreamInv, Stream, Ascending, Legal, Takes, IsData, DataOf
    <3>3. Len(toServer) \in Nat
      BY <1>5, LenProperties
    <3>4. PoolInv'
      BY <3>1, <3>3, <1>1, <1>2, <1>8, PoolKept
    <3> QED BY <3>2, <3>4
  <2> QED BY <2>2, <2>3
<1>12. ReplyInv'
  <2>1. Len(toClient) = 0 /\ \A i \in 1 .. Len(toServer) : toServer[i].cmd \notin ServerReplies
    BY <1>1, <1>2, NothingReplies
  <2>2. app.calls \cap EarlyRet = {} => OwnReply'
    BY <1>1, <1>2 DEF ReplyInv, OwnReply, Reply
  <2>3. cpc' # "use"
    BY <1>3
  <2> QED BY <1>1, <2>1, <2>2, <2>3 DEF ReplyInv
<1>13. WaitInv'
  BY <1>3 DEF WaitInv
<1>14. OwnData'
  BY <1>1, <1>2 DEF OwnData, Data, Nothing
<1>15. SentInv'
  <2>1. \A i \in 1 .. Len(sent) : sent[i] \in Nat
    <3>1. sent \in Seq(1 .. app.max)
      BY <1>2 DEF TypeOK
    <3>2. \A i \in 1 .. Len(sent) : sent[i] \in 1 .. app.max
      BY <3>1, ElementOfSeq
    <3> QED BY <3>2
  <2>2. \A i \in 1 .. Len(sent) : sent[i] < ncalls'
    BY <2>1, <1>1, <1>2, <1>5 DEF SentInv
  <2>3. \A i \in 1 .. Len(sent) : sent[i] <= ncalls'
    BY <2>1, <2>2, <1>1, <1>5
  <2> QED BY <2>2, <2>3, <1>1, <1>2 DEF SentInv
<1>16. OrderInv'
  <2>1. cpc' # "exited" /\ (Served' <=> Served) /\ (Undisturbed' <=> Undisturbed)
    BY <1>1, <1>3 DEF Served, Undisturbed
  <2>2. Served => InOrder(executed, sent, toServer)
    BY <1>2, OrderNow DEF OrderInv, Served
  <2>3. Served' => InOrder(executed', sent', toServer')
    BY <2>1, <2>2, <1>1
  <2> QED BY <2>1, <2>3, OrderNext DEF OrderInv
<1> QED BY <1>4, <1>6, <1>11, <1>12, <1>13, <1>14, <1>15, <1>16 DEF IInv

LEMMA OrderStep ==
  ASSUME OrderInv, UNCHANGED app,
         Served /\ InOrder(executed, sent, toServer) => InOrder(executed', sent', toServer'),
         Served /\ cpc' = "exited" => Len(toServer)' = 0
  PROVE  OrderInv'
<1>1. (Served' <=> Served) /\ (Undisturbed' <=> Undisturbed)
  BY DEF Served, Undisturbed
<1>2. Served => InOrder(executed, sent, toServer)
  BY OrderNow DEF OrderInv, Served
<1> QED BY <1>1, <1>2, OrderNext DEF OrderInv

LEMMA DataIsNoReply == "SEND_DATA" \notin ServerReplies
BY WaitsAreAnswered, DataIsNoCall DEF ClientCalls

LEMMA SentType ==
  ASSUME TypeOK
  PROVE  /\ sent \in Seq(Nat) /\ Len(sent) \in Nat /\ \A i \in 1 .. Len(sent) : sent[i] \in Nat
         /\ Len(executed) \in Nat /\ ncalls \in Nat
<1>1. sent \in Seq(1 .. app.max) /\ executed \in Seq([n : 1 .. app.max, flag : BOOLEAN, input : Content])
  BY DEF TypeOK
<1>2. Len(sent) \in Nat /\ Len(executed) \in Nat /\ \A i \in 1 .. Len(sent) : sent[i] \in 1 .. app.max
  BY <1>1, ElementOfSeq, LenProperties
<1>3. sent \in Seq(Nat)
  <2>1. 1 .. app.max \subseteq Nat
    OBVIOUS
  <2> QED BY <1>1, <2>1, SeqMonotonic
<1>4. ncalls \in Nat
  BY AppType DEF TypeOK
<1> QED BY <1>2, <1>3, <1>4

LEMMA DataStep ==
  ASSUME IInv, SendData
  PROVE  IInv'
<1> DEFINE c == CallPacket  d == DataOf(c)  b == Append(toServer, d)  u == Append(b, c)
<1>1. /\ cpc = "data" /\ cpc' = "call"
      /\ cpool' = IF call.op \in ComposesInTmp THEN [cpool EXCEPT !.tmp = Data(ncalls)] ELSE cpool
      /\ toServer' = b
      /\ UNCHANGED <<app, call, ncalls, retptr, sent, returned, toClient, spool, executed>>
  BY DEF SendData, serverVars, CallPacket, DataOf
<1>2. TypeOK /\ ClientInv /\ StreamInv /\ PoolInv /\ ReplyInv /\ OwnData /\ SentInv /\ OrderInv
  BY DEF IInv
<1>3. /\ toServer \in Seq(Packet) /\ c \in Packet /\ d \in Packet
      /\ ~IsData(c) /\ Legal(c) /\ ncalls \in 1 .. app.max
  BY <1>1, <1>2, PacketsType
<1>4. /\ c.n = ncalls /\ c.size = call.size /\ c.size # "none"
      /\ d.n = ncalls /\ d.cmd = "SEND_DATA" /\ IsData(d) /\ ~Takes(d)
  BY <1>1, <1>2 DEF CallPacket, DataOf, ClientInv, IsData, Takes
<1>5. Upcoming = toServer /\ Upcoming' = u /\ CallPacket' = c /\ Packet' = Packet
  BY <1>1 DEF Upcoming, CallPacket, Packet
<1> HIDE DEF c, d
<1>6. /\ b \in Seq(Packet) /\ Len(toServer) \in Nat /\ Len(b) = Len(toServer) + 1
      /\ \A i \in 1 .. Len(toServer) : b[i] = toServer[i]
      /\ b[Len(toServer) + 1] = d
  BY <1>3, Appended
<1>7. Stream(toServer) /\ Ascending(toServer)
  BY <1>2, <1>5 DEF StreamInv
<1>8. \A i \in 1 .. Len(toServer) : ~IsData(toServer[i]) => toServer[i].n < c.n
  BY <1>1, <1>2, <1>4 DEF ClientInv
<1>9. Stream(u) /\ Ascending(u)
  BY <1>3, <1>4, <1>7, <1>8, PairAppended DEF d
<1>10. Numbers(b) = Numbers(toServer)
  BY <1>3, <1>4, NumbersAppended
<1> HIDE DEF b
<1>11. Len(u) = Len(b) + 1 /\ \A i \in 1 .. Len(b) : u[i] = b[i]
  BY <1>3, <1>6, Appended
<1> HIDE DEF u
<1>12. \A i \in 1 .. Len(b) : (i \in 1 .. Len(toServer) /\ b[i] = toServer[i]) \/ b[i] = d
  BY <1>6
<1>13. TypeOK'
  <2>1. cpool' \in [tmp : Content, buf : Content]
    <3>1. Data(ncalls) \in Content
      BY <1>3, Contents
    <3> QED BY <3>1, <1>1, <1>2 DEF TypeOK
  <2>2. toServer' \in Seq([cmd : app.calls \cup {"SEND_DATA"}, n : 1 .. app.max, size : Sizes])
    BY <1>1, <1>6 DEF Packet
  <2> QED BY <2>1, <2>2, <1>1, <1>2 DEF TypeOK, Content
<1>14. ClientInv'
  <2>1. \A i \in 1 .. Len(b) : b[i].n <= ncalls
    BY <1>2, <1>3, <1>4, <1>12 DEF ClientInv
  <2> QED BY <2>1, <1>1, <1>2 DEF ClientInv
<1>15. StreamInv'
  BY <1>5, <1>9 DEF StreamInv, Stream, Ascending, Legal, Takes, IsData, DataOf
<1>16. PoolInv'
  <2>1. Len(toServer) > 0 => u[1] = toServer[1]
    BY <1>6, <1>11
  <2>2. Len(toServer) = 0 => u[1] = d
    BY <1>6, <1>11
  <2>3. Len(Upcoming)' = Len(toServer) + 2
    BY <1>5, <1>6, <1>11
  <2>4. Len(Upcoming)' > 0 /\ Len(Upcoming)' \in Nat
    BY <2>3, <1>6
  <2> QED BY <2>1, <2>2, <2>4, <1>1, <1>2, <1>4, <1>5, <1>6, PoolKept
<1>17. ReplyInv'
  <2>1. Len(toClient) = 0 /\ \A i \in 1 .. Len(toServer) : toServer[i].cmd \notin ServerReplies
    BY <1>1, <1>2, NothingReplies
  <2>2. \A i \in 1 .. Len(b) : b[i].cmd \notin ServerReplies
    BY <2>1, <1>4, <1>12, DataIsNoReply
  <2>3. app.calls \cap EarlyRet = {} => OwnReply'
    BY <1>1, <1>2 DEF ReplyInv, OwnReply, Reply
  <2> QED BY <2>1, <2>2, <2>3, <1>1 DEF ReplyInv
<1>18. WaitInv' /\ OwnData' /\ SentInv'
  BY <1>1, <1>2 DEF WaitInv, OwnData, Data, Nothing, SentInv
<1>19. OrderInv'
  <2>1. InOrder(executed, sent, toServer) => InOrder(executed, sent, b)
    BY <1>10 DEF InOrder
  <2> QED BY <2>1, <1>1, <1>2, OrderStep
<1> QED BY <1>13, <1>14, <1>15, <1>16, <1>17, <1>18, <1>19 DEF IInv

LEMMA AbandonStep ==
  ASSUME IInv, AbandonCall
  PROVE  IInv'
<1>1. /\ cpc = "call" /\ cpc' = "idle" /\ call.op \in MayAbandon
      /\ UNCHANGED <<app, call, ncalls, cpool, retptr, sent, returned, toServer, toClient, spool, executed>>
  BY DEF AbandonCall, serverVars
<1>2. TypeOK /\ ClientInv /\ StreamInv /\ PoolInv /\ ReplyInv /\ OwnData /\ SentInv /\ OrderInv
  BY DEF IInv
<1> DEFINE c == CallPacket  u == Append(toServer, c)
<1>3. toServer \in Seq(Packet) /\ c \in Packet
  BY <1>1, <1>2, PacketsType
<1>4. Upcoming = u /\ Upcoming' = toServer
  BY <1>1 DEF Upcoming
<1>5. c.size # "large"
  BY <1>1, <1>2, LargeData DEF ClientInv, CallPacket
<1>6. Stream(u) /\ Ascending(u)
  BY <1>2, <1>4 DEF StreamInv
<1> HIDE DEF c
<1>7. /\ Len(toServer) \in Nat /\ Len(u) = Len(toServer) + 1
      /\ \A i \in 1 .. Len(toServer) : u[i] = toServer[i]
      /\ u[Len(toServer) + 1] = c
  BY <1>3, Appended
<1>8. Stream(toServer) /\ Ascending(toServer)
  BY <1>3, <1>5, <1>6, CallDropped
<1> HIDE DEF u
<1>9. StreamInv'
  BY <1>4, <1>8 DEF StreamInv, Stream, Ascending, Legal, Takes, IsData, DataOf
<1>10. PoolInv'
  <2>1. Len(toServer) > 0 => u[1] = toServer[1]
    BY <1>7
  <2>2. Len(toServer) = 0 => u[1] = c
    BY <1>7
  <2>3. Len(Upcoming)' = Len(toServer) /\ Len(Upcoming) = Len(toServer) + 1
    BY <1>4, <1>7
  <2> QED BY <2>1, <2>2, <2>3, <1>1, <1>2, <1>4, <1>5, <1>7, PoolKept
<1>11. TypeOK' /\ ClientInv'
  BY <1>1, <1>2 DEF TypeOK, ClientInv, Content
<1>12. ReplyInv'
  <2>1. Len(toClient) = 0 /\ \A i \in 1 .. Len(toServer) : toServer[i].cmd \notin ServerReplies
    BY <1>1, <1>2, NothingReplies
  <2>2. app.calls \cap EarlyRet = {} => OwnReply'
    BY <1>1, <1>2 DEF ReplyInv, OwnReply, Reply
  <2> QED BY <2>1, <2>2, <1>1 DEF ReplyInv
<1>13. WaitInv' /\ OwnData' /\ SentInv'
  BY <1>1, <1>2 DEF WaitInv, OwnData, Data, Nothing, SentInv
<1>14. OrderInv'
  BY <1>1, <1>2, OrderStep
<1> QED BY <1>9, <1>10, <1>11, <1>12, <1>13, <1>14 DEF IInv

LEMMA SendStep ==
  ASSUME IInv, SendCall
  PROVE  IInv'
<1> DEFINE c == CallPacket  b == Append(toServer, c)  s == Append(sent, ncalls)
<1>1. /\ cpc = "call" /\ cpc' = IF call.op \in ClientWaits THEN "wait" ELSE "idle"
      /\ toServer' = b /\ sent' = s
      /\ retptr' = IF call.op \in EarlyRet THEN RetPtr(cpool) ELSE retptr
      /\ UNCHANGED <<app, call, ncalls, cpool, returned, toClient, spool, executed>>
  BY DEF SendCall, serverVars, CallPacket
<1>2. TypeOK /\ ClientInv /\ StreamInv /\ PoolInv /\ ReplyInv /\ OwnData /\ SentInv /\ OrderInv
  BY DEF IInv
<1>3. /\ toServer \in Seq(Packet) /\ c \in Packet /\ ~IsData(c) /\ ncalls \in 1 .. app.max
  BY <1>1, <1>2, PacketsType
<1>4. c.n = ncalls /\ c.cmd = call.op
  BY DEF CallPacket
<1>5. Upcoming = b /\ Upcoming' = b /\ Packet' = Packet
  BY <1>1 DEF Upcoming, Packet
<1>6. Stream(b) /\ Ascending(b)
  BY <1>2, <1>5 DEF StreamInv
<1> HIDE DEF c
<1>7. /\ b \in Seq(Packet) /\ Len(toServer) \in Nat /\ Len(b) = Len(toServer) + 1
      /\ \A i \in 1 .. Len(toServer) : b[i] = toServer[i]
      /\ b[Len(toServer) + 1] = c
  BY <1>3, Appended
<1>8. Numbers(b) = Numbers(toServer) \cup {ncalls}
  BY <1>3, <1>4, NumbersAppended
<1>9. /\ sent \in Seq(1 .. app.max) /\ Len(sent) \in Nat /\ sent \in Seq(Nat)
      /\ \A i \in 1 .. Len(sent) : sent[i] \in Nat
      /\ Len(executed) \in Nat
  BY <1>2, SentType DEF TypeOK
<1>10. /\ s \in Seq(1 .. app.max) /\ Len(s) = Len(sent) + 1
       /\ \A i \in 1 .. Len(sent) : s[i] = sent[i]
       /\ s[Len(sent) + 1] = ncalls
  BY <1>3, <1>9, Appended
<1>11. Len(executed) <= Len(sent) => Rest(s, Len(executed)) = Rest(sent, Len(executed)) \cup {ncalls}
  BY <1>3, <1>9, RestAppended
<1> HIDE DEF b, s
<1>12. \A i \in 1 .. Len(b) :
         (i \in 1 .. Len(toServer) /\ b[i] = toServer[i]) \/ (i = Len(b) /\ b[i] = c)
  BY <1>7
<1>13. cpc' \in {"wait", "idle"} /\ (cpc' = "wait" <=> call.op \in ClientWaits)
  BY <1>1
<1>14. TypeOK'
  <2>1. retptr' \in Content
    BY <1>1, <1>2 DEF TypeOK, RetPtr
  <2>2. toServer' \in Seq([cmd : app.calls \cup {"SEND_DATA"}, n : 1 .. app.max, size : Sizes])
    BY <1>1, <1>7 DEF Packet
  <2> QED BY <2>1, <2>2, <1>1, <1>2, <1>10, <1>13 DEF TypeOK, Content
<1>15. ClientInv'
  <2>1. \A i \in 1 .. Len(b) : b[i].n <= ncalls
    BY <1>2, <1>3, <1>4, <1>12 DEF ClientInv
  <2> QED BY <2>1, <1>1, <1>2, <1>13 DEF ClientInv
<1>16. StreamInv'
  BY <1>5, <1>6 DEF StreamInv, Stream, Ascending, Legal, Takes, IsData, DataOf
<1>17. PoolInv'
  BY <1>1, <1>2, <1>5, <1>7, PoolKept
<1>18. ReplyInv' /\ WaitInv'
  <2>1. Len(toClient) = 0 /\ \A i \in 1 .. Len(toServer) : toServer[i].cmd \notin ServerReplies
    BY <1>1, <1>2, NothingReplies
  <2>2. ASSUME NEW i \in 1 .. Len(b), b[i].cmd \in ServerReplies
        PROVE  i = Len(b) /\ b[i].n = ncalls /\ b[i].cmd = call.op /\ cpc' = "wait"
    BY <2>1, <2>2, <1>4, <1>12, <1>13, WaitsAreAnswered
  <2>3. app.calls \cap EarlyRet = {} => OwnReply'
    BY <1>1, <1>2 DEF ReplyInv, OwnReply, Reply
  <2>4. ReplyInv'
    BY <2>1, <2>2, <2>3, <1>1, <1>13 DEF ReplyInv
  <2>5. ASSUME Served, call.op \in ClientWaits
        PROVE  Len(b) > 0 /\ b[Len(b)].cmd \in ServerReplies
    <3>1. call.op \in app.calls
      BY <1>1, <1>2 DEF ClientInv
    <3>2. call.op \in ServerReplies
      BY <3>1, <2>5, WaitsAreAnswered DEF Served
    <3> QED BY <3>2, <1>4, <1>7
  <2>6. Served' <=> Served
    BY <1>1 DEF Served, Undisturbed
  <2> QED BY <2>4, <2>5, <2>6, <1>1, <1>13 DEF WaitInv
<1>19. OwnData'
  BY <1>1, <1>2 DEF OwnData, Data, Nothing
<1>20. SentInv'
  <2>1. \A i \in 1 .. Len(sent) : sent[i] < ncalls
    BY <1>1, <1>2 DEF SentInv
  <2>2. \A i \in 1 .. Len(s) : (i \in 1 .. Len(sent) /\ s[i] = sent[i]) \/ (i = Len(sent) + 1 /\ s[i] = ncalls)
    BY <1>9, <1>10
  <2>3. \A i \in 1 .. Len(s) : s[i] <= ncalls
    BY <2>1, <2>2, <1>3, <1>9
  <2>4. ASSUME NEW i \in 1 .. Len(s), NEW j \in 1 .. Len(s), i < j
        PROVE  s[i] < s[j]
    <3>1. i \in 1 .. Len(sent) /\ s[i] = sent[i]
      BY <2>4, <1>9, <1>10
    <3>2. CASE j \in 1 .. Len(sent)
      BY <3>1, <3>2, <2>4, <1>2, <1>10 DEF SentInv
    <3>3. CASE j = Len(sent) + 1
      BY <3>1, <3>3, <2>1, <1>10
    <3> QED BY <3>2, <3>3, <2>2
  <2> QED BY <2>3, <2>4, <1>1, <1>13 DEF SentInv
<1>21. OrderInv'
  <2>1. ASSUME InOrder(executed, sent, toServer)
        PROVE  InOrder(executed, s, b)
    <3>1. Len(executed) <= Len(sent)
      BY <2>1 DEF InOrder
    <3>2. Numbers(b) = Rest(s, Len(executed))
      BY <2>1, <3>1, <1>8, <1>11 DEF InOrder
    <3>3. \A i \in 1 .. Len(executed) : executed[i].n = s[i]
      BY <2>1, <3>1, <1>9, <1>10 DEF InOrder
    <3> QED BY <3>1, <3>2, <3>3, <1>9, <1>10 DEF InOrder
  <2> QED BY <2>1, <1>1, <1>2, <1>13, OrderStep
<1> QED BY <1>14, <1>15, <1>16, <1>17, <1>18, <1>19, <1>20, <1>21 DEF IInv

(***************************************************************************)
(* The steps of the client that leave the packets to the server alone.     *)
(***************************************************************************)
LEMMA QuietStep ==
  ASSUME IInv, cpc \notin {"call", "exited"}, cpc' \notin {"data", "call"},
         UNCHANGED <<app, call, ncalls, sent, toServer, spool, executed>>,
         Served /\ cpc' = "exited" => Len(toServer) = 0, cpc' # "idle" => cpc # "idle"
  PROVE  ClientInv' /\ StreamInv' /\ PoolInv' /\ OwnData' /\ SentInv' /\ OrderInv'
<1>1. TypeOK /\ ClientInv /\ StreamInv /\ PoolInv /\ OwnData /\ SentInv /\ OrderInv
  BY DEF IInv
<1>2. Upcoming = toServer /\ Upcoming' = toServer /\ Len(toServer) \in Nat
  <2>1. toServer \in Seq(Packet)
    BY <1>1, PacketsType
  <2> QED BY <2>1, LenProperties DEF Upcoming
<1>3. ClientInv'
  BY <1>1 DEF ClientInv
<1>4. StreamInv'
  BY <1>1, <1>2 DEF StreamInv, Stream, Ascending, Legal, Takes, IsData, DataOf
<1>5. PoolInv'
  BY <1>1, <1>2, PoolKept
<1>6. OwnData' /\ SentInv'
  BY <1>1 DEF OwnData, Data, Nothing, SentInv
<1>7. OrderInv'
  BY <1>1, OrderStep
<1> QED BY <1>3, <1>4, <1>5, <1>6, <1>7

LEMMA ReplyStep ==
  ASSUME IInv, HandlePacket
  PROVE  IInv'
<1> DEFINE p == Head(toClient)
           expected == call.op \in RawReply \/ p.cmd = call.op
           taken == TakeOver(cpool, Reply(p.n), p.size)
<1>1. /\ cpc = "wait" /\ cpc' = "use" /\ toClient # <<>>
      /\ cpool' = IF expected THEN taken ELSE cpool
      /\ retptr' = IF call.op \in EarlyRet THEN retptr ELSE RetPtr(cpool')
      /\ toClient' = Tail(toClient)
      /\ UNCHANGED <<app, call, ncalls, sent, returned, toServer, spool, executed>>
  BY DEF HandlePacket, serverVars
<1>2. TypeOK /\ ClientInv /\ ReplyInv
  BY DEF IInv
<1>3. ClientInv' /\ StreamInv' /\ PoolInv' /\ OwnData' /\ SentInv' /\ OrderInv'
  <2>1. cpc \notin {"call", "exited"} /\ cpc' \notin {"data", "call"} /\ cpc' # "exited" /\ cpc # "idle"
    BY <1>1
  <2> QED BY <2>1, <1>1, QuietStep
<1>4. /\ toClient \in Seq([cmd : app.calls, n : 1 .. app.max, size : {"small", "large"}])
      /\ cpool \in [tmp : Content, buf : Content] /\ retptr \in Content
  BY <1>2 DEF TypeOK
<1>5. /\ p = toClient[1] /\ p \in [cmd : app.calls, n : 1 .. app.max, size : {"small", "large"}]
      /\ toClient' \in Seq([cmd : app.calls, n : 1 .. app.max, size : {"small", "large"}])
      /\ Len(toClient)' = Len(toClient) - 1 /\ Len(toClient) > 0
  <2> DEFINE P == [cmd : app.calls, n : 1 .. app.max, size : {"small", "large"}]
  <2> HIDE DEF P
  <2>1. toClient \in Seq(P)
    BY <1>4 DEF P
  <2>2. /\ Head(toClient) = toClient[1] /\ toClient[1] \in P /\ Len(toClient) > 0
        /\ Tail(toClient) \in Seq(P) /\ Len(Tail(toClient)) = Len(toClient) - 1
    BY <2>1, <1>1, Parts
  <2> QED BY <2>2, <1>1 DEF P
<1>6. Len(toClient) = 1 /\ p.n = ncalls /\ p.cmd = call.op
  BY <1>2, <1>5 DEF ReplyInv
<1>7. expected
  BY <1>6
<1>8. p.n \in 1 .. app.max /\ p.size \in {"small", "large"}
  BY <1>5
<1>9. Reply(ncalls) \in Content /\ Nothing \in Content /\ Reply(ncalls) # Nothing
  BY <1>6, <1>8, Contents
<1> HIDE DEF p
<1>10. /\ cpool' \in [tmp : Content, buf : Content]
       /\ \/ cpool'.buf = Reply(ncalls)
          \/ cpool'.buf = Nothing /\ cpool'.tmp = Reply(ncalls)
  BY <1>1, <1>4, <1>6, <1>7, <1>8, <1>9 DEF TakeOver
<1>11. retptr' \in Content
  BY <1>1, <1>4, <1>10 DEF RetPtr
<1>12. TypeOK'
  <2>1. Content' = Content
    BY <1>1 DEF Content
  <2> QED BY <2>1, <1>1, <1>2, <1>5, <1>10, <1>11 DEF TypeOK
<1>13. ReplyInv'
  <2>1. \A i \in 1 .. Len(toServer) : toServer[i].cmd \notin ServerReplies
    BY <1>2, <1>6 DEF ReplyInv
  <2>2. Len(toClient)' = 0
    BY <1>5, <1>6
  <2>3. ASSUME app.calls \cap EarlyRet = {}
        PROVE  SeenThrough(retptr)' = Reply(ncalls)
    <3>1. call.op \notin EarlyRet
      BY <2>3, <1>1, <1>2 DEF ClientInv
    <3>2. retptr' = cpool'.buf
      BY <3>1, <1>1 DEF RetPtr
    <3> QED BY <3>2, <1>9, <1>10 DEF SeenThrough, Nothing
  <2>4. app.calls \cap EarlyRet = {} => OwnReply'
    BY <1>1, <1>2 DEF ReplyInv, OwnReply, Reply
  <2>5. Reply(ncalls)' = Reply(ncalls)
    BY <1>1 DEF Reply
  <2> QED BY <2>1, <2>2, <2>3, <2>4, <2>5, <1>1 DEF ReplyInv
<1>14. WaitInv'
  BY <1>1 DEF WaitInv
<1> QED BY <1>3, <1>12, <1>13, <1>14 DEF IInv

LEMMA UseStep ==
  ASSUME IInv, UseReply
  PROVE  IInv'
<1> DEFINE r == [n |-> ncalls, reply |-> SeenThrough(retptr)]
           R == [n : 1 .. app.max, reply : Content]
<1>1. /\ cpc = "use" /\ cpc' = "idle" /\ returned' = Append(returned, r)
      /\ cpool' = IF call.op \in KeepsRet THEN cpool ELSE [cpool EXCEPT !.buf = Nothing]
      /\ UNCHANGED <<app, call, ncalls, retptr, sent, toServer, toClient, spool, executed>>
  BY DEF UseReply, serverVars
<1>2. TypeOK /\ ClientInv /\ ReplyInv
  BY DEF IInv
<1>3. ClientInv' /\ StreamInv' /\ PoolInv' /\ OwnData' /\ SentInv' /\ OrderInv'
  <2>1. cpc \notin {"call", "exited"} /\ cpc' \notin {"data", "call"} /\ cpc' # "exited" /\ cpc # "idle"
    BY <1>1
  <2> QED BY <2>1, <1>1, QuietStep
<1>4. cpool \in [tmp : Content, buf : Content] /\ retptr \in Content /\ returned \in Seq(R)
  BY <1>2 DEF TypeOK
<1>5. ncalls \in 1 .. app.max
  BY <1>1, <1>2, PacketsType
<1>6. SeenThrough(retptr) \in Content
  BY <1>4, Contents DEF SeenThrough
<1>7. r \in R /\ r.n = ncalls /\ r.reply = SeenThrough(retptr)
  BY <1>5, <1>6
<1> HIDE DEF r, R
<1>8. /\ returned' \in Seq(R) /\ Len(returned) \in Nat /\ Len(returned)' = Len(returned) + 1
      /\ \A i \in 1 .. Len(returned) : returned'[i] = returned[i]
      /\ returned'[Len(returned) + 1] = r
  BY <1>1, <1>4, <1>7, Appended
<1>9. cpool' \in [tmp : Content, buf : Content]
  BY <1>1, <1>4, Contents
<1>10. TypeOK'
  <2>1. Content' = Content
    BY <1>1 DEF Content
  <2> QED BY <2>1, <1>1, <1>2, <1>8, <1>9 DEF TypeOK, R
<1>11. ReplyInv'
  <2>1. Len(toClient) = 0 /\ \A i \in 1 .. Len(toServer) : toServer[i].cmd \notin ServerReplies
    BY <1>1, <1>2, NothingReplies
  <2>2. ASSUME app.calls \cap EarlyRet = {}
        PROVE  OwnReply'
    <3>1. r.reply = Reply(r.n)
      BY <2>2, <1>1, <1>2, <1>7 DEF ReplyInv
    <3>2. \A i \in 1 .. Len(returned) : returned[i].reply = Reply(returned[i].n)
      BY <2>2, <1>2 DEF ReplyInv, OwnReply
    <3>3. \A i \in 1 .. Len(returned)' : i \in 1 .. Len(returned) \/ i = Len(returned) + 1
      BY <1>8
    <3>4. \A i \in 1 .. Len(returned)' : returned'[i].reply = Reply(returned'[i].n)
      BY <3>1, <3>2, <3>3, <1>8
    <3> QED BY <3>4 DEF OwnReply, Reply
  <2> QED BY <2>1, <2>2, <1>1 DEF ReplyInv
<1>12. WaitInv'
  BY <1>1 DEF WaitInv
<1> QED BY <1>3, <1>10, <1>11, <1>12 DEF IInv

LEMMA TimeOutStep ==
  ASSUME IInv, TimeOut
  PROVE  IInv'
<1>1. /\ cpc = "wait" /\ cpc' = "exited" /\ (app.slow \/ (toServer = <<>> /\ toClient = <<>>))
      /\ UNCHANGED <<app, call, ncalls, cpool, retptr, sent, returned, toServer, toClient, spool, executed>>
  BY DEF TimeOut, serverVars
<1>2. TypeOK /\ ReplyInv /\ WaitInv
  BY DEF IInv
<1>3. Served => FALSE
  <2>1. Served => toServer = <<>> /\ toClient = <<>>
    BY <1>1 DEF Served, Undisturbed
  <2>2. Len(<<>>) = 0
    OBVIOUS
  <2> QED BY <2>1, <2>2, <1>1, <1>2 DEF WaitInv
<1>4. ClientInv' /\ StreamInv' /\ PoolInv' /\ OwnData' /\ SentInv' /\ OrderInv'
  <2>1. cpc \notin {"call", "exited"} /\ cpc' \notin {"data", "call"} /\ cpc # "idle"
    BY <1>1
  <2> QED BY <2>1, <1>1, <1>3, QuietStep
<1>5. TypeOK'
  BY <1>1, <1>2 DEF TypeOK, Content
<1>6. ReplyInv'
  BY <1>1, <1>2 DEF ReplyInv, OwnReply, Reply
<1>7. WaitInv'
  BY <1>1 DEF WaitInv
<1> QED BY <1>4, <1>5, <1>6, <1>7 DEF IInv

LEMMA LoseReplyStep ==
  ASSUME IInv, LoseReply
  PROVE  IInv'
<1>1. /\ app.lossy /\ toClient # <<>> /\ toClient' = Tail(toClient)
      /\ UNCHANGED <<app, cpc, call, ncalls, cpool, retptr, sent, returned, toServer, spool, executed>>
  BY DEF LoseReply, serverVars, clientVars
<1>2. TypeOK /\ ClientInv /\ StreamInv /\ PoolInv /\ ReplyInv /\ OwnData /\ SentInv /\ OrderInv
  BY DEF IInv
<1>3. /\ toClient' \in Seq([cmd : app.calls, n : 1 .. app.max, size : {"small", "large"}])
      /\ Len(toClient)' = Len(toClient) - 1 /\ Len(toClient) > 0
  <2>1. toClient \in Seq([cmd : app.calls, n : 1 .. app.max, size : {"small", "large"}])
    BY <1>2 DEF TypeOK
  <2> QED BY <2>1, <1>1, Parts
<1>4. TypeOK'
  BY <1>1, <1>2, <1>3 DEF TypeOK, Content
<1>5. ReplyInv'
  <2>1. \A i \in 1 .. Len(toServer) : toServer[i].cmd \notin ServerReplies
    BY <1>2, <1>3 DEF ReplyInv
  <2>2. Len(toClient)' = 0
    BY <1>2, <1>3 DEF ReplyInv
  <2>3. app.calls \cap EarlyRet = {} => (cpc' = "use" => SeenThrough(retptr)' = Reply(ncalls)) /\ OwnReply'
    BY <1>1, <1>2 DEF ReplyInv, OwnReply, Reply, SeenThrough, Nothing, Freed
  <2>4. Reply(ncalls)' = Reply(ncalls)
    BY <1>1 DEF Reply
  <2> QED BY <2>1, <2>2, <2>3, <2>4, <1>1 DEF ReplyInv
<1>6. ClientInv' /\ OwnData' /\ SentInv'
  BY <1>1, <1>2 DEF ClientInv, OwnData, Data, Nothing, SentInv
<1>7. Upcoming' = Upcoming
  BY <1>1 DEF Upcoming, CallPacket
<1>8. StreamInv'
  BY <1>2, <1>7 DEF StreamInv, Stream, Ascending, Legal, Takes, IsData, DataOf
<1>9. PoolInv'
  BY <1>1, <1>2, <1>7 DEF PoolInv, Payload, Takes, IsData, Nothing, Data
<1>10. WaitInv' /\ OrderInv'
  <2>1. ~Served'
    BY <1>1 DEF Served, Undisturbed
  <2> QED BY <2>1 DEF WaitInv, OrderInv
<1> QED BY <1>4, <1>5, <1>6, <1>8, <1>9, <1>10 DEF IInv

-----------------------------------------------------------------------------
(* The steps that take the server's next packet.                           *)

(***************************************************************************)
(* Whoever takes the packet, the client is where it was, and what is left  *)
(* is still such a stream.                                                 *)
(***************************************************************************)
LEMMA Taking ==
  ASSUME IInv, toServer # <<>>, toServer' = Tail(toServer), UNCHANGED <<app, clientVars>>
  PROVE  /\ Len(Upcoming) > 0 /\ Len(Upcoming) \in Nat /\ Len(Upcoming)' = Len(Upcoming) - 1
         /\ \A i \in 1 .. Len(Upcoming) - 1 : Upcoming'[i] = Upcoming[i + 1]
         /\ Upcoming[1] = Head(toServer) /\ Head(toServer) \in Packet /\ Legal(Head(toServer))
         /\ Len(toServer) > 0 /\ Len(toServer) \in Nat /\ Len(toServer)' = Len(toServer) - 1
         /\ \A i \in 1 .. Len(toServer) - 1 : toServer'[i] = toServer[i + 1]
         /\ Head(toServer) = toServer[1]
         /\ toServer' \in Seq([cmd : app.calls \cup {"SEND_DATA"}, n : 1 .. app.max, size : Sizes])
         /\ ClientInv' /\ StreamInv' /\ SentInv'
<1> DEFINE u == Upcoming  t == Tail(u)
<1>1. TypeOK /\ ClientInv /\ StreamInv /\ SentInv
  BY DEF IInv
<1>2. UNCHANGED <<app, cpc, call, ncalls, cpool, retptr, sent, returned>>
  BY DEF clientVars
<1>3. toServer \in Seq(Packet) /\ u \in Seq(Packet)
  BY <1>1, PacketsType
<1>4. /\ Len(toServer) \in Nat /\ Len(toServer) > 0 /\ Head(toServer) = toServer[1]
      /\ toServer[1] \in Packet /\ toServer' \in Seq(Packet) /\ Len(toServer') = Len(toServer) - 1
      /\ \A i \in 1 .. Len(toServer) - 1 : toServer'[i] = toServer[i + 1]
  BY <1>3, Parts
<1>5. u # <<>> /\ u[1] = toServer[1] /\ Upcoming' = t
  <2>1. CASE cpc = "call"
    <3> DEFINE c == CallPacket
    <3>1. c \in Packet
      BY <2>1, <1>1, PacketsType
    <3>2. Upcoming = Append(toServer, c) /\ Upcoming' = Append(toServer', c)
      BY <2>1, <1>2 DEF Upcoming, CallPacket
    <3> HIDE DEF c
    <3>3. /\ Append(toServer, c) # <<>> /\ Append(toServer, c)[1] = toServer[1]
          /\ Tail(Append(toServer, c)) = Append(Tail(toServer), c)
      BY <3>1, <1>3, TailOfAppended
    <3> QED BY <3>2, <3>3
  <2>2. CASE cpc # "call"
    BY <2>2, <1>2 DEF Upcoming
  <2> QED BY <2>1, <2>2
<1>6. Stream(u) /\ Ascending(u)
  BY <1>1 DEF StreamInv
<1> HIDE DEF u
<1>7. /\ Len(u) \in Nat /\ Len(u) > 0 /\ Len(t) = Len(u) - 1
      /\ \A i \in 1 .. Len(u) - 1 : t[i] = u[i + 1]
  BY <1>3, <1>5, Parts
<1>8. Stream(t) /\ Ascending(t)
  BY <1>3, <1>5, <1>6, TailOfStream
<1> HIDE DEF t
<1>9. StreamInv'
  BY <1>5, <1>8 DEF StreamInv, Stream, Ascending, Legal, Takes, IsData, DataOf
<1>10. Legal(u[1])
  BY <1>6, <1>7 DEF Stream
<1>11. ClientInv'
  <2>1. \A i \in 1 .. Len(toServer') : i + 1 \in 1 .. Len(toServer) /\ toServer'[i] = toServer[i + 1]
    BY <1>4
  <2> QED BY <2>1, <1>1, <1>2 DEF ClientInv, IsData
<1>12. SentInv'
  BY <1>1, <1>2 DEF SentInv
<1> QED BY <1>4, <1>5, <1>7, <1>9, <1>10, <1>11, <1>12 DEF u, Packet

(***************************************************************************)
(* A large packet of data has its call behind it.                          *)
(***************************************************************************)
LEMMA LargeFollowed ==
  ASSUME StreamInv, Len(Upcoming) > 0, Len(Upcoming) \in Nat,
         IsData(Upcoming[1]), Upcoming[1].size = "large"
  PROVE  Len(Upcoming) > 1 /\ ~IsData(Upcoming[2]) /\ Upcoming[2].size = "large"
<1>1. 1 \in 1 .. Len(Upcoming)
  OBVIOUS
<1>2. 1 < Len(Upcoming) /\ ~IsData(Upcoming[1 + 1]) /\ Upcoming[1 + 1].size = "large"
  BY <1>1 DEF StreamInv, Stream
<1> QED BY <1>2

LEMMA TakesFollows ==
  ASSUME StreamInv, Len(Upcoming) > 1, Len(Upcoming) \in Nat, Takes(Upcoming[2])
  PROVE  Upcoming[1] = DataOf(Upcoming[2])
<1>1. 2 \in 1 .. Len(Upcoming) /\ 2 > 1 /\ 2 - 1 = 1
  OBVIOUS
<1>2. Upcoming[2 - 1] = DataOf(Upcoming[2])
  BY <1>1 DEF StreamInv, Stream
<1> QED BY <1>1, <1>2

(***************************************************************************)
(* What is left replies no more than it did.                               *)
(***************************************************************************)
LEMMA StillReplies ==
  ASSUME IInv, toServer # <<>>, toServer' = Tail(toServer), UNCHANGED <<app, clientVars>>,
         toClient' = toClient
  PROVE  ReplyInv'
<1>1. ReplyInv
  BY DEF IInv
<1>2. UNCHANGED <<app, cpc, call, ncalls, cpool, retptr, sent, returned>>
  BY DEF clientVars
<1>3. /\ Len(toServer) \in Nat /\ Len(toServer)' = Len(toServer) - 1
      /\ \A i \in 1 .. Len(toServer) - 1 : toServer'[i] = toServer[i + 1]
  BY Taking
<1>4. ASSUME NEW i \in 1 .. Len(toServer'), toServer'[i].cmd \in ServerReplies
      PROVE  /\ i = Len(toServer') /\ Len(toClient) = 0
             /\ toServer'[i].n = ncalls /\ toServer'[i].cmd = call.op
             /\ cpc \in {"wait", "exited"}
  <2>1. i + 1 \in 1 .. Len(toServer) /\ toServer'[i] = toServer[i + 1]
    BY <1>3
  <2>2. i + 1 = Len(toServer)
    BY <2>1, <1>1, <1>4 DEF ReplyInv
  <2> QED BY <2>1, <2>2, <1>1, <1>3, <1>4 DEF ReplyInv
<1>5. app.calls \cap EarlyRet = {} => (cpc' = "use" => SeenThrough(retptr)' = Reply(ncalls)) /\ OwnReply'
  BY <1>1, <1>2 DEF ReplyInv, OwnReply, Reply, SeenThrough, Nothing, Freed
<1>6. Reply(ncalls)' = Reply(ncalls)
  BY <1>2 DEF Reply
<1>7. Len(toClient') > 0 => /\ Len(toClient') = 1 /\ toClient'[1].n = ncalls' /\ toClient'[1].cmd = call'.op
                            /\ cpc' \in {"wait", "exited"}
  BY <1>1, <1>2 DEF ReplyInv
<1> QED BY <1>2, <1>4, <1>5, <1>6, <1>7 DEF ReplyInv

(***************************************************************************)
(* Unless it is the reply's, a packet may be taken while the client waits. *)
(***************************************************************************)
LEMMA StillWaits ==
  ASSUME IInv, toServer # <<>>, toServer' = Tail(toServer), UNCHANGED <<app, clientVars>>,
         toClient' = toClient, Served => Head(toServer).cmd \notin ServerReplies
  PROVE  WaitInv'
<1>1. WaitInv
  BY DEF IInv
<1>2. UNCHANGED <<app, cpc>>
  BY DEF clientVars
<1>3. /\ Len(toServer) \in Nat /\ Len(toServer) > 0 /\ Len(toServer)' = Len(toServer) - 1
      /\ \A i \in 1 .. Len(toServer) - 1 : toServer'[i] = toServer[i + 1]
      /\ Head(toServer) = toServer[1]
  BY Taking
<1>4. ASSUME Served, cpc = "wait", ~(Len(toClient) > 0)
      PROVE  Len(toServer') > 0 /\ toServer'[Len(toServer')].cmd \in ServerReplies
  <2>1. toServer[Len(toServer)].cmd \in ServerReplies
    BY <1>1, <1>4 DEF WaitInv
  <2>2. Len(toServer) # 1
    BY <2>1, <1>3, <1>4
  <2>3. Len(toServer') \in 1 .. Len(toServer) - 1 /\ Len(toServer') + 1 = Len(toServer)
    BY <2>2, <1>3
  <2> QED BY <2>1, <2>3, <1>3
<1>5. Served' <=> Served
  BY <1>2 DEF Served, Undisturbed
<1> QED BY <1>2, <1>4, <1>5 DEF WaitInv

LEMMA WaitsForData ==
  ASSUME NEW p, Legal(p), ~IsData(p)
  PROVE  WaitData(p) <=> p.size # "none"
<1>1. /\ p.cmd \in UsesAlways => p.size # "none"
      /\ p.size # "none" => p.cmd \in ServerUses
  BY DataKinds DEF Legal
<1> QED BY <1>1 DEF WaitData, ServerUses

LEMMA HandleDataStep ==
  ASSUME IInv, HandleData
  PROVE  IInv'
<1> DEFINE p == Head(toServer)
<1>1. /\ toServer # <<>> /\ p.cmd = "SEND_DATA" /\ toServer' = Tail(toServer)
      /\ spool' = [has_data |-> TRUE,
                   tmp |-> IF p.size = "large" THEN spool.tmp ELSE Data(p.n),
                   buf |-> IF p.size = "large" THEN Data(p.n) ELSE Nothing]
      /\ UNCHANGED <<app, clientVars, toClient, executed>>
  BY DEF HandleData, TakeOver
<1>2. UNCHANGED <<cpc, call, ncalls, cpool, retptr, sent, returned>>
  BY <1>1 DEF clientVars
<1>3. TypeOK /\ ClientInv /\ StreamInv /\ PoolInv /\ OwnData /\ OrderInv
  BY DEF IInv
<1>4. /\ Len(Upcoming) > 0 /\ Len(Upcoming) \in Nat /\ Len(Upcoming)' = Len(Upcoming) - 1
      /\ \A i \in 1 .. Len(Upcoming) - 1 : Upcoming'[i] = Upcoming[i + 1]
      /\ Upcoming[1] = p /\ p \in Packet /\ Legal(p) /\ p = toServer[1]
      /\ toServer' \in Seq([cmd : app.calls \cup {"SEND_DATA"}, n : 1 .. app.max, size : Sizes])
      /\ ClientInv' /\ StreamInv' /\ SentInv'
  BY <1>1, Taking
<1> HIDE DEF p
<1>5. IsData(p) /\ p.n \in 1 .. app.max
  BY <1>1, <1>4 DEF IsData, Packet
<1>6. Data(p.n) \in Content /\ Nothing \in Content /\ Data(p.n) # Nothing
  BY <1>5, Contents
<1>7. TypeOK'
  <2>1. spool' \in [has_data : BOOLEAN, tmp : Content, buf : Content]
    <3>1. spool.tmp \in Content
      BY <1>3 DEF TypeOK
    <3> QED BY <3>1, <1>1, <1>6
  <2>2. Content' = Content
    BY <1>1 DEF Content
  <2> QED BY <2>1, <2>2, <1>1, <1>2, <1>3, <1>4 DEF TypeOK
<1>8. Len(Upcoming) > 1 => Upcoming'[1] = Upcoming[2]
  BY <1>4
<1>9. PoolInv'
  <2>1. ASSUME spool'.buf # Nothing
        PROVE  /\ spool'.has_data
               /\ Len(Upcoming)' > 0 /\ ~IsData(Upcoming'[1]) /\ Upcoming'[1].size = "large"
    <3>1. p.size = "large"
      BY <2>1, <1>1
    <3>2. Len(Upcoming) > 1 /\ ~IsData(Upcoming[2]) /\ Upcoming[2].size = "large"
      BY <3>1, <1>3, <1>4, <1>5, LargeFollowed
    <3> QED BY <3>2, <1>1, <1>4, <1>8
  <2>2. ASSUME Len(Upcoming)' > 0, Takes(Upcoming'[1])
        PROVE  spool'.has_data /\ Payload' = Data(Upcoming'[1].n)
    <3>1. Len(Upcoming) > 1 /\ Takes(Upcoming[2])
      BY <2>2, <1>4, <1>8
    <3>2. p = DataOf(Upcoming[2])
      BY <3>1, <1>3, <1>4, TakesFollows
    <3>3. p.n = Upcoming'[1].n
      BY <3>1, <3>2, <1>8 DEF DataOf
    <3>4. Payload' = Data(p.n)
      BY <1>1, <1>6 DEF Payload, Nothing
    <3> QED BY <3>3, <3>4, <1>1
  <2> QED BY <2>1, <2>2 DEF PoolInv, Takes, IsData, Nothing, Data
<1>10. ReplyInv'
  BY <1>1, StillReplies
<1>11. WaitInv'
  <2>1. Head(toServer).cmd \notin ServerReplies
    BY <1>1, DataIsNoReply DEF p
  <2> QED BY <2>1, <1>1, StillWaits
<1>12. OwnData'
  BY <1>1, <1>3 DEF OwnData, Data, Nothing
<1>13. OrderInv'
  <2>1. toServer \in Seq(Packet)
    BY <1>3, PacketsType
  <2>2. Numbers(toServer') = Numbers(toServer)
    BY <2>1, <1>1, <1>4, <1>5, DataTaken
  <2>3. InOrder(executed, sent, toServer) => InOrder(executed', sent', toServer')
    BY <2>2, <1>1, <1>2 DEF InOrder
  <2>4. Served /\ cpc' = "exited" => Len(toServer)' = 0
    BY <1>1, <1>2, <1>3, <2>1, Parts DEF OrderInv
  <2> QED BY <2>3, <2>4, <1>1, <1>3, OrderStep
<1> QED BY <1>4, <1>7, <1>9, <1>10, <1>11, <1>12, <1>13 DEF IInv

LEMMA LoseDataStep ==
  ASSUME IInv, LoseData
  PROVE  IInv'
<1>1. /\ app.lossy /\ toServer # <<>> /\ Head(toServer).cmd = "SEND_DATA"
      /\ toServer' = Tail(toServer)
      /\ UNCHANGED <<app, clientVars, toClient, spool, executed>>
  BY DEF LoseData, serverVars
<1>2. UNCHANGED <<cpc, call, ncalls, cpool, retptr, sent, returned>>
  BY <1>1 DEF clientVars
<1>3. TypeOK /\ PoolInv
  BY DEF IInv
<1>4. /\ Upcoming[1] = Head(toServer) /\ Len(toServer) > 0
      /\ toServer' \in Seq([cmd : app.calls \cup {"SEND_DATA"}, n : 1 .. app.max, size : Sizes])
      /\ ClientInv' /\ StreamInv' /\ SentInv'
  BY <1>1, Taking
<1>5. TypeOK'
  BY <1>1, <1>2, <1>3, <1>4 DEF TypeOK, Content
<1>6. spool.buf = Nothing
  BY <1>1, <1>3, <1>4 DEF PoolInv, IsData
<1>7. PoolInv'
  BY <1>1, <1>6 DEF PoolInv, Nothing
<1>8. ReplyInv'
  BY <1>1, StillReplies
<1>9. ~Served' /\ ~Served
  BY <1>1 DEF Served, Undisturbed
<1>10. WaitInv' /\ OrderInv'
  BY <1>9 DEF WaitInv, OrderInv
<1>11. OwnData'
  BY <1>1 DEF OwnData
<1> QED BY <1>4, <1>5, <1>7, <1>8, <1>10, <1>11 DEF IInv

(***************************************************************************)
(* When the server is done with a call it holds no large buffer, and the   *)
(* next packet is not a call that takes data.                              *)
(***************************************************************************)
LEMMA PoolEmptied ==
  ASSUME IInv, toServer # <<>>, toServer' = Tail(toServer), UNCHANGED <<app, clientVars>>,
         ~IsData(Head(toServer)), spool'.buf = Nothing
  PROVE  PoolInv'
<1>1. StreamInv
  BY DEF IInv
<1>2. /\ Len(Upcoming) \in Nat /\ Len(Upcoming)' = Len(Upcoming) - 1
      /\ \A i \in 1 .. Len(Upcoming) - 1 : Upcoming'[i] = Upcoming[i + 1]
      /\ Upcoming[1] = Head(toServer)
  BY Taking
<1>3. ASSUME Len(Upcoming)' > 0, Takes(Upcoming'[1])
      PROVE  FALSE
  <2>1. Len(Upcoming) > 1 /\ Upcoming'[1] = Upcoming[2]
    BY <1>2, <1>3
  <2>2. Upcoming[1] = DataOf(Upcoming[2])
    BY <2>1, <1>1, <1>2, <1>3, TakesFollows
  <2> QED BY <2>2, <1>2 DEF DataOf, IsData
<1> QED BY <1>3 DEF PoolInv, Takes, IsData, Nothing

(***************************************************************************)
(* A call for which the server holds a large buffer will free it.          *)
(***************************************************************************)
LEMMA WillFree ==
  ASSUME IInv, toServer # <<>>, spool.buf # Nothing
  PROVE  spool.has_data /\ Head(toServer).cmd \in ServerReleases /\ ~IsData(Head(toServer))
<1>1. TypeOK /\ ClientInv /\ StreamInv /\ PoolInv
  BY DEF IInv
<1>2. toServer \in Seq(Packet)
  BY <1>1, PacketsType
<1>3. Len(toServer) > 0 /\ Len(toServer) \in Nat /\ Head(toServer) = toServer[1]
  BY <1>2, Parts
<1>4. Upcoming[1] = toServer[1]
  <2>1. CASE cpc = "call"
    <3> DEFINE c == CallPacket
    <3>1. c \in Packet
      BY <2>1, <1>1, PacketsType
    <3>2. Upcoming = Append(toServer, c)
      BY <2>1 DEF Upcoming
    <3> HIDE DEF c
    <3>3. Append(toServer, c)[1] = toServer[1]
      BY <3>1, <1>2, TailOfAppended
    <3> QED BY <3>2, <3>3
  <2>2. CASE cpc # "call"
    BY <2>2 DEF Upcoming
  <2> QED BY <2>1, <2>2
<1>5. spool.has_data /\ Len(Upcoming) > 0 /\ ~IsData(toServer[1]) /\ toServer[1].size = "large"
  BY <1>1, <1>3, <1>4 DEF PoolInv
<1>6. Upcoming \in Seq(Packet)
  BY <1>1, PacketsType
<1>7. Len(Upcoming) \in Nat
  BY <1>6, LenProperties
<1>8. Legal(toServer[1])
  BY <1>1, <1>4, <1>5, <1>7 DEF StreamInv, Stream
<1> QED BY <1>3, <1>5, <1>8, LargeData DEF Legal

LEMMA ServedCalls ==
  ASSUME TypeOK, Served, NEW p \in Packet, ~IsData(p)
  PROVE  p.cmd \in ServerHandles
<1>1. p.cmd \in app.calls
  BY DEF Packet, IsData
<1>2. p.cmd \in ClientCalls /\ p.cmd \notin Unanswered
  BY <1>1, AppType DEF Served
<1> QED BY <1>2, CallsAreHandled

(***************************************************************************)
(* A call without handler, and a call whose data was lost.                 *)
(***************************************************************************)
LEMMA DroppedStep ==
  ASSUME IInv, UnhandledCall \/ SkipCall
  PROVE  IInv'
<1> DEFINE p == Head(toServer)
<1>1. /\ toServer # <<>> /\ toServer' = Tail(toServer)
      /\ UNCHANGED <<app, clientVars, toClient, spool, executed>>
  BY DEF UnhandledCall, SkipCall
<1>2. UNCHANGED <<cpc, call, ncalls, cpool, retptr, sent, returned>>
  BY <1>1 DEF clientVars
<1>3. TypeOK /\ ClientInv /\ StreamInv /\ PoolInv /\ OwnData
  BY DEF IInv
<1>4. /\ Len(Upcoming) > 0 /\ Upcoming[1] = p /\ p \in Packet /\ Legal(p)
      /\ toServer' \in Seq([cmd : app.calls \cup {"SEND_DATA"}, n : 1 .. app.max, size : Sizes])
      /\ ClientInv' /\ StreamInv' /\ SentInv'
  BY <1>1, Taking
<1>5. \/ p.cmd \notin ServerHandles \cup {"SEND_DATA"}
      \/ p.cmd \in ServerHandles /\ WaitData(p) /\ ~spool.has_data
  BY DEF UnhandledCall, SkipCall
<1> HIDE DEF p
<1>6. ~IsData(p)
  <2>1. ASSUME IsData(p), WaitData(p)
        PROVE  FALSE
    <3>1. p.cmd \notin ServerUses
      <4>1. "SEND_DATA" \notin ClientCalls
        BY DataIsNoCall
      <4>2. ServerUses \subseteq ClientCalls
        BY SameData DEF ServerUses, UsesAlways, ClientCalls, ClientWaits
      <4> QED BY <4>1, <4>2, <2>1 DEF IsData
    <3> QED BY <3>1, <2>1 DEF WaitData, ServerUses
  <2> QED BY <2>1, <1>5 DEF IsData
<1>7. spool.buf = Nothing
  <2>1. ASSUME spool.buf # Nothing
        PROVE  FALSE
    <3>1. spool.has_data /\ p.cmd \in ServerReleases
      BY <2>1, <1>1, WillFree DEF p
    <3>2. p.cmd \in ServerHandles
      BY <3>1, Handled DEF ServerReleases
    <3> QED BY <3>1, <3>2, <1>5
  <2> QED BY <2>1
<1>8. ~Served
  <2>1. ASSUME Served
        PROVE  FALSE
    <3>1. p.cmd \in ServerHandles
      BY <2>1, <1>3, <1>4, <1>6, ServedCalls
    <3>2. Takes(p) /\ ~spool.has_data
      BY <3>1, <1>4, <1>5, <1>6, WaitsForData DEF Takes
    <3> QED BY <3>2, <2>1, <1>3, <1>4 DEF PoolInv, Served, Undisturbed
  <2> QED BY <2>1
<1>9. TypeOK'
  BY <1>1, <1>2, <1>3, <1>4 DEF TypeOK, Content
<1>10. PoolInv'
  <2>1. ~IsData(Head(toServer)) /\ spool'.buf = Nothing
    BY <1>1, <1>6, <1>7 DEF p
  <2> QED BY <2>1, <1>1, PoolEmptied
<1>11. ReplyInv'
  BY <1>1, StillReplies
<1>12. ~Served'
  BY <1>1, <1>8 DEF Served, Undisturbed
<1>13. WaitInv' /\ OrderInv'
  BY <1>12 DEF WaitInv, OrderInv
<1>14. OwnData'
  BY <1>1, <1>3 DEF OwnData, Data, Nothing
<1> QED BY <1>4, <1>9, <1>10, <1>11, <1>13, <1>14 DEF IInv

LEMMA ReplySizesType ==
  ASSUME NEW op, NEW s \in ReplySizes(op)
  PROVE  s \in {"small", "large"}
<1> DEFINE L == op \in {"eglChooseConfig", "eglGetConfigs", "eglQueryString", "glGetString"}
           E == op \in GeneratesReplies \cup {"glGetProgramInfoLog", "glGetShaderInfoLog"}
<1>1. L => ~E
  BY DEF GeneratesReplies
<1>2. ReplySizes(op) = CASE L -> {"large"} [] E -> {"small", "large"} [] OTHER -> {"small"}
  BY DEF ReplySizes
<1> HIDE DEF L, E
<1>3. CASE L
  BY <1>1, <1>2, <1>3
<1>4. CASE ~L /\ E
  BY <1>2, <1>4
<1>5. CASE ~L /\ ~E
  BY <1>2, <1>5
<1> QED BY <1>3, <1>4, <1>5

LEMMA ServerAscends ==
  ASSUME TypeOK, ClientInv, StreamInv
  PROVE  Ascending(toServer)
<1>1. CASE cpc = "call"
  <2> DEFINE c == CallPacket
  <2>1. toServer \in Seq(Packet) /\ c \in Packet
    BY <1>1, PacketsType
  <2>2. Upcoming = Append(toServer, c)
    BY <1>1 DEF Upcoming
  <2> HIDE DEF c
  <2>3. /\ Len(toServer) \in Nat /\ Len(Upcoming) = Len(toServer) + 1
        /\ \A i \in 1 .. Len(toServer) : Upcoming[i] = toServer[i]
    BY <2>1, <2>2, Appended
  <2>4. \A i \in 1 .. Len(toServer) : i \in 1 .. Len(Upcoming)
    BY <2>3
  <2> QED BY <2>3, <2>4 DEF StreamInv, Ascending
<1>2. CASE cpc # "call"
  BY <1>2 DEF Upcoming, StreamInv
<1> QED BY <1>1, <1>2

LEMMA ExecuteStep ==
  ASSUME IInv, ExecuteCall
  PROVE  IInv'
<1> DEFINE p == Head(toServer)
           released == IF p.cmd \in ServerReleases
                       THEN [spool EXCEPT !.has_data = FALSE, !.buf = Nothing] ELSE spool
           e == [n |-> p.n, flag |-> p.size # "none",
                 input |-> IF WaitData(p) THEN Payload ELSE Nothing]
           E == [n : 1 .. app.max, flag : BOOLEAN, input : Content]
           R == [cmd : app.calls, n : 1 .. app.max, size : {"small", "large"}]
<1>1. /\ toServer # <<>> /\ toServer' = Tail(toServer)
      /\ UNCHANGED <<app, clientVars>>
      /\ p.cmd \in ServerHandles /\ (WaitData(p) => spool.has_data)
      /\ executed' = Append(executed, e)
      /\ p.cmd \in ServerReplies => spool' = [released EXCEPT !.tmp = Reply(p.n)]
      /\ p.cmd \in ServerReplies => \E s \in ReplySizes(p.cmd) : toClient' = Append(toClient, ReplyTo(p, s))
      /\ p.cmd \notin ServerReplies => spool' = released /\ toClient' = toClient
  BY DEF ExecuteCall
<1>2. UNCHANGED <<cpc, call, ncalls, cpool, retptr, sent, returned>>
  BY <1>1 DEF clientVars
<1>3. TypeOK /\ ClientInv /\ StreamInv /\ PoolInv /\ ReplyInv /\ OwnData /\ SentInv /\ OrderInv
  BY DEF IInv
<1>4. /\ Len(Upcoming) > 0 /\ Upcoming[1] = p /\ p \in Packet /\ Legal(p) /\ p = toServer[1]
      /\ Len(toServer) > 0 /\ Len(toServer) \in Nat /\ Len(toServer)' = Len(toServer) - 1
      /\ toServer' \in Seq([cmd : app.calls \cup {"SEND_DATA"}, n : 1 .. app.max, size : Sizes])
      /\ ClientInv' /\ StreamInv' /\ SentInv'
  BY <1>1, Taking
<1>5. ASSUME spool.buf # Nothing
      PROVE  p.cmd \in ServerReleases
  BY <1>1, <1>5, WillFree
<1> HIDE DEF p
<1>6. /\ spool \in [has_data : BOOLEAN, tmp : Content, buf : Content]
      /\ executed \in Seq(E) /\ toClient \in Seq(R)
  BY <1>3 DEF TypeOK
<1>7. released \in [has_data : BOOLEAN, tmp : Content, buf : Content] /\ released.buf = Nothing
  BY <1>5, <1>6, Contents
<1>8. p.n \in 1 .. app.max /\ p.cmd \in app.calls \cup {"SEND_DATA"}
  BY <1>4 DEF Packet
<1>9. ~IsData(p)
  <2>1. "SEND_DATA" \notin ServerHandles
    BY DEF ServerHandles, ServerUses, UsesAttribs, UsesPayload, UsesAlways, UsesVertexAttrib,
           AllReplies, EglReplies, EglQueryReplies, CreateReplies, GeneratesReplies, GetReplies,
           LateReplies, HandlesState, HandlesClear, HandlesDelete, HandlesDraw, HandlesSetting,
           HandlesStencil, HandlesUniform, HandlesView
  <2> QED BY <2>1, <1>1 DEF IsData
<1>10. p.cmd \in app.calls
  BY <1>8, <1>9 DEF IsData
<1>11. WaitData(p) <=> p.size # "none"
  BY <1>4, <1>9, WaitsForData
<1>12. Payload \in Content
  BY <1>6 DEF Payload
<1>13. e \in E
  <2>1. (p.size # "none") \in BOOLEAN
    OBVIOUS
  <2>2. (IF WaitData(p) THEN Payload ELSE Nothing) \in Content
    BY <1>12, Contents
  <2> QED BY <2>1, <2>2, <1>8
<1>14. e.n = p.n /\ (e.flag <=> p.size # "none") /\ e.input = IF WaitData(p) THEN Payload ELSE Nothing
  OBVIOUS
<1> HIDE DEF e, released, E, R
<1>15. /\ executed' \in Seq(E) /\ Len(executed) \in Nat /\ Len(executed') = Len(executed) + 1
       /\ \A i \in 1 .. Len(executed) : executed'[i] = executed[i]
       /\ executed'[Len(executed) + 1] = e
  BY <1>1, <1>6, <1>13, Appended
<1>16. /\ spool' \in [has_data : BOOLEAN, tmp : Content, buf : Content]
       /\ spool'.buf = Nothing
  <2>1. Reply(p.n) \in Content
    BY <1>8, Contents
  <2> QED BY <2>1, <1>1, <1>7
<1>17. ASSUME p.cmd \in ServerReplies
       PROVE  \E r \in R : /\ r.cmd = p.cmd /\ r.n = p.n /\ toClient' = Append(toClient, r)
  <2>1. PICK s \in ReplySizes(p.cmd) : toClient' = Append(toClient, ReplyTo(p, s))
    BY <1>1, <1>17
  <2>2. s \in {"small", "large"}
    BY ReplySizesType
  <2>3. ReplyTo(p, s) = [cmd |-> p.cmd, n |-> p.n, size |-> s]
    BY DEF ReplyTo
  <2>4. ReplyTo(p, s) \in R /\ ReplyTo(p, s).cmd = p.cmd /\ ReplyTo(p, s).n = p.n
    BY <2>2, <2>3, <1>8, <1>10 DEF R
  <2> QED BY <2>1, <2>4
<1>18. toClient' \in Seq(R)
  <2>1. CASE p.cmd \in ServerReplies
    BY <2>1, <1>6, <1>17, Appended
  <2> QED BY <2>1, <1>1, <1>6
<1>19. TypeOK'
  <2>1. Content' = Content
    BY <1>1 DEF Content
  <2> QED BY <2>1, <1>1, <1>2, <1>3, <1>4, <1>15, <1>16, <1>18 DEF TypeOK, E, R
<1>20. PoolInv'
  <2>1. ~IsData(Head(toServer))
    BY <1>9 DEF p
  <2> QED BY <2>1, <1>1, <1>16, PoolEmptied
<1>21. ReplyInv' /\ WaitInv'
  <2>1. CASE p.cmd \in ServerReplies
    <3>1. PICK r \in R : r.cmd = p.cmd /\ r.n = p.n /\ toClient' = Append(toClient, r)
      BY <2>1, <1>17
    <3>2. 1 \in 1 .. Len(toServer)
      BY <1>4
    <3>3. /\ Len(toServer) = 1 /\ Len(toClient) = 0 /\ p.n = ncalls /\ p.cmd = call.op
          /\ cpc \in {"wait", "exited"}
      BY <2>1, <3>2, <1>3, <1>4 DEF ReplyInv
    <3>4. Len(toClient') = 1 /\ toClient'[1] = r
      <4>1. Len(toClient') = Len(toClient) + 1 /\ toClient'[Len(toClient) + 1] = r
        BY <3>1, <1>6, Appended
      <4> QED BY <4>1, <3>3
    <3>5. Len(toServer') = 0
      BY <3>3, <1>4
    <3>6. app.calls \cap EarlyRet = {} => OwnReply'
      BY <1>2, <1>3 DEF ReplyInv, OwnReply, Reply
    <3>7. cpc' # "use"
      BY <3>3, <1>2
    <3>8. ReplyInv'
      BY <3>1, <3>3, <3>4, <3>5, <3>6, <3>7, <1>1, <1>2 DEF ReplyInv
    <3> QED BY <3>4, <3>8 DEF WaitInv
  <2>2. CASE p.cmd \notin ServerReplies
    <3>1. toClient' = toClient /\ Head(toServer).cmd \notin ServerReplies
      BY <2>2, <1>1 DEF p
    <3> QED BY <3>1, <1>1, StillReplies, StillWaits
  <2> QED BY <2>1, <2>2
<1>22. OwnData'
  <2>1. ASSUME ~app.lossy
        PROVE  e.input = IF e.flag THEN Data(e.n) ELSE Nothing
    <3>1. CASE p.size # "none"
      <4>1. Payload = Data(p.n)
        BY <2>1, <3>1, <1>3, <1>4, <1>9 DEF PoolInv, Takes
      <4> QED BY <4>1, <3>1, <1>11, <1>14
    <3>2. CASE p.size = "none"
      BY <3>2, <1>11, <1>14
    <3> QED BY <3>1, <3>2
  <2>2. \A i \in 1 .. Len(executed') : i \in 1 .. Len(executed) \/ i = Len(executed) + 1
    BY <1>15
  <2>3. \A i \in 1 .. Len(executed') :
          ~app.lossy => executed'[i].input = IF executed'[i].flag THEN Data(executed'[i].n) ELSE Nothing
    BY <2>1, <2>2, <1>3, <1>15 DEF OwnData
  <2> QED BY <2>3, <1>1 DEF OwnData, Data, Nothing
<1>23. OrderInv'
  <2>1. ASSUME InOrder(executed, sent, toServer)
        PROVE  InOrder(executed', sent', toServer')
    <3> DEFINE k == Len(executed)
    <3>1. /\ sent \in Seq(Nat) /\ Len(sent) \in Nat /\ k \in Nat
      BY <1>3, SentType
    <3>2. Increasing(sent)
      BY <1>3 DEF SentInv, Increasing
    <3>3. k <= Len(sent) /\ Numbers(toServer) = Rest(sent, k) /\ \A i \in 1 .. k : executed[i].n = sent[i]
      BY <2>1 DEF InOrder
    <3>4. toServer \in Seq(Packet) /\ \A i \in 1 .. Len(toServer) : toServer[i].n \in Nat
      <4>1. toServer \in Seq(Packet) /\ \A q \in Packet : q.n \in Nat
        BY <1>3, PacketsType
      <4>2. \A i \in 1 .. Len(toServer) : toServer[i] \in Packet
        BY <4>1, ElementOfSeq
      <4> QED BY <4>1, <4>2
    <3>5. Ascending(toServer)
      BY <1>3, ServerAscends
    <3>6. ~IsData(toServer[1])
      BY <1>4, <1>9
    <3> HIDE DEF k
    <3>7. k + 1 <= Len(sent) /\ sent[k + 1] = toServer[1].n /\ Numbers(Tail(toServer)) = Rest(sent, k + 1)
      BY <3>1, <3>2, <3>3, <3>4, <3>5, <3>6, <1>1, CallTaken
    <3>8. Len(executed') = k + 1 /\ k \in Nat
      BY <1>15 DEF k
    <3>9. \A i \in 1 .. k + 1 : executed'[i].n = sent[i]
      <4>1. \A i \in 1 .. k + 1 : i \in 1 .. k \/ i = k + 1
        BY <3>8
      <4>2. executed'[k + 1].n = sent[k + 1]
        BY <3>7, <1>4, <1>14, <1>15 DEF k
      <4>3. \A i \in 1 .. k : executed'[i] = executed[i]
        BY <1>15 DEF k
      <4> QED BY <4>1, <4>2, <4>3, <3>3
    <3>10. Numbers(toServer') = Rest(sent, k + 1)
      BY <3>7, <1>1
    <3> QED BY <3>7, <3>8, <3>9, <3>10, <1>2 DEF InOrder
  <2>2. Served /\ cpc' = "exited" => Len(toServer)' = 0
    BY <1>2, <1>3, <1>4 DEF OrderInv
  <2> QED BY <2>1, <2>2, <1>1, <1>3, OrderStep
<1> QED BY <1>4, <1>19, <1>20, <1>21, <1>22, <1>23 DEF IInv

LEMMA EndStep ==
  ASSUME IInv, ServerEnds
  PROVE  IInv'
<1>1. /\ cpc = "exited" /\ toServer # <<>> /\ toServer' = <<>>
      /\ UNCHANGED <<app, clientVars, toClient, spool, executed>>
  BY DEF ServerEnds, serverVars
<1>2. UNCHANGED <<cpc, call, ncalls, cpool, retptr, sent, returned>>
  BY <1>1 DEF clientVars
<1>3. TypeOK /\ ClientInv /\ PoolInv /\ ReplyInv /\ OwnData /\ SentInv /\ OrderInv
  BY DEF IInv
<1>4. Len(toServer') = 0 /\ Upcoming' = <<>> /\ Len(Upcoming') = 0
  BY <1>1, <1>2 DEF Upcoming
<1>5. \A i : i \notin 1 .. 0
  OBVIOUS
<1>6. TypeOK'
  BY <1>1, <1>2, <1>3, EmptySeq DEF TypeOK, Content
<1>7. ClientInv'
  BY <1>2, <1>1, <1>3, <1>4, <1>5 DEF ClientInv
<1>8. StreamInv'
  BY <1>4, <1>5 DEF StreamInv, Stream, Ascending
<1>9. PoolInv'
  <2>1. spool.buf # Nothing => spool.has_data
    BY <1>3 DEF PoolInv
  <2> QED BY <2>1, <1>1, <1>2, <1>4 DEF PoolInv, Nothing
<1>10. ReplyInv'
  BY <1>1, <1>2, <1>3, <1>4, <1>5 DEF ReplyInv, OwnReply, Reply
<1>11. WaitInv' /\ OwnData' /\ SentInv'
  BY <1>1, <1>2, <1>3 DEF WaitInv, OwnData, Data, Nothing, SentInv
<1>12. OrderInv'
  <2>1. toServer \in Seq(Packet)
    BY <1>3, PacketsType
  <2>2. Len(toServer) > 0
    BY <2>1, <1>1, Parts
  <2>3. ~Served
    BY <2>2, <1>1, <1>3 DEF OrderInv
  <2>4. ~Served'
    BY <2>3, <1>1 DEF Served, Undisturbed
  <2> QED BY <2>4 DEF OrderInv
<1> QED BY <1>6, <1>7, <1>8, <1>9, <1>10, <1>11, <1>12 DEF IInv

-----------------------------------------------------------------------------
(* The invariant, and what it says.                                        *)

LEMMA Starts == Init => IInv
<1> SUFFICES ASSUME Init
             PROVE  IInv
  OBVIOUS
<1>1. /\ app \in Applications
      /\ cpc = "idle" /\ call = [op |-> "none", size |-> "none"] /\ ncalls = 0
      /\ cpool = [tmp |-> Nothing, buf |-> Nothing] /\ retptr = Nothing
      /\ toServer = <<>> /\ toClient = <<>>
      /\ spool = [has_data |-> FALSE, tmp |-> Nothing, buf |-> Nothing]
      /\ sent = <<>> /\ executed = <<>> /\ returned = <<>>
  BY DEF Init
<1>2. Len(<<>>) = 0 /\ \A i : i \notin 1 .. 0
  OBVIOUS
<1>3. app.max \in Nat
  BY <1>1, DispatchAssumption
<1>4. TypeOK
  BY <1>1, <1>3, Contents, EmptySeq DEF TypeOK, Sizes
<1>5. ClientInv /\ SentInv /\ WaitInv /\ OwnData /\ ReplyInv
  BY <1>1, <1>2 DEF ClientInv, SentInv, WaitInv, OwnData, ReplyInv, OwnReply
<1>6. Upcoming = <<>>
  BY <1>1 DEF Upcoming
<1>7. StreamInv /\ PoolInv
  BY <1>1, <1>2, <1>6 DEF StreamInv, Stream, Ascending, PoolInv
<1>8. OrderInv
  <2>1. Numbers(<<>>) = {}
    BY DEF Numbers
  <2>2. Rest(<<>>, Len(<<>>)) = {}
    BY <1>2 DEF Rest
  <2>4. InOrder(<<>>, <<>>, <<>>)
    <3>1. Len(<<>>) <= Len(<<>>) /\ \A i \in 1 .. Len(<<>>) : <<>>[i].n = <<>>[i]
      BY <1>2
    <3> QED BY <3>1, <2>1, <2>2 DEF InOrder
  <2>3. InOrder(executed, sent, toServer)
    BY <2>4, <1>1
  <2> QED BY <2>3, <1>1, OrderNow DEF OrderInv
<1> QED BY <1>4, <1>5, <1>7, <1>8 DEF IInv

LEMMA Stutters ==
  ASSUME IInv, UNCHANGED vars
  PROVE  IInv'
<1>1. UNCHANGED <<app, cpc, call, ncalls, cpool, retptr, sent, returned, toServer, toClient, spool, executed>>
  BY DEF vars, clientVars, serverVars
<1>2. TypeOK /\ ClientInv /\ StreamInv /\ PoolInv /\ ReplyInv /\ WaitInv /\ OwnData /\ SentInv /\ OrderInv
  BY DEF IInv
<1>3. TypeOK' /\ ClientInv' /\ SentInv' /\ OwnData'
  BY <1>1, <1>2 DEF TypeOK, Content, ClientInv, SentInv, OwnData, Data, Nothing
<1>4. Upcoming' = Upcoming
  BY <1>1 DEF Upcoming, CallPacket
<1>5. StreamInv'
  BY <1>2, <1>4 DEF StreamInv, Stream, Ascending, Legal, Takes, IsData, DataOf
<1>6. PoolInv'
  BY <1>1, <1>2, <1>4 DEF PoolInv, Payload, Takes, IsData, Nothing, Data
<1>7. ReplyInv'
  BY <1>1, <1>2 DEF ReplyInv, OwnReply, Reply, SeenThrough, Nothing, Freed
<1>8. WaitInv'
  BY <1>1, <1>2 DEF WaitInv, Served, Undisturbed
<1>9. OrderInv'
  BY <1>1, <1>2, OrderStep DEF OrderInv
<1> QED BY <1>3, <1>5, <1>6, <1>7, <1>8, <1>9 DEF IInv

LEMMA Steps == IInv /\ [Next]_vars => IInv'
<1> SUFFICES ASSUME IInv, [Next]_vars
             PROVE  IInv'
  OBVIOUS
<1>1. CASE StartSomeCall
  BY <1>1, StartStep DEF StartSomeCall
<1>2. CASE Client
  BY <1>2, DataStep, AbandonStep, SendStep, ReplyStep, UseStep, TimeOutStep DEF Client
<1>3. CASE LoseData \/ LoseReply
  BY <1>3, LoseDataStep, LoseReplyStep
<1>4. CASE Server
  BY <1>4, HandleDataStep, DroppedStep, ExecuteStep DEF Server
<1>5. CASE ServerEnds
  BY <1>5, EndStep
<1>6. CASE Terminated \/ UNCHANGED vars
  BY <1>6, Stutters DEF Terminated
<1> QED BY <1>1, <1>2, <1>3, <1>4, <1>5, <1>6 DEF Next

LEMMA Always == Spec => []IInv
BY Starts, Steps, PTL DEF Spec, SafeSpec

(***************************************************************************)
(* Packets and pools have their types: what gls_cmd_* and the handlers put *)
(* into a packet is a call of the application with a size it may have, and *)
(* a reply is to one of its calls.                                         *)
(***************************************************************************)
THEOREM TypeCorrect == Spec => []TypeOK
<1>1. IInv => TypeOK
  BY DEF IInv
<1> QED BY <1>1, Always, PTL

(***************************************************************************)
(* Every handler sees the data sent for its call and no other, whatever    *)
(* calls before it left in the pool: abandoned, unreleased, skipped.       *)
(***************************************************************************)
THEOREM CallsSeeTheirData == Spec => []OwnData
<1>1. IInv => OwnData
  BY DEF IInv
<1> QED BY <1>1, Always, PTL

(***************************************************************************)
(* ringbuf_data_to_bufpool never finds a large buffer of an earlier call,  *)
(* even where a receiver lost the data of one.                             *)
(***************************************************************************)
THEOREM BuffersAreFreed == Spec => []FreedInTime
<1>1. IInv => FreedInTime
  <2> SUFFICES ASSUME IInv, toServer # <<>>, Head(toServer).cmd = "SEND_DATA"
               PROVE  spool.buf = Nothing
    BY DEF FreedInTime
  <2> QED BY WillFree DEF IsData
<1> QED BY <1>1, Always, PTL

(***************************************************************************)
(* Without the two calls that look for their reply too early, every call   *)
(* returns the reply to itself, also when packets are lost and the server  *)
(* answers after the time out.                                             *)
(***************************************************************************)
THEOREM RepliesAreOwn == Spec => [](app.calls \cap EarlyRet = {} => OwnReply)
<1>1. IInv => (app.calls \cap EarlyRet = {} => OwnReply)
  BY DEF IInv, ReplyInv
<1> QED BY <1>1, Always, PTL

(***************************************************************************)
(* Without the three calls that have no handler, a client that waits waits *)
(* for a reply that is on its way, or that what is on its way will bring:  *)
(* the tables of the two sides agree.                                      *)
(***************************************************************************)
THEOREM RepliesCome == Spec => [](app.calls \cap Unanswered = {} => ReplyComes)
<1>1. IInv => (app.calls \cap Unanswered = {} => ReplyComes)
  <2> SUFFICES ASSUME IInv, app.calls \cap Unanswered = {}, Undisturbed, cpc = "wait"
               PROVE  toServer # <<>> \/ toClient # <<>>
    BY DEF ReplyComes
  <2>1. Len(toClient) > 0 \/ Len(toServer) > 0
    BY DEF IInv, WaitInv, Served
  <2>2. Len(<<>>) = 0
    OBVIOUS
  <2> QED BY <2>1, <2>2
<1> QED BY <1>1, Always, PTL

(***************************************************************************)
(* Under the same condition the server executes the calls in the order of  *)
(* the application, each once, and none is lost between them.              *)
(***************************************************************************)
THEOREM CallsAreExecutedInOrder == Spec => [](app.calls \cap Unanswered = {} => ExecutedInOrder)
<1>1. IInv => (app.calls \cap Unanswered = {} => ExecutedInOrder)
  BY DEF IInv, OrderInv, Served, ExecutedInOrder
<1> QED BY <1>1, Always, PTL
=============================================================================
