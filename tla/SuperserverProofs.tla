------------------------- MODULE SuperserverProofs -------------------------
(***************************************************************************)
(* Proofs about module Superserver, for every set of clients, backlog and  *)
(* limit on descriptors, and whatever may fail.                            *)
(***************************************************************************)
EXTENDS Superserver, FiniteSetTheorems, SequenceTheorems, TLAPS

-----------------------------------------------------------------------------
(* The inductive invariant.                                                *)

(***************************************************************************)
(* A client is new, or its connection is in one place: in the backlog,     *)
(* with the parent, or with its child.                                     *)
(***************************************************************************)
BacklogDistinct ==
  \A i, j \in 1 .. Len(backlog) : backlog[i] = backlog[j] => i = j

QueuedIsFresh ==
  \A c \in Queued : child[c] = "none" /\ c \notin held /\ client[c] # "out"

HeldIsFresh ==
  \A c \in held :
    /\ client[c] # "out"
    /\ child[c] = "none" \/ (parent = "close" /\ c \in cnx)

ChildIsKnown == \A c \in Client : child[c] # "none" => client[c] # "out"

(***************************************************************************)
(* The connection the parent is at has no child before the fork.           *)
(***************************************************************************)
CnxInHand ==
  /\ parent \in {"fork", "close", "serve"} => \E c \in Client : cnx = {c}
  /\ parent \in {"fork", "close"} => cnx \subseteq held
  /\ parent = "fork" => \A c \in cnx : child[c] = "none"

(***************************************************************************)
(* Beside its own connection a child has only those whose fork has failed, *)
(* which never get a child.                                                *)
(***************************************************************************)
Orphaned(c) ==
  /\ child[c] = "none" /\ client[c] # "out" /\ c \notin Queued
  /\ ~(parent = "fork" /\ c \in cnx)

InheritedInv ==
  \A d \in Client : \A c \in inherited[d] :
    child[d] = "serves" /\ (c = d \/ Orphaned(c))

IInv ==
  /\ TypeOK
  /\ BacklogDistinct /\ QueuedIsFresh
  /\ HeldIsFresh /\ ChildIsKnown
  /\ CnxInHand
  /\ InheritedInv

-----------------------------------------------------------------------------
(* The backlog as a set.                                                   *)

LEMMA QueuedAppend ==
  ASSUME NEW s \in Seq(Client), NEW c \in Client
  PROVE  {Append(s, c)[i] : i \in 1 .. Len(Append(s, c))}
           = {s[i] : i \in 1 .. Len(s)} \cup {c}
  <1>1. /\ Len(Append(s, c)) = Len(s) + 1 /\ Len(s) \in Nat
        /\ \A i \in 1 .. Len(s) : Append(s, c)[i] = s[i]
        /\ Append(s, c)[Len(s) + 1] = c
    BY AppendProperties
  <1> QED
    BY <1>1

LEMMA QueuedTail ==
  ASSUME NEW s \in Seq(Client), s # <<>>,
         \A i, j \in 1 .. Len(s) : s[i] = s[j] => i = j
  PROVE  {Tail(s)[i] : i \in 1 .. Len(Tail(s))}
           = {s[i] : i \in 1 .. Len(s)} \ {Head(s)}
  <1>1. /\ Len(Tail(s)) = Len(s) - 1 /\ Len(s) \in Nat \ {0}
        /\ \A i \in 1 .. Len(Tail(s)) : Tail(s)[i] = s[i + 1]
        /\ Head(s) = s[1]
    BY HeadTailProperties, EmptySeq
  <1>2. \A x : (\E i \in 1 .. Len(Tail(s)) : x = Tail(s)[i])
                 <=> (\E i \in 1 .. Len(s) : x = s[i]) /\ x # s[1]
    <2> TAKE x
    <2>1. ASSUME NEW i \in 1 .. Len(Tail(s)), x = Tail(s)[i]
          PROVE  (\E k \in 1 .. Len(s) : x = s[k]) /\ x # s[1]
      <3>1. i + 1 \in 1 .. Len(s) /\ 1 \in 1 .. Len(s) /\ i + 1 # 1
        BY <1>1
      <3>2. x = s[i + 1]
        BY <1>1, <2>1
      <3> QED
        BY <3>1, <3>2
    <2>2. ASSUME NEW i \in 1 .. Len(s), x = s[i], x # s[1]
          PROVE  \E k \in 1 .. Len(Tail(s)) : x = Tail(s)[k]
      <3>1. i - 1 \in 1 .. Len(Tail(s)) /\ (i - 1) + 1 = i
        BY <1>1, <2>2
      <3> QED
        BY <1>1, <2>2, <3>1
    <2> QED
      BY <2>1, <2>2
  <1> QED
    BY <1>1, <1>2

LEMMA HeldFinite ==
  ASSUME TypeOK
  PROVE  IsFiniteSet(held) /\ Cardinality(held) \in Nat
  BY SuperserverAssumption, FS_Subset, FS_CardinalityType DEF TypeOK

-----------------------------------------------------------------------------
LEMMA InitIInv == Init => IInv
  <1> SUFFICES ASSUME Init PROVE IInv
    OBVIOUS
  <1>1. TypeOK
    BY FS_EmptySet, SuperserverAssumption, EmptySeq DEF Init, TypeOK
  <1>2. Queued = {}
    BY EmptySeq DEF Init, Queued
  <1>3. BacklogDistinct
    BY EmptySeq DEF Init, BacklogDistinct
  <1> QED
    BY <1>1, <1>2, <1>3
    DEF Init, IInv, QueuedIsFresh, HeldIsFresh, ChildIsKnown, CnxInHand, InheritedInv

(***************************************************************************)
(* The parent gives up everything it holds, a connection just accepted     *)
(* with it.                                                                *)
(***************************************************************************)
LEMMA BacklogLess ==
  ASSUME IInv, backlog' = backlog \/ (backlog # <<>> /\ backlog' = Tail(backlog))
  PROVE  /\ backlog' \in Seq(Client) /\ Len(backlog') <= Backlog
         /\ BacklogDistinct' /\ Queued' \subseteq Queued
  <1>1. backlog \in Seq(Client) /\ Len(backlog) \in Nat /\ Len(backlog) <= Backlog
    BY DEF IInv, TypeOK
  <1>2. CASE backlog' = backlog
    BY <1>1, <1>2 DEF IInv, BacklogDistinct, Queued
  <1>3. CASE backlog # <<>> /\ backlog' = Tail(backlog)
    <2>1. /\ Tail(backlog) \in Seq(Client) /\ Len(Tail(backlog)) = Len(backlog) - 1
          /\ \A i \in 1 .. Len(Tail(backlog)) : Tail(backlog)[i] = backlog[i + 1]
      BY <1>1, <1>3, HeadTailProperties
    <2>2. \A i \in 1 .. Len(Tail(backlog)) : i + 1 \in 1 .. Len(backlog)
      BY <1>1, <2>1
    <2>3. BacklogDistinct'
      <3> SUFFICES ASSUME NEW i \in 1 .. Len(Tail(backlog)), NEW j \in 1 .. Len(Tail(backlog)),
                          Tail(backlog)[i] = Tail(backlog)[j]
                   PROVE  i = j
        BY <1>3 DEF BacklogDistinct
      <3>1. backlog[i + 1] = backlog[j + 1]
        BY <2>1
      <3>2. i + 1 = j + 1
        BY <2>2, <3>1 DEF IInv, BacklogDistinct
      <3> QED
        BY <3>2
    <2>4. Queued' \subseteq Queued
      BY <1>3, <2>1, <2>2 DEF Queued
    <2>5. Len(backlog) - 1 <= Backlog /\ backlog' = Tail(backlog)
      BY <1>1, <1>3, SuperserverAssumption
    <2> QED
      BY <2>1, <2>3, <2>4, <2>5
  <1> QED
    BY <1>2, <1>3

LEMMA EndParentIInv ==
  ASSUME IInv, EndParent, failed' \in SUBSET (Failure \X Client),
         backlog' = backlog \/ (backlog # <<>> /\ backlog' = Tail(backlog))
  PROVE  IInv'
  <1>1. TypeOK'
    <2>1. Cardinality({}) = 0
      BY FS_EmptySet
    <2>2. cnx' = {} /\ held' = {}
      BY DEF EndParent
    <2>3. Cardinality(cnx') = 0 /\ Cardinality(held') = 0
      BY <2>1, <2>2, Zenon
    <2> QED
      BY <2>2, <2>3, BacklogLess, SuperserverAssumption
      DEF IInv, TypeOK, EndParent, clientVars, childVars
  <1>2. Queued' \subseteq Queued /\ BacklogDistinct'
    BY BacklogLess
  <1> QED
    BY <1>1, <1>2 DEF IInv, EndParent, QueuedIsFresh, HeldIsFresh,
      ChildIsKnown, CnxInHand, InheritedInv, Orphaned, clientVars, childVars

(***************************************************************************)
(* A child ends, and nothing is its any more.                              *)
(***************************************************************************)
LEMMA EndChildIInv ==
  ASSUME IInv, NEW c \in Client, child[c] = "serves", EndChild(c),
         failed' \in SUBSET (Failure \X Client)
  PROVE  IInv'
  <1>1. TypeOK'
    BY DEF IInv, TypeOK, EndChild, Put, parentVars, clientVars
  <1>2. Queued' = Queued
    BY DEF Queued, EndChild
  <1> QED
    BY <1>1, <1>2 DEF IInv, TypeOK, EndChild, Put, BacklogDistinct, QueuedIsFresh, HeldIsFresh,
      ChildIsKnown, CnxInHand, InheritedInv, Orphaned, clientVars, parentVars

(***************************************************************************)
(* A client that is not new any more changes its mind.                     *)
(***************************************************************************)
LEMMA ClientIInv ==
  ASSUME IInv, NEW c \in Client, NEW x \in {"served", "left"},
         client' = Put(client, c, x),
         UNCHANGED <<nofork, backlog, parentVars, childVars, failed>>
  PROVE  IInv'
  <1>1. TypeOK'
    BY DEF IInv, TypeOK, Put, parentVars, childVars
  <1>2. Queued' = Queued
    BY DEF Queued
  <1>3. \A d \in Client : client[d] # "out" => client'[d] # "out"
    BY DEF IInv, TypeOK, Put
  <1>4. Queued \subseteq Client
    BY ElementOfSeq DEF IInv, TypeOK, Queued
  <1> QED
    BY <1>1, <1>2, <1>3, <1>4 DEF IInv, TypeOK, BacklogDistinct, QueuedIsFresh, HeldIsFresh,
      ChildIsKnown, CnxInHand, InheritedInv, Orphaned, parentVars, childVars

LEMMA ConnectIInv ==
  ASSUME IInv, NEW c \in Client, Connect(c)
  PROVE  IInv'
  <1>1. backlog \in Seq(Client) /\ Len(backlog) \in Nat
    BY DEF IInv, TypeOK
  <1>2. /\ Append(backlog, c) \in Seq(Client)
        /\ Len(Append(backlog, c)) = Len(backlog) + 1
        /\ \A i \in 1 .. Len(backlog) : Append(backlog, c)[i] = backlog[i]
        /\ Append(backlog, c)[Len(backlog) + 1] = c
    BY <1>1, AppendProperties
  <1>3. TypeOK'
    BY <1>1, <1>2, SuperserverAssumption DEF IInv, TypeOK, Connect, Put, parentVars, childVars
  <1>4. Queued' = Queued \cup {c}
    BY <1>1, QueuedAppend DEF Queued, Connect
  <1>5. c \notin Queued /\ c \notin held /\ child[c] = "none"
    BY DEF IInv, TypeOK, Connect, QueuedIsFresh, HeldIsFresh, ChildIsKnown
  <1>6. BacklogDistinct'
    <2>1. \A i \in 1 .. Len(backlog) : backlog[i] # c
      BY <1>5 DEF Queued
    <2> QED
      BY <1>1, <1>2, <2>1 DEF IInv, BacklogDistinct, Connect
  <1>7. QueuedIsFresh' /\ HeldIsFresh' /\ ChildIsKnown' /\ CnxInHand'
    <2>1. Queued \subseteq Client /\ held \subseteq Client
      BY <1>1, ElementOfSeq DEF IInv, TypeOK, Queued
    <2> QED
      BY <1>4, <1>5, <2>1 DEF IInv, TypeOK, Connect, Put, QueuedIsFresh, HeldIsFresh,
        ChildIsKnown, CnxInHand, parentVars, childVars
  <1>8. InheritedInv'
    <2> SUFFICES ASSUME NEW d \in Client, NEW e \in inherited[d]
                 PROVE  child[d] = "serves" /\ (e = d \/ Orphaned(e)')
      BY DEF InheritedInv, Connect, childVars
    <2>1. child[d] = "serves" /\ (e = d \/ Orphaned(e))
      BY DEF IInv, InheritedInv
    <2>2. CASE e # d
      <3>1. e # c /\ e \in Client
        BY <2>1, <2>2 DEF IInv, TypeOK, Orphaned, Connect
      <3> QED
        BY <1>4, <2>1, <2>2, <3>1
        DEF IInv, TypeOK, Orphaned, Connect, Put, parentVars, childVars
    <2> QED
      BY <2>1, <2>2
  <1> QED
    BY <1>3, <1>6, <1>7, <1>8 DEF IInv

LEMMA AcceptIInv ==
  ASSUME IInv, Accept
  PROVE  IInv'
  <1> DEFINE c == Head(backlog)
  <1>1. /\ backlog \in Seq(Client) /\ backlog # <<>> /\ Len(backlog) \in Nat
        /\ c \in Client /\ c = backlog[1]
        /\ Tail(backlog) \in Seq(Client) /\ Len(Tail(backlog)) = Len(backlog) - 1
        /\ \A i \in 1 .. Len(Tail(backlog)) : Tail(backlog)[i] = backlog[i + 1]
    BY HeadTailProperties DEF IInv, TypeOK, Accept
  <1>2. c \in Queued
    BY <1>1, EmptySeq DEF Queued
  <1>3. c \notin held /\ child[c] = "none" /\ client[c] # "out"
    BY <1>2 DEF IInv, QueuedIsFresh
  <1>4. Queued' = Queued \ {c}
    <2>1. \A i, j \in 1 .. Len(backlog) : backlog[i] = backlog[j] => i = j
      BY DEF IInv, BacklogDistinct
    <2>2. {Tail(backlog)[i] : i \in 1 .. Len(Tail(backlog))}
            = {backlog[i] : i \in 1 .. Len(backlog)} \ {Head(backlog)}
      BY <1>1, <2>1, QueuedTail
    <2> QED
      BY <2>2, Zenon DEF Queued, Accept
  <1>5. TypeOK'
    <2>1. Cardinality(held') <= MaxHeld
      <3>1. IsFiniteSet(held) /\ Cardinality(held) \in Nat
        BY HeldFinite DEF IInv
      <3>2. Cardinality(held \cup {c}) = Cardinality(held) + 1
        BY <1>3, <3>1, FS_AddElement
      <3>3. held' = held \cup {c} /\ Cardinality(held) < MaxHeld
        BY DEF Accept
      <3> QED
        BY <3>1, <3>2, <3>3, SuperserverAssumption
    <2>2. Cardinality(cnx') <= 1
      <3>1. \A x : Cardinality({x}) = 1
        BY FS_Singleton, Zenon
      <3>2. cnx' = {c}
        BY DEF Accept
      <3>3. Cardinality(cnx') = 1
        BY <3>1, <3>2, Zenon
      <3> QED
        BY <3>3
    <2> QED
      BY <1>1, <2>1, <2>2, SuperserverAssumption
      DEF IInv, TypeOK, Accept, clientVars, childVars
  <1>6. BacklogDistinct'
    BY <1>1 DEF IInv, BacklogDistinct, Accept
  <1>7. QueuedIsFresh' /\ HeldIsFresh' /\ ChildIsKnown' /\ CnxInHand'
    BY <1>1, <1>3, <1>4 DEF IInv, TypeOK, Accept, QueuedIsFresh, HeldIsFresh,
      ChildIsKnown, CnxInHand, clientVars, childVars
  <1>8. InheritedInv'
    <2> SUFFICES ASSUME NEW d \in Client, NEW e \in inherited[d]
                 PROVE  child[d] = "serves" /\ (e = d \/ Orphaned(e)')
      BY DEF InheritedInv, Accept, childVars
    <2>1. child[d] = "serves" /\ (e = d \/ Orphaned(e))
      BY DEF IInv, InheritedInv
    <2>2. CASE e # d
      <3>1. e # c
        BY <1>2, <2>1, <2>2 DEF Orphaned
      <3> QED
        BY <1>4, <2>1, <2>2, <3>1 DEF Orphaned, Accept, clientVars, childVars
    <2> QED
      BY <2>1, <2>2
  <1> QED
    BY <1>5, <1>6, <1>7, <1>8 DEF IInv

LEMMA ForkIInv ==
  ASSUME IInv, Fork
  PROVE  IInv'
  <1> PICK c \in cnx : /\ child' = Put(child, c, "serves")
                       /\ inherited' = Put(inherited, c, held)
    BY DEF Fork
  <1>1. /\ c \in Client /\ cnx = {c} /\ c \in held /\ child[c] = "none"
        /\ held \subseteq Client
    BY DEF IInv, TypeOK, CnxInHand, Fork
  <1>2. TypeOK'
    BY <1>1 DEF IInv, TypeOK, Fork, Put, clientVars
  <1>3. Queued' = Queued /\ c \notin Queued /\ Queued \subseteq Client
    BY <1>1, ElementOfSeq DEF IInv, TypeOK, QueuedIsFresh, Queued, Fork
  <1>4. \A d \in Client : d # c => child'[d] = child[d] /\ inherited'[d] = inherited[d]
    BY DEF IInv, TypeOK, Put
  <1>5. child'[c] = "serves" /\ inherited'[c] = held
    BY <1>1 DEF IInv, TypeOK, Put
  <1>6. BacklogDistinct' /\ QueuedIsFresh' /\ HeldIsFresh' /\ ChildIsKnown' /\ CnxInHand'
    BY <1>1, <1>3, <1>4, <1>5 DEF IInv, TypeOK, BacklogDistinct, QueuedIsFresh, HeldIsFresh,
      ChildIsKnown, CnxInHand, Fork, clientVars
  <1>7. InheritedInv'
    <2> SUFFICES ASSUME NEW d \in Client, NEW e \in inherited'[d]
                 PROVE  child'[d] = "serves" /\ (e = d \/ Orphaned(e)')
      BY DEF InheritedInv
    <2>1. CASE d = c
      <3>1. e \in held
        BY <1>5, <2>1
      <3>2. CASE e # c
        BY <1>1, <1>3, <1>4, <1>5, <2>1, <3>1, <3>2
        DEF IInv, HeldIsFresh, QueuedIsFresh, Orphaned, Fork, clientVars
      <3> QED
        BY <1>5, <2>1, <3>2
    <2>2. CASE d # c
      <3>1. child[d] = "serves" /\ (e = d \/ Orphaned(e)) /\ e \in Client
        BY <1>4, <2>2 DEF IInv, TypeOK, InheritedInv
      <3>2. e # d => e # c
        BY <1>1, <3>1 DEF Orphaned, Fork
      <3> QED
        BY <1>3, <1>4, <2>2, <3>1, <3>2 DEF Orphaned, Fork, clientVars
    <2> QED
      BY <2>1, <2>2
  <1> QED
    BY <1>2, <1>6, <1>7 DEF IInv

LEMMA ForkFailsIInv ==
  ASSUME IInv, ForkFails
  PROVE  IInv'
  <1>1. TypeOK'
    BY DEF IInv, TypeOK, ForkFails, Failure, clientVars, childVars
  <1>2. Queued' = Queued
    BY DEF Queued, ForkFails
  <1> QED
    BY <1>1, <1>2 DEF IInv, TypeOK, BacklogDistinct, QueuedIsFresh, HeldIsFresh,
      ChildIsKnown, CnxInHand, InheritedInv, Orphaned, ForkFails, clientVars, childVars

LEMMA ParentClosesIInv ==
  ASSUME IInv, ParentCloses
  PROVE  IInv'
  <1>1. TypeOK'
    <2>1. Cardinality(held \ cnx) <= Cardinality(held) /\ Cardinality(held \ cnx) \in Nat
      BY HeldFinite, FS_Subset, FS_CardinalityType DEF IInv
    <2>2. Cardinality(held') <= MaxHeld
      BY <2>1, HeldFinite, SuperserverAssumption DEF IInv, TypeOK, ParentCloses
    <2> QED
      BY <2>2 DEF IInv, TypeOK, ParentCloses, clientVars, childVars
  <1>2. Queued' = Queued
    BY DEF Queued, ParentCloses
  <1> QED
    BY <1>1, <1>2 DEF IInv, TypeOK, BacklogDistinct, QueuedIsFresh, HeldIsFresh,
      ChildIsKnown, CnxInHand, InheritedInv, Orphaned, ParentCloses, clientVars, childVars

LEMMA StepIInv == IInv /\ [Next]_vars => IInv'
  <1> SUFFICES ASSUME IInv, [Next]_vars
               PROVE  IInv'
    OBVIOUS
  <1>1. ASSUME NEW c \in Client, Connect(c)
        PROVE  IInv'
    BY <1>1, ConnectIInv
  <1>2. ASSUME NEW c \in Client, Refused(c) \/ Leave(c) \/ SeeHangup(c) \/ ChildHandshake(c)
        PROVE  IInv'
    BY <1>2, ClientIInv DEF Refused, Leave, SeeHangup, ChildHandshake
  <1>3. CASE Accept
    BY <1>3, AcceptIInv
  <1>4. CASE OutOfDescriptors \/ ServeEnds
    BY <1>4, EndParentIInv DEF OutOfDescriptors, ServeEnds, IInv, TypeOK
  <1>5. CASE AcceptFails
    <2>1. Head(backlog) \in Client
      BY <1>5, HeadTailProperties DEF AcceptFails, IInv, TypeOK
    <2>2. failed' \in SUBSET (Failure \X Client)
      BY <1>5, <2>1 DEF AcceptFails, IInv, TypeOK, Failure
    <2> QED
      BY <1>5, <2>2, EndParentIInv DEF AcceptFails
  <1>6. CASE Fork
    BY <1>6, ForkIInv
  <1>7. CASE ForkFails
    BY <1>7, ForkFailsIInv
  <1>8. CASE ParentCloses
    BY <1>8, ParentClosesIInv
  <1>9. CASE ServeHandshake
    <2> PICK c \in cnx : client' = Put(client, c, "served")
      BY <1>9 DEF ServeHandshake
    <2>1. c \in Client
      BY DEF IInv, TypeOK
    <2> QED
      BY <1>9, <2>1, ClientIInv DEF ServeHandshake
  <1>10. ASSUME NEW c \in Client, ChildExits(c)
         PROVE  IInv'
    BY <1>10, EndChildIInv DEF ChildExits, IInv, TypeOK
  <1>11. ASSUME NEW c \in Client, ChildFails(c)
         PROVE  IInv'
    <2>1. failed' \in SUBSET (Failure \X Client)
      BY <1>11 DEF ChildFails, IInv, TypeOK, Failure
    <2> QED
      BY <1>11, <2>1, EndChildIInv DEF ChildFails
  <1>12. CASE UNCHANGED vars
    <2>1. TypeOK'
      BY <1>12 DEF IInv, TypeOK, vars, clientVars, parentVars, childVars
    <2>2. Queued' = Queued
      BY <1>12 DEF vars, Queued
    <2> QED
      BY <1>12, <2>1, <2>2 DEF IInv, BacklogDistinct, QueuedIsFresh, HeldIsFresh,
        ChildIsKnown, CnxInHand, InheritedInv, Orphaned, vars, clientVars, parentVars, childVars
  <1> QED
    BY <1>1, <1>2, <1>3, <1>4, <1>5, <1>6, <1>7, <1>8, <1>9, <1>10, <1>11, <1>12
    DEF Next, Parent, Terminated

LEMMA IInvAlways == Spec => []IInv
  BY InitIInv, StepIInv, PTL DEF Spec

-----------------------------------------------------------------------------
(***************************************************************************)
(* The state of clients, parent and children is of its type: the backlog   *)
(* and the parent's descriptors stay within their limits (main.c,          *)
(* recvr_server_start).                                                    *)
(***************************************************************************)
THEOREM TypeCorrect == Spec => []TypeOK
  <1>1. IInv => TypeOK
    BY DEF IInv
  <1> QED
    BY <1>1, IInvAlways, PTL

(***************************************************************************)
(* When a child has ended and the parent is past its close, no process has *)
(* the connection any more, whatever forks failed before and however many  *)
(* children were forked since (main.c, child_process).                     *)
(***************************************************************************)
THEOREM EndedIsClosed == Spec => []EndedMeansClosed
  <1>1. IInv => EndedMeansClosed
    <2> SUFFICES ASSUME IInv, NEW c \in Client, child[c] = "ended", parent # "close"
                 PROVE  ~Holds(c)
      BY DEF EndedMeansClosed
    <2>1. c \notin held /\ c \notin Queued
      BY DEF IInv, HeldIsFresh, QueuedIsFresh
    <2>2. \A d \in Client : c \notin inherited[d]
      BY DEF IInv, InheritedInv, Orphaned
    <2> QED
      BY <2>1, <2>2 DEF Holds
  <1> QED
    BY <1>1, IInvAlways, PTL
=============================================================================
