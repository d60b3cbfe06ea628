---------------------------- MODULE Superserver -----------------------------
(***************************************************************************)
(* The server as a whole (gl_server/main.c with common/transport-tcp.c):   *)
(* it accepts a connection, forks a child that serves it to its end, and   *)
(* closes its own copy; or, with -n, it serves the first connection itself.*)
(* What is modelled is which process holds which descriptor: an end of a   *)
(* connection reaches the client only when nobody holds it any more.       *)
(*                                                                         *)
(* What a child does with its connection is module Session.                *)
(***************************************************************************)
EXTENDS Naturals, Sequences, FiniteSets

CONSTANTS Client,       \* the clients, each connects once
          Backlog,      \* connections the kernel keeps for accept; listen(.., 1)
          MaxHeld,      \* connections a process can hold, by its limit on descriptors
          MayFail       \* what may fail: see Failure

Failure == {"fork", "accept", "child"}

ASSUME SuperserverAssumption ==
  /\ IsFiniteSet(Client)
  /\ Backlog \in Nat \ {0} /\ MaxHeld \in Nat \ {0}
  /\ MayFail \subseteq Failure

VARIABLES
  nofork,     \* -n
  client,     \* "out", "waiting" for the handshake, "served", "left"
  backlog,    \* connections not accepted yet
  parent,     \* what the parent does next
  cnx,        \* rc->cnx of the parent: the set of the connection accepted last
  held,       \* connections the parent holds
  child,      \* of each connection: no child, it serves, it has ended
  inherited,  \* connections each child holds
  failed      \* history: the failures, and the connections they happened to

clientVars == client
parentVars == <<parent, cnx, held>>
childVars == <<child, inherited>>
vars == <<nofork, clientVars, backlog, parentVars, childVars, failed>>

TypeOK ==
  /\ nofork \in BOOLEAN
  /\ client \in [Client -> {"out", "waiting", "served", "left"}]
  /\ backlog \in Seq(Client) /\ Len(backlog) <= Backlog
  /\ parent \in {"accept", "fork", "close", "serve", "ended"}
  /\ cnx \subseteq Client /\ Cardinality(cnx) <= 1
  /\ held \subseteq Client /\ Cardinality(held) <= MaxHeld
  /\ child \in [Client -> {"none", "serves", "ended"}]
  /\ inherited \in [Client -> SUBSET Client]
  /\ failed \subseteq Failure \X Client

Init ==
  /\ nofork \in BOOLEAN
  /\ client = [c \in Client |-> "out"]
  /\ backlog = <<>>
  /\ parent = "accept" /\ cnx = {} /\ held = {}
  /\ child = [c \in Client |-> "none"]
  /\ inherited = [c \in Client |-> {}]
  /\ failed = {}

Put(f, c, x) == [f EXCEPT ![c] = x]
Queued == {backlog[i] : i \in 1 .. Len(backlog)}

(***************************************************************************)
(* srv is freed without a close of its descriptor: the children listen     *)
(* too, although none accepts.                                             *)
(***************************************************************************)
Listening == parent # "ended" \/ \E c \in Client : child[c] = "serves"

(***************************************************************************)
(* Somebody, be it the kernel, has the server's end of the connection.     *)
(***************************************************************************)
Holds(c) ==
  \/ c \in held
  \/ c \in Queued /\ Listening
  \/ \E d \in Client : c \in inherited[d]

-----------------------------------------------------------------------------
(* Clients.  The kernel completes a connection before accept.              *)

Connect(c) ==
  /\ client[c] = "out"
  /\ Listening
  /\ Len(backlog) < Backlog
  /\ client' = Put(client, c, "waiting")
  /\ backlog' = Append(backlog, c)
  /\ UNCHANGED <<nofork, parentVars, childVars, failed>>

Refused(c) ==
  /\ client[c] = "out"
  /\ ~Listening
  /\ client' = Put(client, c, "left")
  /\ UNCHANGED <<nofork, backlog, parentVars, childVars, failed>>

(***************************************************************************)
(* The program is over, by itself, or as its wait timed out.               *)
(***************************************************************************)
Leave(c) ==
  /\ client[c] \in {"waiting", "served"}
  /\ client' = Put(client, c, "left")
  /\ UNCHANGED <<nofork, backlog, parentVars, childVars, failed>>

SeeHangup(c) ==
  /\ client[c] \in {"waiting", "served"}
  /\ ~Holds(c)
  /\ client' = Put(client, c, "left")
  /\ UNCHANGED <<nofork, backlog, parentVars, childVars, failed>>

-----------------------------------------------------------------------------
(* recvr_server_start.                                                     *)

AcceptKeeping == \* mutant: a connection accepted does not replace the one before
  /\ parent = "accept"
  /\ backlog # <<>>
  /\ Cardinality(held) < MaxHeld
  /\ cnx' = cnx \cup {Head(backlog)}
  /\ held' = held \cup {Head(backlog)}
  /\ backlog' = Tail(backlog)
  /\ parent' = IF nofork THEN "serve" ELSE "fork"
  /\ UNCHANGED <<nofork, clientVars, childVars, failed>>

(***************************************************************************)
(* A connection whose client has left meanwhile is accepted as any other.  *)
(***************************************************************************)
Accept ==
  /\ parent = "accept"
  /\ backlog # <<>>
  /\ Cardinality(held) < MaxHeld
  /\ cnx' = {Head(backlog)}
  /\ held' = held \cup {Head(backlog)}
  /\ backlog' = Tail(backlog)
  /\ parent' = IF nofork THEN "serve" ELSE "fork"
  /\ UNCHANGED <<nofork, clientVars, childVars, failed>>

EndParent ==
  /\ parent' = "ended"
  /\ cnx' = {}
  /\ held' = {}
  /\ UNCHANGED <<nofork, clientVars, childVars>>

(***************************************************************************)
(* accept needs a descriptor before it looks for a connection.             *)
(***************************************************************************)
OutOfDescriptors ==
  /\ parent = "accept"
  /\ Cardinality(held) = MaxHeld
  /\ EndParent
  /\ UNCHANGED <<backlog, failed>>

(***************************************************************************)
(* accept, setsockopt or malloc fails: the server ends.  The last two      *)
(* close the connection that was accepted.                                 *)
(***************************************************************************)
AcceptFails ==
  /\ "accept" \in MayFail
  /\ parent = "accept"
  /\ backlog # <<>>
  /\ EndParent
  /\ backlog' \in {backlog, Tail(backlog)}
  /\ failed' = failed \cup {<<"accept", Head(backlog)>>}

ForkHoldingOn == \* mutant: the parent does not close its copy
  /\ parent = "fork"
  /\ \E c \in cnx : /\ child' = Put(child, c, "serves")
                    /\ inherited' = Put(inherited, c, held)
  /\ parent' = "accept"
  /\ UNCHANGED <<nofork, clientVars, backlog, cnx, held, failed>>

(***************************************************************************)
(* The child has a copy of everything the parent holds.                    *)
(***************************************************************************)
Fork ==
  /\ parent = "fork"
  /\ \E c \in cnx : /\ child' = Put(child, c, "serves")
                    /\ inherited' = Put(inherited, c, held)
  /\ parent' = "close"
  /\ UNCHANGED <<nofork, clientVars, backlog, cnx, held, failed>>

ForkFailsAndEnds == \* mutant: a failed fork ends the loop
  /\ parent = "fork"
  /\ "fork" \in MayFail
  /\ EndParent
  /\ UNCHANGED backlog
  /\ failed' = failed \cup {<<"fork", c>> : c \in cnx}

(***************************************************************************)
(* The connection is kept, and forgotten at the next accept.               *)
(***************************************************************************)
ForkFails ==
  /\ parent = "fork"
  /\ "fork" \in MayFail
  /\ parent' = "accept"
  /\ failed' = failed \cup {<<"fork", c>> : c \in cnx}
  /\ UNCHANGED <<nofork, clientVars, backlog, cnx, held, childVars>>

ParentCloses ==
  /\ parent = "close"
  /\ held' = held \ cnx
  /\ parent' = "accept"
  /\ UNCHANGED <<nofork, clientVars, backlog, cnx, childVars, failed>>

ServeHandshake ==
  /\ parent = "serve"
  /\ \E c \in cnx : /\ client[c] = "waiting"
                    /\ client' = Put(client, c, "served")
  /\ UNCHANGED <<nofork, backlog, parentVars, childVars, failed>>

ServeEnds ==
  /\ parent = "serve"
  /\ \A c \in cnx : client[c] = "left"
  /\ EndParent
  /\ UNCHANGED <<backlog, failed>>

Parent ==
  \/ Accept \/ OutOfDescriptors \/ Fork \/ ParentCloses
  \/ ServeHandshake \/ ServeEnds

-----------------------------------------------------------------------------
(* child_process.                                                          *)

ChildHandshake(c) ==
  /\ child[c] = "serves"
  /\ client[c] = "waiting"
  /\ client' = Put(client, c, "served")
  /\ UNCHANGED <<nofork, backlog, parentVars, childVars, failed>>

EndChild(c) ==
  /\ child' = Put(child, c, "ended")
  /\ inherited' = Put(inherited, c, {})
  /\ UNCHANGED <<nofork, clientVars, backlog, parentVars>>

(***************************************************************************)
(* When the client has left.                                               *)
(***************************************************************************)
ChildExits(c) ==
  /\ child[c] = "serves"
  /\ client[c] = "left"
  /\ EndChild(c)
  /\ UNCHANGED failed

(***************************************************************************)
(* ring_init fails, or the child is killed.                                *)
(***************************************************************************)
ChildFails(c) ==
  /\ child[c] = "serves"
  /\ "child" \in MayFail
  /\ EndChild(c)
  /\ failed' = failed \cup {<<"child", c>>}

-----------------------------------------------------------------------------
Terminated ==
  /\ \A c \in Client : client[c] = "left" /\ child[c] # "serves"
  /\ backlog = <<>> \/ parent = "ended"
  /\ parent \in {"accept", "ended"}
  /\ UNCHANGED vars

Next ==
  \/ \E c \in Client : Connect(c) \/ Refused(c) \/ Leave(c) \/ SeeHangup(c)
  \/ Parent \/ AcceptFails \/ ForkFails
  \/ \E c \in Client : ChildHandshake(c) \/ ChildExits(c) \/ ChildFails(c)
  \/ Terminated

(***************************************************************************)
(* The server's processes are scheduled and a client is told of the end of *)
(* its connection.                                                         *)
(***************************************************************************)
Fairness ==
  /\ WF_vars(Parent)
  /\ \A c \in Client : /\ WF_vars(ChildHandshake(c)) /\ WF_vars(ChildExits(c))
                       /\ WF_vars(SeeHangup(c))

Spec == Init /\ [][Next]_vars /\ Fairness

-----------------------------------------------------------------------------
(* Properties.                                                             *)

(***************************************************************************)
(* When the child of a connection has ended, however it did, no process    *)
(* holds the connection any more, so its client is told: neither the       *)
(* parent nor a child forked later.                                        *)
(***************************************************************************)
EndedMeansClosed ==
  \A c \in Client : child[c] = "ended" /\ parent # "close" => ~Holds(c)

(***************************************************************************)
(* The parent lets no client that connects wait for ever, as long as       *)
(* accept does not fail: the client is served, gives up by itself or is    *)
(* told that its connection is closed.  A failed fork or child is the end  *)
(* of its own client only, until the connections of failed forks, which    *)
(* are never closed, have used up the descriptors.                         *)
(***************************************************************************)
Unforked == {c \in Client : <<"fork", c>> \in failed}

Excused(c) ==
  \/ nofork
  \/ {<<"fork", c>>, <<"child", c>>} \cap failed # {}
  \/ \E d \in Client : <<"accept", d>> \in failed
  \/ Cardinality(Unforked) = MaxHeld

EveryClientServed ==
  \A c \in Client : (client[c] = "waiting") ~> (client[c] # "waiting" \/ Excused(c))
=============================================================================
