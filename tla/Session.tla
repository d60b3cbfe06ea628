------------------------------ MODULE Session ------------------------------
(***************************************************************************)
(* A client and its server process from the handshake to the end of both:  *)
(* the application's thread (gl_client/glclient.c), the server's main loop *)
(* (gl_server/glserver.c, the child of main.c), the receiver thread and    *)
(* the ring of each side (common/recvr.c, ring.h) and the TCP connection   *)
(* between them (common/transport-tcp.c), with everything that ends it:    *)
(* the program exits, one process is killed, the connection is reset, a    *)
(* reply is late.                                                          *)
(*                                                                         *)
(* Packets travel whole (module Recvr cuts them) and a ring is a bounded   *)
(* queue (module Ring).  What counts here is who closes what, who sees it, *)
(* and what a read, a write and a poll answer then.                        *)
(***************************************************************************)
EXTENDS Naturals, Sequences

CONSTANTS MaxCalls,     \* bound on the calls of the application
          SockSize,     \* packets a socket buffers
          RingRoom,     \* packets a ring holds, for each side
          MayDie,       \* the sides whose process may be killed
          MayReset,     \* the connection may be reset from outside
          MayTimeOut    \* the server may take more than GLS_TIMEOUT_MSEC

Side == {"client", "server"}
Peer(s) == IF s = "client" THEN "server" ELSE "client"

ASSUME SessionAssumption ==
  /\ MaxCalls \in Nat /\ SockSize \in Nat \ {0}
  /\ RingRoom \in [Side -> Nat \ {0}]
  /\ MayDie \subseteq Side
  /\ MayReset \in BOOLEAN /\ MayTimeOut \in BOOLEAN

(***************************************************************************)
(* A call sends its packet ("state"), a SEND_DATA and its packet ("data"), *)
(* or its packet and waits for a reply ("query").  The first call is the   *)
(* handshake, a query.                                                     *)
(***************************************************************************)
CallKinds == {"state", "data", "query"}

VARIABLES
  cpc,        \* the application's thread
  calls,      \* kinds of the calls made
  smain,      \* the server's main thread
  pool,       \* the call whose data is in the server's pool, 0 for none
  recv,       \* the receiver thread of each side
  ring,       \* the packets in each ring
  ring_open,  \* its writer has not closed it
  fd,         \* the connection's descriptor is open, per side
  wire,       \* packets sent to a side and not read by it
  gone,       \* the process of that side is over, its end of the connection closed
  rst,        \* a reset is "owed" to that side, or has arrived: "yes"
  sockerr,    \* the reset has not been reported to that side yet
  executed,   \* history: the calls executed, and on whose data
  returned,   \* history: the replies returned to the application
  broken,     \* history: a fault was injected
  netreset    \* history: it was a reset of the connection

clientVars == <<cpc, calls, returned>>
serverVars == <<smain, pool, executed>>
recvVars == <<recv, ring, ring_open>>
netVars == <<fd, wire, gone, rst, sockerr>>
faultVars == <<broken, netreset>>
vars == <<clientVars, serverVars, recvVars, netVars, faultVars>>

CallNumber == 1 .. MaxCalls
PacketTo(s) ==
  IF s = "server" THEN [data : BOOLEAN, n : CallNumber] ELSE CallNumber

TypeOK ==
  /\ cpc \in {"idle", "data", "send", "wait", "exiting", "cleaned"}
  /\ calls \in Seq(CallKinds) /\ Len(calls) <= MaxCalls
  /\ smain \in {"loop", "reply", "join"}
  /\ pool \in 0 .. MaxCalls
  /\ recv \in [Side -> {"top", "polling", "ready", "close", "done"}]
  /\ \A s \in Side : /\ ring[s] \in Seq(PacketTo(s)) /\ Len(ring[s]) <= RingRoom[s]
                     /\ wire[s] \in Seq(PacketTo(s)) /\ Len(wire[s]) <= SockSize
  /\ ring_open \in [Side -> BOOLEAN] /\ fd \in [Side -> BOOLEAN]
  /\ gone \in [Side -> BOOLEAN]
  /\ rst \in [Side -> {"no", "owed", "yes"}]
  /\ sockerr \in [Side -> BOOLEAN]
  /\ executed \in Seq([n : CallNumber, input : 0 .. MaxCalls])
  /\ returned \in Seq(CallNumber)
  /\ broken \in BOOLEAN /\ netreset \in BOOLEAN

Init ==
  /\ cpc = "idle" /\ calls = <<>> /\ returned = <<>>
  /\ smain = "loop" /\ pool = 0 /\ executed = <<>>
  /\ recv = [s \in Side |-> "top"]
  /\ ring = [s \in Side |-> <<>>] /\ ring_open = [s \in Side |-> TRUE]
  /\ fd = [s \in Side |-> TRUE] /\ wire = [s \in Side |-> <<>>]
  /\ gone = [s \in Side |-> FALSE]
  /\ rst = [s \in Side |-> "no"] /\ sockerr = [s \in Side |-> FALSE]
  /\ broken = FALSE /\ netreset = FALSE

-----------------------------------------------------------------------------
(* The connection: send, sendmsg, close and what the kernels make of them. *)

Put(f, s, x) == [f EXCEPT ![s] = x]

(***************************************************************************)
(* A write to a closed descriptor or on a connection whose reset is not    *)
(* reported yet returns an error; on one known to be reset it raises       *)
(* SIGPIPE, which nobody handles.  Before, it is accepted, by a dead peer  *)
(* too, whose kernel answers with a reset.                                 *)
(***************************************************************************)
WriteFails(s) == ~fd[s] \/ (rst[s] = "yes" /\ sockerr[s])
WriteKills(s) == fd[s] /\ rst[s] = "yes" /\ ~sockerr[s]
WriteAccepted(s) ==
  fd[s] /\ rst[s] # "yes" /\ (gone[Peer(s)] \/ Len(wire[Peer(s)]) < SockSize)

Transmit(s, p) ==
  /\ WriteAccepted(s)
  /\ wire' = IF gone[Peer(s)] THEN wire ELSE Put(wire, Peer(s), Append(wire[Peer(s)], p))
  /\ rst' = IF gone[Peer(s)] THEN Put(rst, s, "owed") ELSE rst
  /\ UNCHANGED <<fd, gone, sockerr>>

(***************************************************************************)
(* tport_close after a failed write.                                       *)
(***************************************************************************)
CloseAfterFailure(s) ==
  /\ WriteFails(s)
  /\ fd' = Put(fd, s, FALSE)
  /\ sockerr' = Put(sockerr, s, FALSE)
  /\ UNCHANGED <<wire, gone, rst>>

(***************************************************************************)
(* After a reset a side still reads some of what had arrived: a read that  *)
(* has seen POLLIN finds its packet.                                       *)
(***************************************************************************)
Remaining(s) ==
  {SubSeq(wire[s], 1, k) :
     k \in (IF recv[s] = "ready" /\ wire[s] # <<>> THEN 1 ELSE 0) .. Len(wire[s])}

(***************************************************************************)
(* A process ends.  Its kernel tells the peer, by a reset at once when     *)
(* something was left unread.                                              *)
(***************************************************************************)
Die(s) ==
  LET p == Peer(s)
      resets == wire[s] # <<>> /\ rst[s] # "yes" /\ ~gone[p]
  IN  /\ gone' = Put(gone, s, TRUE)
      /\ fd' = Put(fd, s, FALSE)
      /\ rst' = IF resets THEN Put(rst, p, "yes") ELSE rst
      /\ sockerr' = IF resets THEN Put(sockerr, p, TRUE) ELSE sockerr
      /\ \E w \in IF resets THEN Remaining(p) ELSE {wire[p]} :
           wire' = [wire EXCEPT ![s] = <<>>, ![p] = w]

(***************************************************************************)
(* The reset a dead peer owes; after the end of the stream was received it *)
(* is no socket error that a write could return.                           *)
(***************************************************************************)
RstArrives(s) ==
  /\ ~gone[s]
  /\ rst[s] = "owed"
  /\ rst' = Put(rst, s, "yes")
  /\ UNCHANGED <<clientVars, serverVars, recvVars, fd, wire, gone, sockerr, faultVars>>

(***************************************************************************)
(* The network, or a peer that lost its memory, resets the connection.     *)
(***************************************************************************)
NetReset ==
  /\ MayReset
  /\ \A s \in Side : ~gone[s] /\ rst[s] = "no"
  /\ rst' = [s \in Side |-> "yes"]
  /\ sockerr' = [s \in Side |-> TRUE]
  /\ \E wc \in Remaining("client"), ws \in Remaining("server") :
       wire' = [wire EXCEPT !["client"] = wc, !["server"] = ws]
  /\ broken' = TRUE /\ netreset' = TRUE
  /\ UNCHANGED <<clientVars, serverVars, recvVars, fd, gone>>

Kill(s) ==
  /\ s \in MayDie
  /\ ~gone[s]
  /\ Die(s)
  /\ broken' = TRUE
  /\ UNCHANGED <<clientVars, serverVars, recvVars, netreset>>

-----------------------------------------------------------------------------
(* The receiver thread of a side.  It lives as long as its process, also   *)
(* after the client's main thread has closed and freed what it works on.   *)

Runs(s) == ~gone[s]
Freed(s) == s = "client" /\ cpc = "cleaned"
Works(s) == Runs(s) /\ ~Freed(s)

(***************************************************************************)
(* poll keeps a reference to the connection: once inside, a close by the   *)
(* other thread does not disturb it.                                       *)
(***************************************************************************)
EnterPoll(s) ==
  /\ Runs(s)
  /\ recv[s] = "top"
  /\ fd[s]
  /\ recv' = Put(recv, s, "polling")
  /\ UNCHANGED <<clientVars, serverVars, ring, ring_open, netVars, faultVars>>

(***************************************************************************)
(* poll of a closed descriptor is POLLNVAL at once: logged, and again.     *)
(***************************************************************************)
PollNval(s) ==
  /\ Runs(s)
  /\ recv[s] = "top"
  /\ ~fd[s]
  /\ UNCHANGED vars

PollHup(s) ==
  /\ Runs(s)
  /\ recv[s] = "polling"
  /\ rst[s] = "yes"
  /\ recv' = Put(recv, s, "close")
  /\ UNCHANGED <<clientVars, serverVars, ring, ring_open, netVars, faultVars>>

PollIn(s) ==
  /\ Runs(s)
  /\ recv[s] = "polling"
  /\ rst[s] # "yes"
  /\ wire[s] # <<>> \/ gone[Peer(s)]
  /\ recv' = Put(recv, s, "ready")
  /\ UNCHANGED <<clientVars, serverVars, ring, ring_open, netVars, faultVars>>

RingIsFull(s) == Len(ring[s]) = RingRoom[s]

(***************************************************************************)
(* No room in the ring: the thread sleeps and polls again.                 *)
(***************************************************************************)
SleepOnFullRing(s) ==
  /\ Works(s)
  /\ recv[s] = "ready"
  /\ RingIsFull(s)
  /\ recv' = Put(recv, s, "top")
  /\ UNCHANGED <<clientVars, serverVars, ring, ring_open, netVars, faultVars>>

ReadPacketAnyway(s) == \* mutant: the ring is not asked for room
  /\ Works(s)
  /\ recv[s] = "ready"
  /\ wire[s] # <<>>
  /\ ring' = Put(ring, s, Append(ring[s], Head(wire[s])))
  /\ wire' = Put(wire, s, Tail(wire[s]))
  /\ recv' = Put(recv, s, "top")
  /\ UNCHANGED <<clientVars, serverVars, ring_open, fd, gone, rst, sockerr, faultVars>>

ReadPacket(s) ==
  /\ Works(s)
  /\ recv[s] = "ready"
  /\ ~RingIsFull(s)
  /\ wire[s] # <<>>
  /\ ring' = Put(ring, s, Append(ring[s], Head(wire[s])))
  /\ wire' = Put(wire, s, Tail(wire[s]))
  /\ recv' = Put(recv, s, "top")
  /\ UNCHANGED <<clientVars, serverVars, ring_open, fd, gone, rst, sockerr, faultVars>>

ReadEofKeepsOn(s) == \* mutant: the end of the stream closes the fd and polls again
  /\ Works(s)
  /\ recv[s] = "ready"
  /\ ~RingIsFull(s)
  /\ wire[s] = <<>>
  /\ fd' = Put(fd, s, FALSE)
  /\ recv' = Put(recv, s, "top")
  /\ UNCHANGED <<clientVars, serverVars, ring, ring_open, wire, gone, rst, sockerr,
                 faultVars>>

(***************************************************************************)
(* The end of the stream: the receiver thread closes the connection, which *)
(* the main thread may be about to write to.                               *)
(***************************************************************************)
ReadEof(s) ==
  /\ Works(s)
  /\ recv[s] = "ready"
  /\ ~RingIsFull(s)
  /\ wire[s] = <<>>
  /\ fd' = Put(fd, s, FALSE)
  /\ recv' = Put(recv, s, "close")
  /\ UNCHANGED <<clientVars, serverVars, ring, ring_open, wire, gone, rst, sockerr,
                 faultVars>>

CloseRing(s) ==
  /\ Runs(s)
  /\ recv[s] = "close"
  /\ ring_open' = Put(ring_open, s, FALSE)
  /\ recv' = Put(recv, s, "done")
  /\ UNCHANGED <<clientVars, serverVars, ring, netVars, faultVars>>

(***************************************************************************)
(* A thread that was told of data goes on with the connection and the ring *)
(* that recvr_stop has closed and freed.  What it finds there is           *)
(* undefined: a full ring, a packet or its end, or the process dies.       *)
(***************************************************************************)
ReadFreed(s) ==
  /\ Runs(s) /\ Freed(s)
  /\ recv[s] = "ready"
  /\ \/ /\ \E next \in {"top", "close"} : recv' = Put(recv, s, next)
        /\ UNCHANGED <<ring, ring_open, netVars>>
     \/ Die(s) /\ UNCHANGED recvVars
  /\ UNCHANGED <<clientVars, serverVars, faultVars>>

Receiver(s) ==
  \/ EnterPoll(s) \/ PollNval(s) \/ PollHup(s) \/ PollIn(s)
  \/ SleepOnFullRing(s) \/ ReadPacket(s) \/ ReadEof(s) \/ CloseRing(s)
  \/ ReadFreed(s)

-----------------------------------------------------------------------------
(* The application's thread.                                               *)

last == Len(calls)
kind == calls[last]
Initialized == returned # <<>>   \* gls_initialized: the handshake is over

StartCall(k) ==
  /\ ~gone["client"]
  /\ cpc = "idle"
  /\ last < MaxCalls
  /\ IF last = 0 THEN k = "query" ELSE Initialized
  /\ calls' = Append(calls, k)
  /\ cpc' = IF k = "data" THEN "data" ELSE "send"
  /\ UNCHANGED <<returned, serverVars, recvVars, netVars, faultVars>>

(***************************************************************************)
(* gls_cmd_send_data; its callers go on whether it failed or not.          *)
(***************************************************************************)
SendData ==
  /\ ~gone["client"]
  /\ cpc = "data"
  /\ \/ Transmit("client", [data |-> TRUE, n |-> last])
     \/ CloseAfterFailure("client")
  /\ cpc' = "send"
  /\ UNCHANGED <<calls, returned, serverVars, recvVars, faultVars>>

AfterSend == IF kind = "query" THEN "wait" ELSE "idle"

(***************************************************************************)
(* send_packet.  GLS_SEND_PACKET ignores its result, and the call waits    *)
(* all the same; only a handshake that could not be sent ends the program. *)
(***************************************************************************)
SendCall ==
  /\ ~gone["client"]
  /\ cpc = "send"
  /\ \/ /\ Transmit("client", [data |-> FALSE, n |-> last])
        /\ cpc' = AfterSend
     \/ /\ CloseAfterFailure("client")
        /\ cpc' = IF last = 1 THEN "exiting" ELSE AfterSend
  /\ UNCHANGED <<calls, returned, serverVars, recvVars, faultVars>>

ClientSigpipe ==
  /\ ~gone["client"]
  /\ cpc \in {"data", "send"}
  /\ WriteKills("client")
  /\ Die("client")
  /\ UNCHANGED <<clientVars, serverVars, recvVars, faultVars>>

(***************************************************************************)
(* wait_for_data.  poll answers POLLHUP once the ring is closed, packets   *)
(* or not, and that is tested first.                                       *)
(***************************************************************************)
HandlePacket ==
  /\ ~gone["client"]
  /\ cpc = "wait"
  /\ ring_open["client"]
  /\ ring["client"] # <<>>
  /\ returned' = Append(returned, Head(ring["client"]))
  /\ ring' = Put(ring, "client", Tail(ring["client"]))
  /\ cpc' = "idle"
  /\ UNCHANGED <<calls, serverVars, recv, ring_open, netVars, faultVars>>

WaitHangup ==
  /\ ~gone["client"]
  /\ cpc = "wait"
  /\ ~ring_open["client"]
  /\ cpc' = "exiting"
  /\ UNCHANGED <<calls, returned, serverVars, recvVars, netVars, faultVars>>

(***************************************************************************)
(* The reply to the call that waits is on its way, or can still be sent.   *)
(***************************************************************************)
ReplyPossible ==
  \/ ring["client"] # <<>>
  \/ wire["client"] # <<>> /\ fd["client"]
  \/ /\ ~gone["server"] /\ smain # "join"
     /\ rst["server"] # "yes" /\ fd["server"]
     /\ rst["client"] # "yes"
     /\ LET coming == ring["server"] \o wire["server"]
        IN  \E i \in 1 .. Len(coming) : ~coming[i].data /\ coming[i].n = last

TimeOutRetries == \* mutant: a wait that timed out lets the call return
  /\ ~gone["client"]
  /\ cpc = "wait"
  /\ MayTimeOut \/ ~ReplyPossible
  /\ cpc' = "idle"
  /\ broken' = (broken \/ ReplyPossible)
  /\ UNCHANGED <<calls, returned, serverVars, recvVars, netVars, netreset>>

(***************************************************************************)
(* GLS_TIMEOUT_MSEC are over; a server that has not answered yet is slow.  *)
(***************************************************************************)
TimeOut ==
  /\ ~gone["client"]
  /\ cpc = "wait"
  /\ MayTimeOut \/ ~ReplyPossible
  /\ cpc' = "exiting"
  /\ broken' = (broken \/ ReplyPossible)
  /\ UNCHANGED <<calls, returned, serverVars, recvVars, netVars, netreset>>

AppExit ==
  /\ ~gone["client"]
  /\ cpc = "idle"
  /\ Initialized
  /\ cpc' = "exiting"
  /\ UNCHANGED <<calls, returned, serverVars, recvVars, netVars, faultVars>>

(***************************************************************************)
(* gls_cleanup_library, a destructor: recvr_stop closes the connection and *)
(* frees it and the ring, under a receiver thread that still runs.         *)
(***************************************************************************)
Cleanup ==
  /\ ~gone["client"]
  /\ cpc = "exiting"
  /\ Initialized
  /\ fd' = Put(fd, "client", FALSE)
  /\ cpc' = "cleaned"
  /\ UNCHANGED <<calls, returned, serverVars, recvVars, wire, gone, rst, sockerr, faultVars>>

(***************************************************************************)
(* exit completes, after gls_cleanup_library or without it.                *)
(***************************************************************************)
ExitProcess ==
  /\ ~gone["client"]
  /\ cpc = "cleaned" \/ (cpc = "exiting" /\ ~Initialized)
  /\ Die("client")
  /\ UNCHANGED <<clientVars, serverVars, recvVars, faultVars>>

LibraryGoesOn ==
  \/ SendData \/ SendCall \/ ClientSigpipe
  \/ HandlePacket \/ WaitHangup
  \/ Cleanup \/ ExitProcess

Library == LibraryGoesOn \/ TimeOut

-----------------------------------------------------------------------------
(* The server's main thread: glserver_handle_packets, then child_process.  *)

HasPacket == ~gone["server"] /\ smain = "loop" /\ ring_open["server"] /\ ring["server"] # <<>>
Current == Head(ring["server"])
RingAdvanced == Put(ring, "server", Tail(ring["server"]))

HandleData ==
  /\ HasPacket
  /\ Current.data
  /\ pool' = Current.n
  /\ ring' = RingAdvanced
  /\ UNCHANGED <<clientVars, smain, executed, recv, ring_open, netVars, faultVars>>

(***************************************************************************)
(* A handler; the packet of one that replies stays in the ring until it    *)
(* has.                                                                    *)
(***************************************************************************)
HandleCall ==
  /\ HasPacket
  /\ ~Current.data
  /\ LET k == calls[Current.n]
     IN  /\ executed' = Append(executed,
                               [n |-> Current.n, input |-> IF k = "data" THEN pool ELSE 0])
         /\ pool' = IF k = "data" THEN 0 ELSE pool
         /\ smain' = IF k = "query" THEN "reply" ELSE "loop"
         /\ ring' = IF k = "query" THEN ring ELSE RingAdvanced
  /\ UNCHANGED <<clientVars, recv, ring_open, netVars, faultVars>>

ReplyTwice == \* mutant: the packet is not popped when its reply is written
  /\ ~gone["server"]
  /\ smain = "reply"
  /\ Transmit("server", Current.n) \/ CloseAfterFailure("server")
  /\ smain' = "loop"
  /\ UNCHANGED <<clientVars, pool, executed, recvVars, faultVars>>

ReplyDropped == \* mutant: a reply whose write failed is dropped with its packet, unsent
  /\ ~gone["server"]
  /\ smain = "reply"
  /\ smain' = "loop"
  /\ ring' = RingAdvanced
  /\ UNCHANGED <<clientVars, pool, executed, recv, ring_open, netVars, faultVars>>

(***************************************************************************)
(* glse_cmd_send_data: a failed write closes the connection, and the main  *)
(* loop goes on.                                                           *)
(***************************************************************************)
SendReply ==
  /\ ~gone["server"]
  /\ smain = "reply"
  /\ Transmit("server", Current.n) \/ CloseAfterFailure("server")
  /\ smain' = "loop"
  /\ ring' = RingAdvanced
  /\ UNCHANGED <<clientVars, pool, executed, recv, ring_open, faultVars>>

ServerHangup ==
  /\ ~gone["server"]
  /\ smain = "loop"
  /\ ~ring_open["server"]
  /\ smain' = "join"
  /\ UNCHANGED <<clientVars, pool, executed, recvVars, netVars, faultVars>>

(***************************************************************************)
(* pthread_join, recvr_stop and exit.                                      *)
(***************************************************************************)
JoinAndExit ==
  /\ ~gone["server"]
  /\ smain = "join"
  /\ recv["server"] = "done"
  /\ Die("server")
  /\ UNCHANGED <<clientVars, serverVars, recvVars, faultVars>>

ServerMain ==
  \/ HandleData \/ HandleCall \/ SendReply
  \/ ServerHangup \/ JoinAndExit

-----------------------------------------------------------------------------
Terminated == (\A s \in Side : gone[s]) /\ UNCHANGED vars

Next ==
  \/ (\E k \in CallKinds : StartCall(k)) \/ Library \/ AppExit
  \/ ServerMain
  \/ \E s \in Side : Receiver(s) \/ RstArrives(s) \/ Kill(s)
  \/ NetReset
  \/ Terminated

(***************************************************************************)
(* The threads are scheduled and a reset that is owed arrives; the         *)
(* application owes no call and no exit.  A wait that no reply can end     *)
(* does time out; while one can, the timeout is not owed, for it would end *)
(* every wait whatever the server does.                                    *)
(***************************************************************************)
Fairness ==
  /\ WF_vars(LibraryGoesOn \/ (~ReplyPossible /\ TimeOut)) /\ WF_vars(ServerMain)
  /\ \A s \in Side : WF_vars(Receiver(s)) /\ WF_vars(RstArrives(s))

SafeSpec == Init /\ [][Next]_vars
Spec == SafeSpec /\ Fairness

-----------------------------------------------------------------------------
(* Properties.                                                             *)

(***************************************************************************)
(* The session implements RemoteCalls: whatever fails and whenever, the    *)
(* server executes a prefix of the application's calls, each on its own    *)
(* data (a write may fail between the two packets), and a reply is only    *)
(* ever returned to the call it belongs to.                                *)
(***************************************************************************)
Caller ==
  IF gone["client"] \/ cpc \in {"exiting", "cleaned"} THEN "ended"
  ELSE IF cpc \in {"send", "wait"} /\ kind = "query" THEN "waiting" ELSE "running"

Abstract ==
  INSTANCE RemoteCalls WITH caller <- Caller

RefinesRemoteCalls == Abstract!Spec

(***************************************************************************)
(* The server's write of a reply neither blocks nor raises SIGPIPE.  The   *)
(* client reads its ring only while it waits, so a server blocked on this  *)
(* write while the client blocks on its own would stop both for ever; and  *)
(* nothing handles the signal.                                             *)
(***************************************************************************)
ReplyNeverBlocks ==
  smain = "reply" /\ ~gone["server"] => WriteAccepted("server") \/ WriteFails("server")

(***************************************************************************)
(* The main thread of a side closes the connection when a write fails      *)
(* (send_packet, glse_cmd_send_data).  That never happens under a receiver *)
(* thread that was told of data and is about to read it, which would take  *)
(* the error for a packet.  The close of gls_cleanup_library is another    *)
(* matter: it does happen (ReadFreed).                                     *)
(***************************************************************************)
NoReadAfterFailedWrite ==
  \A s \in Side : Works(s) /\ recv[s] = "ready" => fd[s]

(***************************************************************************)
(* A call that waits gets its reply, unless a process was killed, the      *)
(* connection reset or the server late.  A server that stops answering is  *)
(* not late: the wait then never ends (Fairness), or it times out when no  *)
(* reply can come any more, which does not count as a fault.               *)
(***************************************************************************)
QueryAnswered == (cpc = "wait") ~> (cpc = "idle" \/ broken)

(***************************************************************************)
(* "The incoming connection will be handled in the same process and will   *)
(* exit when the client disconnects" (doc/USAGE.md).  The child does exit  *)
(* when the client exits or dies, in the middle of a call too.             *)
(***************************************************************************)
ServerEnds == gone["client"] ~> (gone["server"] \/ netreset)

(***************************************************************************)
(* The same, without the exception of a reset from the network.            *)
(***************************************************************************)
ServerAlwaysEnds == gone["client"] ~> gone["server"]
=============================================================================
