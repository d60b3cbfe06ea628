# TLA+ models of gl-streaming

gl-streaming lets a program draw with EGL and OpenGL ES 2 on another machine
(or another Qubes domain).  A client library, loaded in place of libEGL and
libGLESv2, turns every call into a packet; a server process executes the
packets on a real GPU and sends back what the call returns.  This directory
holds TLA+ models of the parts that have state and concurrency, the TLC
configurations that check them, and TLAPS proofs of their safety properties.

Paths below are relative to `src/`.

## 1. The system

```
 application ── EGL/GLES call
      │ out_buf                                    handlers (serveregl.c, servergles.c)
 client library ──────── transport ───────► receiver thread ─► ring ─► main loop
 (glclient.c, clientegl.c, clientgles.c)    (common/recvr.c) (common/ring.h) (glserver.c)
      ▲                                                                  │
      └─ wait_for_data ◄─ ring ◄─ receiver thread ◄─── transport ◄───────┘
```

Each side has the same receiver: a thread that reads the transport and puts
packets into a ring.  The server's main loop consumes its ring continuously;
the client consumes its own only inside `wait_for_data`, for a call that
returns something.

### Inventory

| component | state | operations | what is hard | what makes it correct |
|---|---|---|---|---|
| Packet ring, `common/ring.[ch]` | slots, `idx_reader`, `idx_writer`, a pipe with a byte per packet | `ring_push_ptr_get/next`, `ring_pop_ptr_get/next`, `ring_writer_close`, `ring_delete` | two threads, no lock, two records (indexes and bytes) of the same count | packets are handled once, in order, on stable slots; no blocking outside poll; end of data comes after the data |
| Receiver thread, `common/recvr.c` | position in the packet being read, its buffer | `recvr_handle_packet`, `recvr_tport_to_ring_loop`, `recvr_stop` | partial reads, end of stream or reset inside a packet, ring full, malloc failing, closing the fd | whole packets only; one owner of each buffer; nothing lost at an orderly end; the thread ends |
| Transports, `common/transport*.c` | one or two file descriptors | create, wait for a connection, read, write, close | sockets and pipes report the end differently; close of a closed fd | bytes in order, an end that is seen |
| Buffer pool, `common/bufpool.h` | `tmp_buf`, `has_data`, `mallocated`, `data_payload`, `out_buf` | `ringbuf_data_to_bufpool`, the RELEASE macros | data travels in one packet and is used by the next; `tmp_buf` serves for data in and replies out | a command uses the data sent for it and no other; large buffers are freed once |
| Server main loop, `gl_server/glserver.[ch]` | the pool, the current packet | `glse_handle_ring_packet`, replies | a handler blocks on nothing but the reply's write | one reply for each call that waits |
| Server process, `gl_server/main.c` | listening socket, children | accept, fork, child | fork failing, accept failing, descriptors shared with the child | every client is served or refused; the child ends with its client |
| Client core, `gl_client/glclient.[ch]` | the pool, the two client errors | `send_packet`, `gls_cmd_send_data`, `wait_for_data`, `handle_packet`, start and end of the library | late answer against the 3 s timeout, wrong answers, hangup before the answer, failed writes | the reply used is the reply to this call; what is executed is a prefix of the calls; a failure is reported |
| Client EGL, `gl_client/clientegl.c` | current context and surfaces, strings | one function per EGL call | which calls wait, which send data first | same protocol per call on both sides |
| Client GLES, `gl_client/clientgles.c` | vertex attributes, bound buffers, errors | one function per GLES call; emulation of client arrays | pointers valid only at draw time, emulated buffer objects | the server draws from the bytes the application meant |
| Server EGL, `gl_server/serveregl.c` | display, window mapping | one handler per EGL call | filtered extensions, failing calls | a reply whenever the client waits |
| Server GLES, `gl_server/servergles.c` | the real GL context | one handler per GLES call | variable-size replies | as above |
| Windows, `gl_server/glcontrol.c`, `list.c` | X windows, list of client window to server window | create, look up, delete | a window created twice, never destroyed | a lookup gives the window the client means |
| Command tables, `common/gls_command*.h` | none | packet layouts | | |

`common/wireshark/` (a dissector), `benchmarks/`, `qubes-os/` and `doc/` hold no
program state.

## 2. Modules

| module | models | instances |
|---|---|---|
| `PacketQueue` | what a ring promises: a bounded FIFO queue with an end mark | through `Ring`, which implements it |
| `Ring` | `common/ring.[ch]` and the two loops that use it, one action per access to shared state | `MCRing` |
| `Recvr` | `common/recvr.c`: from a byte stream to packets in slots and buffers | `MCRecvr` |
| `Dispatch` | the protocol of every EGL and GLES call, on both sides: `gl_client/`, `gl_server/` and `common/bufpool.h` at packet level | `MCDispatch` |
| `RemoteCalls` | what a session promises: calls executed elsewhere, in order, without a gap | through `Session`, which implements it |
| `Session` | a client and its server process, both receiver threads, both rings and the connection, from the handshake to the end of both | `MCSession` |
| `VertexArrays` | OpenGL's vertex arrays and buffer objects with the GL in the application's own process | through `ClientArrays`, which implements it |
| `ClientArrays` | the emulation of client arrays in `gl_client/clientgles.c` on a remote GL | `MCClientArrays` |
| `LocalAnswers` | the errors and the strings that the client library answers by itself | `MCLocalAnswers` |
| `Superserver` | `gl_server/main.c`: accept, fork, children and descriptors | `MCSuperserver` |
| `PacketQueueProofs`, `RingProofs`, `RecvrProofs`, `DispatchProofs`, `SessionProofs`, `ClientArraysProofs`, `LocalAnswersProofs`, `SuperserverProofs` | theorems about the module named (section 4) | |

How they fit together: `Ring` is proved to implement `PacketQueue`, and `Session`
uses such queues for the rings of both sides; `Session` moves whole packets, which
`Recvr` shows a receiver to cut out of the stream.  `Dispatch` takes connection,
receiver and ring together as a queue of packets, with a loss where `Recvr` has
one, and looks at data and replies; `ClientArrays` and `LocalAnswers` take a call
and its execution as one step, which `Dispatch` justifies for calls in order.
`Superserver` has one child per connection, what happens in it is `Session`.  Only
the first of these links is a formal one; the others are assumptions of one
module that another module's runs check.

### Ring

`buffer`, `idx_reader`, `idx_writer` are the fields of `ring_t`; `pipe` counts the
bytes in the notification pipe and `pipe_wr` says whether its write end is open.
`wpc` is the position of the receiver thread, `rpc` that of the main loop.  An
action is one access to shared memory: `ring_push_ptr_next` is two actions
(`PushCommit` moves the index, `PushNotify` writes the byte), `ring_pop_ptr_next`
is two (`PopByte`, `PopAdvance`), filling a slot is two (`FillHeader`, `FillBody`)
and a handler looks at its slot twice (`Dispatch` reads the command, `Execute`
the arguments), so that a writer which reused a slot too early would be seen.
Memory is sequentially consistent: the indexes are plain `unsigned` without
barriers; the write and read of the notification byte order them on every
platform the program is built for.  `sent` and `handled` are history.

### Recvr

The stream is a sequence of units: the two fields of a header, then two halves of
a body.  The peer may stop after any unit, by closing (`eof`) or, with
`MayReset`, by a reset, after which one read fails.  A header is the pair of
packets its two fields came from, so a header that mixes two packets can be told.
`wire` is what was written and not read.  Slots keep what they held, because a
failing read leaves it there.  `heap`, `live` and `taken` follow the buffers of
large packets from `malloc` through the slot to the reader.  `poll` and `read`
report what Linux reports: on a pipe `POLLHUP` as soon as the writer is gone, on a
socket only when both directions are down.  The kind of transport is chosen at
`Init`, as the configuration of the program does.  `RouteToDiscard` and `Discard`
are the path of a large packet there is no memory for; `Discard` reads as much as
is there, as `discard_bytes` does, and when that is more than the packet has the
assertion ends the process (`aborted`).

### Dispatch

The first part of the module is two sets of tables, one read off the client's
functions and one off the server's handlers; neither is derived from the other.
Of the client's calls: which only send their packet (`SendsOnly`), which send data
first and of what sizes (`DataSizes`), which wait (`ClientWaits`), accept any reply
(`RawReply`, no command given to `GLS_WAIT_SET_RAWRET_PTR`), pick the place of the
reply before it came (`EarlyRet`), keep it (`KeepsRet`) or may return without their
packet (`MayAbandon`).  Of the handlers: which exist (`ServerHandles`), use data when
a flag says so or always (`UsesAttribs`, `UsesPayload`, `UsesAlways`), release it
(`ServerReleases`) and reply (`ServerReplies`).  Stubs that send nothing are left out.

`cpc` walks the one application thread through a call: `SendData`
(`gls_cmd_send_data`), `SendCall` (`send_packet`), `HandlePacket` (inside
`wait_for_data`), `UseReply` (the macros at the end of a call).  The server takes
one packet per step: `HandleData` is `ringbuf_data_to_bufpool`, `ExecuteCall` is a
whole handler: input through `GLSE_SET_RAWDATA_PTR`, release, reply composed in the
same `tmp_buf`; `SkipCall` is the early return of that macro.

A buffer's content is the call it belongs to, so that a handler that reads the
data of another call, or a client that reads the reply to another call or freed
memory, can be told.  The pool of each side is `tmp_buf` and the one malloc'd
buffer (`spool.buf`, `cpool.buf`), which `TakeOver` replaces, freeing the old one.
`size = "large"` is what does not fit a slot of the receiving ring.  `LoseData` and
`LoseReply` are the discards of `Recvr`; `TimeOut` is `GLS_TIMEOUT_MSEC`.

`Applications` is a set of instances: the calls an application may make, how many,
whether receivers lose packets and whether the server may be slow.  One is chosen
at `Init` (`app`), so that one run checks them all.  Calls that no handler answers
(`eglBindTexImage`, `eglReleaseTexImage`, `eglSurfaceAttrib`: commented out in
`gl_server/serveregl.c:593`) are only in the instance with faults, and the two calls
with `EarlyRet` have a run of their own.

### Session

`cpc` is the application's thread inside the library: `SendData`
(`gls_cmd_send_data`), `SendCall` (`send_packet`), `HandlePacket`, `WaitHangup` and
`TimeOut` (the exits of `wait_for_data`), `Cleanup` (`gls_cleanup_library`, run by
`-fini`) and `ExitProcess`.  `smain` is the server's main thread: `HandleData`,
`HandleCall` (a handler), `SendReply` (`glse_cmd_send_data`), `ServerHangup`, then
the end of `child_process` (`JoinAndExit`).  `recv` is the receiver thread of each
side, cut where it matters: entering poll, what poll answered, the read, the close
of the ring.  A call is one that only sends, one that sends data first, or one that
waits; the first is the handshake.

The connection is what Linux makes of a TCP socket: `wire` holds what a side has
not read; a process that ends with unread data resets it, one that ends otherwise
ends the stream, and a write to it is accepted and answered by a reset (`rst`); a
reset is reported once to a write (`sockerr`), after that a write raises SIGPIPE,
which nobody handles.  A reset from outside may take any part of what was on its
way.  poll holds on to the connection it was entered with, so a close by the other
thread is only seen at the next poll, as POLLNVAL, which the loop logs and polls
again: the step `PollNval` changes nothing.

`Cleanup` closes and frees what the client's receiver thread works on
(`recvr_stop`), and that thread goes on until the process ends (`Runs`, `Freed`).  If
it was told of data it may then read the closed, freed connection: `ReadFreed` has
the outcomes of that undefined step, to go on, to leave the loop or to end the process.

Simplified: a closed descriptor's number is not given to another file; the close in
`Cleanup` and the frees after it take effect at once; a server that would get SIGPIPE
or block on its reply is not followed, as `ReplyNeverBlocks` says that there is none; a
read that fails otherwise is the matter of `Recvr`.

### ClientArrays and VertexArrays

`lib` is `buffer_objs`, `gl` the state of the server's GL, changed by operators that
each stand for a handler (`GlBindBuffer`, `GlBufferData`, ...).  A call of the
library that sends several commands (`DrawArrays`: uploads, pointers, restored
binding, drawing) is one step, since no other thread sees what is in between.
`Upload` is `defered_vertex_attrib_pointer`, `UploadAll` its loop.  Contents of
buffers and memory are versions: an application's write to its own memory makes a
new one, and what a drawing fetches (`drawn`) says from which array, in which
version, or that it was beyond the buffer.  `asked` is history: what the
application has asked for, which is the state of `VertexArrays`.

`DrawElementsFromArray` is `glDrawElements` with indices in client memory: line 602
tests for an index buffer after the emulation has bound its own, takes the pointer
for an offset, and the assertion at line 605 fails for every address above 4 GB.
The model ends there.  Lower addresses (static data of a program that is not
position-independent) are not modelled: they pass, are sent as an offset into the
emulation's buffer, and garbage is drawn before lines 611-612 restore the index
binding.  Nor is the scan for the largest index, which tests a constant and so reads
bytes for every type (line 573).  One context is modelled; the mirror belongs to the process
(`doc/INTERNALS.md:208` says so), so an application with two contexts, or one that
switches, is outside.

### LocalAnswers

`own` is the pair `client_egl_error`, `client_gles_error`; `server` what the server's
EGL and GL have to report; `strings` are `egl_strings` and `gles_strings`, each with
its storage's number (`realloc` may make a new one), size and fill, and of every
string the block it was copied into, the room there was in it, and its place.  `Forward`, `ForwardFails` and `WaitFails` are a call that is sent,
one whose write fails and nobody waits for, and one that waits; `Refuse`,
`RefuseReply` and `DropCall` the calls the library ends itself.  `Populate` is the
whole first query of a string, as it is atomic to the application; its sizes are
chosen in it.  `success` is the word of `tmp_buf` that `glse_eglQueryString` leaves
unset for `EGL_EXTENSIONS`.  Calls are synchronous here; `ended` says why the library
has called `exit`.

### Superserver

`parent` walks through `recvr_server_start`; `cnx` is `rc->cnx`, `held` the connections
whose descriptor the parent has, `inherited` those each child has.  A child copies
all of `held`, since nothing closes what a failed fork left.  `Listening` says that
some process has the listening socket, which `free(srv)` does not close, in the
children neither.  `AcceptFails` may have taken the connection from the backlog, as a
failing `setsockopt` or `malloc` after `accept` does.  `nofork` is the option `-n`, with which the parent is the child.

## 3. Runs

Deadlock detection is on in all runs: each specification says, in `Terminated` or
in its last disjunct, where the system may stop.

| run | instance | question | result |
|---|---|---|---|
| `ring` | 4 slots (the client's ring), 6 packets of 2 values, pipe of 3 bytes | do the assertions of the code hold, does a thread ever block on the pipe, is a command stable while executed, is anything lost, does the child end, does the ring implement the queue (with its fairness) | holds |
| `ring_drain` | 3 packets | has a reader that saw the end of data executed everything | violated, see findings |
| `recvr` | socket and pipe, 2 slots, 3 packets of all 4 kinds, resets, malloc failing | whole packets in order, framing, one owner per buffer, nothing lost on an orderly end of a socket, progress and end | holds |
| `recvr_reset` | 2 packets, resets | "minimum sanity" of a header | violated |
| `dispatch` | 4 calls of 7 kinds; every pair of the 134 calls that have a handler; 4 calls with lost packets, a slow server and a call without handler | own data, own reply, a reply for who waits, order, timely release, every wait returns | holds |
| `dispatch_stale` | `glGenTextures`, `glGetActiveAttrib` | own reply | violated |
| `session` | handshake and 2 calls, sockets of 1 packet, rings of 2 and 1, either side killed, reset, slow server | does a session implement `RemoteCalls`; may a reply block the server; does a failed write close the connection under a thread about to read it; is every call that waits answered; does the child end | holds |
| `session_reset` | handshake and 1 call, reset | does the child end after a reset too | violated |
| `arrays` | 2 attributes, 3 names of which 1 is the application's, 2 vertices, memory written once | does the mirror agree with the GL; is drawn what was asked for | holds |
| `local_answers` | caches of 5, one string of length 3 | is the last failure reported; is each string copied within its block and over no other; does a stale word end the program | holds |
| `strings_static` | the same | do all strings lie in the cache's storage | violated |
| `superserver` | 3 clients, a queue of 2, 2 descriptors, fork, accept and child failing, with and without `-n` | does a client learn of the end of its child; does any client wait for ever | holds |

The exceptions in the properties are part of what the runs show:

- on a pipe `POLLHUP` may cost packets at the end (`EofPushesAll` is about sockets);
- after a reset, what the receiver pushes is not promised (`PushedFaithful`,
  `recvr_reset`);
- calls whose data is lost may use other data (`OwnData` is about instances without
  losses: `has_data` says that some data is there, not whose, and
  `glse_eglGetPlatformDisplay` does not release its own);
- `LastErrorReported`: eglQueryString(EGL_NO_DISPLAY, EGL_EXTENSIONS) may return NULL
  with no error to ask for, as its `success` is not set by the server; GL calls
  that send data leave an EGL error when their write fails; and it asks that no error
  is missed, not that each is reported once: the library's own error is returned
  again by the next `glGetError` (`gl_client/clientgles.c:842`);
- `NoReadAfterFailedWrite` is about the closes after a failed write; the close in
  `gls_cleanup_library` does happen under a receiver about to read (`ReadFreed`);
- `QueryAnswered`: after a process was killed, the connection reset or the server late;
- `EveryClientServed` is met by a client that is served, gives up or is told that its
  connection closed, and excepts a client whose own fork or child failed, or anybody after
  accept failed or the descriptors were used up by failed forks.

Bounds.  Four slots hold three packets: with six packets both indexes wrap and go
on to positions they had before, in all combinations with a full ring.  The pipe
takes exactly `RingSize - 1` bytes, the least the proofs assume (a real pipe takes
65536, the largest ring 4096 packets).  Two packet values are enough to tell
packets apart, since every property compares sequences.  In `Recvr` two slots hold
one packet, so that it is full after every packet, and three packets use each slot
again, in every order of kinds and with every fault at every point.  In `Dispatch`
the pools are all that one call leaves to the next, and each has two places, so
that two calls show every interference between neighbours and four show what
survives a call in between, with up to four calls queued ahead of the server; the
seven kinds differ in every column of the tables.  In `Session` a socket of one
packet and a server's ring of one make every writer and the receiver wait; two
calls after the handshake are a call that fails and the one after it, and with
the handshake there are two replies, one of which may be in doubt when the other
is written.  In `ClientArrays` one buffer of the application against two of the
emulation lets a deleted name come back as another's; two attributes may have
different sources; two vertices tell `count` from `first + count`.  In
`LocalAnswers` five strings of length 1 just fill a cache, and one long string, in
the first place or the last, makes it grow during or at the end of the fill.  In
`Superserver` two descriptors are used up by two failed forks while a third client
connects.

Fairness.  Threads are scheduled by the kernel, hence weak fairness of each
thread's own steps; the peer and the transport owe nothing, so no property asks
for a packet that was not sent.  A sleep on a full ring ends.  In `Dispatch` and
`Session` the client library runs through a call once the application has made it,
and the main loop executes what is in its ring; the application owes no call and no
exit.  In `Session` a wait that no reply can end any more does time out; while a reply
can come, the timeout may happen but is not assumed to, since it would end every wait
whatever the server did (`QueryAnswered` would then hold of a server that never
answers).  A reset that a dead peer's kernel owes arrives, kills, resets
and late replies need not happen.  In `Superserver` the parent and the children run
and a client is told of the end of its connection; failures need not happen, and no
client need leave.  `RemoteCalls`, `ClientArrays` and `LocalAnswers` are about safety.

### Findings

Each violated run is a disagreement between the code and what the repository says:

- `ring_drain`: the reader tests `POLLHUP` before `POLLIN`
  (`gl_server/glserver.c:166`, `gl_client/glclient.c:193`), so closing the pipe
  overtakes the packets in the ring, which are never executed.  The comment in
  `common/ring.h:97` calls the close the signal of the end of data.
- `recvr_reset`: `recvr_read` returns the size asked for when the read failed
  (`common/recvr.c:75`), so its caller's error branches are dead and stale slot
  contents are taken for a packet.
- `dispatch_stale`: `glGetActiveAttrib` and `glGetActiveUniform` take the address
  of their reply before they wait for it (`gl_client/clientgles.c:747`, `:778`);
  after a large reply that was kept, that is a buffer the wait frees.
- `session_reset`: after a failed reply the main thread closes the connection
  (`gl_server/glserver.c:61`); a receiver thread that polls afterwards gets POLLNVAL,
  which its loop does not treat as an end (`common/recvr.c:193-212`): the child spins
  and never exits.
- `strings_static`: the string caches grow by `realloc` while they are filled
  (`gl_client/clientegl.c:400`, `gl_client/clientgles.c:1025`), and the strings
  registered before are still pointed to in the old block.

Seen while modelling, and part of what the models do, without a run of their own:
`discard_bytes` reads by the size of its scratch buffer (`common/recvr.c:54`), so it
may read into the next packet, and then its own assertion stops the process;
`has_data` as above (`gl_server/glserver.h:51`), where `doc/INTERNALS.md:240` says a
call that lost its data is not executed; the three EGL calls without handler, which
end the program at their timeout; `glDrawElements` with client indices, whose
assertion fails (or which, below 4 GB, draws garbage: not modelled); `gls_cleanup_library`, which closes
and frees connection and ring under a receiver thread that still runs
(`gl_client/glclient.c:302`, `common/recvr.c:228`); `free(srv)` that leaves the listening socket open in the children
(`gl_server/main.c:93`).

## 4. Proofs

Every invariant that a passing run checks is also a theorem, for every value of
the constants that the named assumption of its module allows, and so is the safety
part of each of the three refinements.  A proof module gives an inductive invariant
`IInv`, proves that the initial states have it (`Starts`, `Init...`), that every step
keeps it (one lemma per action, or per conjunct where an action touches many), and
derives the properties from it.  TLC has checked each `IInv` on the run's instance
before it was proved.

| module | theorem | states |
|---|---|---|
| `PacketQueueProofs` | `QueueIsFifo` | `Fifo` |
| `RingProofs` | `RingInvariant`, `TypeCorrect`, `AssertionsHold`, `NoBlockingOnPipe`, `NoTornCommand`, `NothingLost`, `JoinReturns`, `RingImplementsQueue` | `IInv`, `TypeOK`, `AssertsHold`, `PipeNeverBlocks`, `SlotStable`, `RingContents`, `JoinNeverBlocks`, the safety part of `PacketQueue` |
| `RecvrProofs` | `TypeCorrect`, `PacketsFaithful`, `FramingKept`, `DeliveredInOrder`, `BuffersOwned`, `NothingLostAtEof` | `TypeOK`, `PushedFaithful`, `Framing`, `DeliveredIsPushed`, `HeapOwned`, `EofPushesAll` |
| `DispatchProofs` | `TypeCorrect`, `CallsSeeTheirData`, `BuffersAreFreed`, `RepliesAreOwn`, `RepliesCome`, `CallsAreExecutedInOrder` | `TypeOK`, `OwnData`, `FreedInTime`, `OwnReply`, `ReplyComes`, `ExecutedInOrder` |
| `SessionProofs` | `TypeCorrect`, `FailedWritesAreSafe`, `RepliesNeverBlock`, `SessionImplementsRemoteCalls` | `TypeOK`, `NoReadAfterFailedWrite`, `ReplyNeverBlocks`, `RefinesRemoteCalls` |
| `ClientArraysProofs` | `TypeCorrect`, `MirrorCorrect`, `LibraryImplementsVertexArrays` | `TypeOK`, `MirrorAgrees`, `RefinesVertexArrays` |
| `LocalAnswersProofs` | `TypeCorrect`, `FailuresAreReported`, `CopiesAreIntact`, `NoStaleWord` | `TypeOK`, `LastErrorReported`, `CopiesIntact`, `NotEndedByStaleWord` |
| `SuperserverProofs` | `TypeCorrect`, `EndedIsClosed` | `TypeOK`, `EndedMeansClosed` |

### Ring and PacketQueue

`QueueInv` is inductive for `PacketQueue` and implies `Fifo`.

The heart of the ring's `IInv` is one equation (`IndexInv`): the packets between the
indexes number the bytes in the pipe, plus one while the writer has moved its index
and not yet written its byte, plus one while the reader has taken a byte and not yet
moved its index.  None of the safety properties is inductive without it:
`PipeNeverBlocks` needs it to know that a non-empty pipe means a non-empty ring
and the other way round, the writer's assertion needs the bound on the
occupancy.  `SlotInv` adds that the slots between the indexes hold complete
packets and that the reader's slot is what it dispatched on; `RingContents` is
itself inductive once these are there.  The modulo arithmetic is confined to a few
lemmas (`SlotArith`, `OccupancyFacts`, `SlotShift`): the step proofs only see `SlotAt`
and what the lemmas say about it.

### Recvr

The framing is a matter of two places that must agree: where the receiver is in a
packet, and which unit of the stream it reads next (`Due`, the head of what is on
the wire or, when that is empty, what the peer writes next).  `WireInv` says that the
wire holds consecutive units; `Position` says what `Due` is for each `pc` and what has
been read of the packet so far, as long as no read has failed (`InSync`).  After a
reset nothing of this is promised, in the proof as in the code.  `Behind` adds that
the packets before the one being received were pushed, in order, or were ones that
may be discarded: with `AtEnd` it gives `EofPushesAll`.

What the reader sees is in `QueueInv`: the slots between the indexes, each seen
through its pointer, are the packets pushed last.  It needs `SlotFree` (the slot
being filled is not among them) and `OwnerInv` (the buffer being filled is not theirs),
which is `HeapOwned` with the buffer of a packet that the stream ended in.  These two
hold after a reset too, and so does `DeliveredIsPushed`.

### Dispatch

The proof looks at the packets the server is to execute together with the one the
client is about to send (`Upcoming`): data packets and calls alternate as the tables
say, a call directly behind its own data, numbers ascending (`StreamInv`).  With
that, the state of the server's pool is a function of the next packet (`PoolInv`): a
call that takes data finds its own, and a large buffer is held for the next call
only, which will release it.  `ReplyInv` says that at most one reply is due or on its
way, to the call the client waits in, and `WaitInv` that one is.  `OrderInv` with
`SentInv` gives the order of execution.

What the proof needs of the tables are lemmas (`SameData`, `DataKinds`, `LargeData`,
`WaitsAreAnswered`, `CallsAreHandled`), the only places where the names of calls are
looked at, so that a new call has to respect just these: the handler uses data
exactly if the call sends it, releases what may be large, and replies if the client
waits.

Two conditions are the code's.  `RepliesAreOwn` leaves out the calls of `EarlyRet`,
for which run `dispatch_stale` shows the opposite; `RepliesCome` and
`CallsAreExecutedInOrder` leave out the three calls that no handler answers
(`Unanswered`).  `OwnData`, `ReplyComes` and `ExecutedInOrder` say themselves that they
are about instances without losses or, the last two, without a slow server.

### Session

The packets in the server's ring and on its wire lead without a gap from where the
server is (`ServerPosition`: calls executed, and whether the data of the next one is
in the pool) towards where the client is (`ClientPosition`), and up to it while the
connection is whole (`StreamInv`).  A call that asks for a result is the last one until
its reply is used (`QueryInv`, `ReplyingInv`, `RepliesInv`): hence at most one reply is
anywhere, and it is that of the last call.  Both refinement and `ReplyNeverBlocks`
rest on this: a reply finds the socket empty, as there is no other.  `ResetInv` has
the case that made `ReplyNeverBlocks` hard: a reset that a write is not told of is one
that an earlier reply to the dead client called for, and then no call is left that
asks for a reply.  `ReadyInv` and `PollingInv` say what a receiver thread between poll
and read will find, while its main thread has not freed it, which gives
`NoReadAfterFailedWrite`; a thread that survives its read (`ReadFreed`) touches no packet
and no position, which `SurvivesFreed` states for the proof of that step.

`SessionImplementsRemoteCalls` maps `StartCall` to `Call`, `HandleCall` to `Execute`, the
client's `HandlePacket` to `Return`, a program's exit or death to `End` or to a
stutter, and everything else to a stutter.

### ClientArrays

`NamesIn` says that the names in use are the application's and those of the emulation,
one attribute each, so that a name is always left for the next upload (a cardinality
argument, `NameIsLeft`); `SourceInv` where mirror and GL keep the source that the
application chose last.  One drawing uploads several arrays, through a recursive
function over the attributes: `UploadAllIs` and `UploadAllDone` follow it by induction
(`NatInd`), what one upload changes is in `UploadIs`.  For
`LibraryImplementsVertexArrays` the GL's view of each attribute, emulation buffers read
back as the memory they copy, is that of `VertexArrays`.

### LocalAnswers

`ErrorsInv` says where the error of a protocol's last call is until it is asked for:
in the library's own error, or in the server's with no own error in front of it; only a
failed write puts another one over it, and then no write succeeds any more, which is
why `LastErrorReported` asks for the same error with EGL on a connection that is
there, and for some error otherwise.  The layout of a cache is proved by induction over
its items (`PopulatedFilled`): they lie one behind the other, below `nfilled`, each
within the block it was copied into, and doubling reaches any size (`GrownFits`).
`CopiesIntact` does not say that this block is still the cache's: `strings_static`
shows that it need not be.  `AllKnown` is the argument about "success":
the only answer that leaves it alone is that for the extensions, which are not the
first string.

### Superserver

A connection is in one place at a time: in the backlog, with the parent, or with its
child; a child inherits, beside its own connection, only those whose fork failed
(`InheritedInv`), because the parent closes before it accepts again.  So a connection
whose child has ended is held by nobody.

### Assumptions, and what stays with TLC

Assumed are sequentially consistent memory and the assumption each module names: a ring
of at least one slot (`Recvr`: two) and a pipe with room for one byte less than the
slots; sockets and rings with room for one packet; at most 16 attributes, and a GL
with a name for each of them beside the application's; first allocations and long
strings of at least one byte; finitely many clients; applications that make calls of the
table.  (The code's largest ring has 4096 slots, and a pipe of Linux takes 65536 bytes.)

Left to TLC are the properties under fairness, `EveryPacketHandled`, `ChildEnds`,
`PacketsArrive`, `ReceiverEnds`, `CallsReturn`, `QueryAnswered`, `ServerEnds`,
`EveryClientServed` and the fairness part of `RefinesPacketQueue`: neither liveness nor
`ENABLED` is within the prover's reach.  The library's induction theorems take an
operator as a parameter, which the installed provers cannot instantiate;
where induction was needed (`ClientArrays`, `LocalAnswers`) it is over the elements of a
set of numbers, from the well-foundedness of `<`.  Not proved are the properties that
the code violates (section 3).

## 5. Not modelled, and the plan

Every module planned for the model is written, and every safety property the runs
check is proved.  What could follow: `Session` with the receivers of `Recvr` in the
place of whole packets, so that the link between the two is a formal one as well, and
properties for the hazards that have none yet (window mappings, the listening
socket in the children, an index buffer's largest index).

Out of reach or left out on purpose:

- Windows (`gl_server/glcontrol.c`, `list.c`): a list that only grows, used by one
  thread, where the mapping that is looked up was put at the head by the packet
  before; what remains is X11.  (`eglCreatePlatformWindowSurfaceEXT` sends an address
  where an XID is looked up, `gl_client/clientegl.c:758`; its assertion fails first.)
- what EGL, GL and X11 do, beyond the state `ClientArrays` keeps;
- the fields of each packet and the sizes of pixel data, except where a property is
  about them;
- the choice and the set-up of a transport: straight-line code before anything else
  runs; the stdio and qrexec transports otherwise than as a pair of pipes in `Recvr`;
- a restart of the server, which keeps nothing, and clients with several contexts;
- weak memory orders; signals other than SIGPIPE and those that kill;
- applications that call the library from two threads (its pool and buffers are
  global and unlocked), which it does not claim to support;
- logging and the Wireshark dissector, which have no state.
