------------------------------ MODULE Dispatch ------------------------------
(***************************************************************************)
(* Calls and their packets: what the client library sends for each EGL and *)
(* GLES call (gl_client/), how the server's main loop executes it          *)
(* (gl_server/) and what each side does with its buffer pool               *)
(* (common/bufpool.h).                                                     *)
(*                                                                         *)
(* A call may send a SEND_DATA packet first, then sends its own packet,    *)
(* and may wait for a reply, another SEND_DATA.  Nothing in a SEND_DATA    *)
(* says which call it belongs to.  The protocol of a call is written twice *)
(* in the code, once per side, and so it is here.                          *)
(*                                                                         *)
(* The transport, the receiver threads and the rings are one queue per     *)
(* direction (modules Ring and Recvr).                                     *)
(***************************************************************************)
EXTENDS Naturals, Sequences

(***************************************************************************)
(* An application and its circumstances: the calls it makes and a bound on *)
(* how many, whether a receiver may lack the memory for a large packet,    *)
(* and whether the server may take more than GLS_TIMEOUT_MSEC.             *)
(***************************************************************************)
CONSTANT Applications

-----------------------------------------------------------------------------
(***************************************************************************)
(* The client's side of each call.                                         *)
(***************************************************************************)

SendsAttribs ==
  {"eglChooseConfig", "eglCreateContext", "eglCreatePbufferSurface",
   "eglCreateWindowSurface", "eglCreatePlatformWindowSurfaceEXT",
   "eglGetPlatformDisplay", "eglGetPlatformDisplayEXT"}
SendsPayload == {"glBufferData", "glBufferSubData", "glTexImage2D", "glTexSubImage2D"}
SendsVertexAttrib ==
  {"glVertexAttrib1f", "glVertexAttrib2f", "glVertexAttrib3f", "glVertexAttrib4f",
   "glVertexAttrib1fv", "glVertexAttrib2fv", "glVertexAttrib3fv", "glVertexAttrib4fv"}

(***************************************************************************)
(* What a call sends ahead of its packet.  "large" does not fit a slot of  *)
(* the server's ring; glShaderSource always sends its whole length table.  *)
(***************************************************************************)
DataSizes(op) ==
  CASE op \in SendsAttribs -> {"none", "small"}
    [] op \in SendsPayload -> {"none", "small", "large"}
    [] op = "glDeleteBuffers" -> {"small", "large"}
    [] op = "glShaderSource" -> {"large"}
    [] op \in SendsVertexAttrib -> {"small"}
    [] OTHER -> {"none"}

(***************************************************************************)
(* The data is composed in tmp_buf, not sent from the caller's memory.     *)
(***************************************************************************)
ComposesInTmp == SendsAttribs \cup SendsVertexAttrib \cup {"glShaderSource"}

(***************************************************************************)
(* Calls that send a packet and return at once.                            *)
(***************************************************************************)
SendsState ==
  {"glActiveTexture", "glAttachShader", "glBindAttribLocation", "glBindBuffer",
   "glBindFramebuffer", "glBindRenderbuffer", "glBindTexture",
   "glBlendEquationSeparate", "glBlendFunc", "glBlendFuncSeparate"}
SendsClear ==
  {"glClear", "glClearColor", "glClearDepthf", "glClearStencil", "glColorMask",
   "glCompileShader", "glCopyTexSubImage2D", "glCullFace"}
SendsDelete ==
  {"glDeleteFramebuffers", "glDeleteProgram", "glDeleteRenderbuffers",
   "glDeleteShader", "glDeleteTextures", "glDepthFunc", "glDepthMask",
   "glDepthRangef", "glDisable", "glDisableVertexAttribArray"}
SendsDraw ==
  {"glDrawArrays", "glDrawElements", "glEnable", "glEnableVertexAttribArray",
   "glFinish", "glFlush", "glFramebufferRenderbuffer", "glFramebufferTexture2D",
   "glGenerateMipmap"}
SendsSetting ==
  {"glHint", "glLineWidth", "glLinkProgram", "glPixelStorei", "glPolygonOffset",
   "glRenderbufferStorage"}
SendsStencil == {"glStencilFunc", "glStencilMask", "glStencilOp", "glTexParameteri"}
SendsUniform ==
  {"glUniform1f", "glUniform2f", "glUniform3f", "glUniform4f", "glUniform1i",
   "glUniform2i", "glUniform3i", "glUniform4i", "glUseProgram"}
SendsUniformVector ==
  {"glUniform1fv", "glUniform2fv", "glUniform3fv", "glUniform4fv", "glUniform1iv",
   "glUniform2iv", "glUniform3iv", "glUniform4iv", "glUniformMatrix2fv",
   "glUniformMatrix3fv", "glUniformMatrix4fv"}
SendsView ==
  {"glVertexAttribPointer", "glViewport", "glEGLImageTargetTexture2DOES",
   "glEGLImageTargetRenderbufferStorageOES"}
SendsOnly ==
  UNION {SendsState, SendsClear, SendsDelete, SendsDraw, SendsSetting, SendsStencil,
         SendsUniform, SendsUniformVector, SendsView, {"CREATE_WINDOW"}}

(***************************************************************************)
(* Calls that wait for a reply, besides those that send attributes.        *)
(***************************************************************************)
EglWaits ==
  {"eglDestroyContext", "eglDestroySurface", "eglGetConfigAttrib", "eglGetConfigs",
   "eglGetCurrentDisplay", "eglGetCurrentSurface", "eglGetDisplay", "eglGetError",
   "eglGetProcAddress", "eglInitialize", "eglMakeCurrent"}
EglQueryWaits ==
  {"eglQueryContext", "eglQueryString", "eglQuerySurface", "eglSwapBuffers",
   "eglTerminate"}
EglLaterWaits == \* EGL 1.1 to 1.4
  {"eglBindTexImage", "eglReleaseTexImage", "eglSurfaceAttrib", "eglSwapInterval",
   "eglBindAPI", "eglReleaseThread", "eglGetCurrentContext"}
CreateWaits == {"glCheckFramebufferStatus", "glCreateProgram", "glCreateShader"}
Generates == {"glGenBuffers", "glGenFramebuffers", "glGenRenderbuffers", "glGenTextures"}
GetWaits ==
  {"glGetActiveAttrib", "glGetActiveUniform", "glGetAttribLocation", "glGetError",
   "glGetFloatv", "glGetIntegerv", "glGetProgramiv"}
GetTextWaits ==
  {"glGetProgramInfoLog", "glGetShaderiv", "glGetShaderInfoLog", "glGetString"}
IsWaits == {"glGetUniformLocation", "glIsBuffer", "glIsEnabled", "glReadPixels"}
ClientWaits ==
  UNION {SendsAttribs, EglWaits, EglQueryWaits, EglLaterWaits, CreateWaits, Generates,
         GetWaits, GetTextWaits, IsWaits, {"HANDSHAKE"}}

ClientCalls ==
  UNION {ClientWaits, SendsOnly, SendsPayload, SendsVertexAttrib,
         {"glDeleteBuffers", "glShaderSource"}}

(***************************************************************************)
(* Calls that may return without sending their packet: a second native     *)
(* display (gls_wire_native_display), arguments too long for out_buf       *)
(* (GLS_VARIABLE_PAYLOAD), an error or a string the client has itself, a   *)
(* vertex array in the application's memory.                               *)
(***************************************************************************)
MayAbandon ==
  {"eglGetDisplay", "eglGetPlatformDisplay", "eglGetPlatformDisplayEXT",
   "eglGetProcAddress", "glDeleteFramebuffers", "glDeleteRenderbuffers",
   "glDeleteTextures", "eglGetError", "glGetError", "eglQueryString", "glGetString",
   "glVertexAttribPointer", "glDrawElements"} \cup SendsUniformVector

(***************************************************************************)
(* GLSC_GLS_UNDEF: the reply carries no command to compare.                *)
(***************************************************************************)
RawReply == Generates

(***************************************************************************)
(* The call picks where its reply is before it waits for it.               *)
(***************************************************************************)
EarlyRet == {"glGetActiveAttrib", "glGetActiveUniform"}

(***************************************************************************)
(* No GLS_RELEASE_RET after the reply was used.                            *)
(***************************************************************************)
KeepsRet == Generates \cup {"eglMakeCurrent", "glGetShaderiv"}

-----------------------------------------------------------------------------
(***************************************************************************)
(* The server's side of each call.                                         *)
(***************************************************************************)

UsesAttribs ==
  {"eglChooseConfig", "eglCreateContext", "eglCreatePbufferSurface",
   "eglCreateWindowSurface", "eglCreatePlatformWindowSurfaceEXT",
   "eglGetPlatformDisplay", "eglGetPlatformDisplayEXT"}
UsesPayload == {"glBufferData", "glBufferSubData", "glTexImage2D", "glTexSubImage2D"}
UsesVertexAttrib ==
  {"glVertexAttrib1f", "glVertexAttrib2f", "glVertexAttrib3f", "glVertexAttrib4f",
   "glVertexAttrib1fv", "glVertexAttrib2fv", "glVertexAttrib3fv", "glVertexAttrib4fv"}
UsesAlways == UsesVertexAttrib \cup {"glDeleteBuffers", "glShaderSource"}
ServerUses == UNION {UsesAttribs, UsesPayload, UsesAlways}

ServerReleasesNoBufferData == \* mutant: GLSE_RELEASE_DATA forgotten in one handler
  ServerUses \ {"eglGetPlatformDisplay", "eglGetPlatformDisplayEXT", "glBufferData"}

(***************************************************************************)
(* GLSE_RELEASE_DATA: the two eglGetPlatformDisplay handlers lack it.      *)
(***************************************************************************)
ServerReleases == ServerUses \ {"eglGetPlatformDisplay", "eglGetPlatformDisplayEXT"}

(***************************************************************************)
(* Handlers that neither use data nor reply.                               *)
(***************************************************************************)
HandlesState ==
  {"glActiveTexture", "glAttachShader", "glBindAttribLocation", "glBindBuffer",
   "glBindRenderbuffer", "glBindFramebuffer", "glBindTexture",
   "glBlendEquationSeparate", "glBlendFunc", "glBlendFuncSeparate"}
HandlesClear ==
  {"glClear", "glClearColor", "glClearDepthf", "glClearStencil", "glColorMask",
   "glCompileShader", "glCopyTexSubImage2D", "glCullFace"}
HandlesDelete ==
  {"glDeleteFramebuffers", "glDeleteProgram", "glDeleteRenderbuffers",
   "glDeleteShader", "glDeleteTextures", "glDepthFunc", "glDepthMask",
   "glDepthRangef", "glDisableVertexAttribArray", "glDisable"}
HandlesNoFlush == \* mutant: a handler commented out
  {"glDrawArrays", "glDrawElements", "glEnable", "glEnableVertexAttribArray",
   "glFinish", "glFramebufferRenderbuffer", "glFramebufferTexture2D",
   "glGenerateMipmap"}
HandlesDraw ==
  {"glDrawArrays", "glDrawElements", "glEnable", "glEnableVertexAttribArray",
   "glFinish", "glFlush", "glFramebufferRenderbuffer", "glFramebufferTexture2D",
   "glGenerateMipmap"}
HandlesSetting ==
  {"glHint", "glLineWidth", "glLinkProgram", "glPixelStorei", "glPolygonOffset",
   "glRenderbufferStorage"}
HandlesStencil == {"glStencilFunc", "glStencilMask", "glStencilOp", "glTexParameteri"}
HandlesUniform ==
  {"glUniform1f", "glUniform1i", "glUniform2f", "glUniform2i", "glUniform3f",
   "glUniform3i", "glUniform4f", "glUniform4i", "glUniform1fv", "glUniform2fv",
   "glUniform3fv", "glUniform4fv", "glUniform1iv", "glUniform2iv", "glUniform3iv",
   "glUniform4iv", "glUniformMatrix2fv", "glUniformMatrix3fv", "glUniformMatrix4fv",
   "glUseProgram"}
HandlesView ==
  {"glVertexAttribPointer", "glViewport", "glEGLImageTargetTexture2DOES",
   "glEGLImageTargetRenderbufferStorageOES"}

(***************************************************************************)
(* Handlers that reply, besides those that use attributes.                 *)
(***************************************************************************)
EglReplies ==
  {"eglDestroyContext", "eglDestroySurface", "eglGetConfigAttrib", "eglGetConfigs",
   "eglGetCurrentDisplay", "eglGetCurrentSurface", "eglGetDisplay", "eglGetError",
   "eglGetProcAddress", "eglInitialize", "eglMakeCurrent"}
EglQueryReplies ==
  {"eglQueryContext", "eglQueryString", "eglQuerySurface", "eglSwapBuffers",
   "eglTerminate", "eglSwapInterval", "eglBindAPI", "eglReleaseThread",
   "eglGetCurrentContext"}
CreateReplies == {"glCheckFramebufferStatus", "glCreateProgram", "glCreateShader"}
GeneratesReplies ==
  {"glGenBuffers", "glGenFramebuffers", "glGenRenderbuffers", "glGenTextures"}
GetReplies ==
  {"glGetActiveAttrib", "glGetActiveUniform", "glGetAttribLocation", "glGetError",
   "glGetFloatv", "glGetIntegerv", "glGetProgramInfoLog", "glGetProgramiv",
   "glGetShaderInfoLog", "glGetShaderiv"}
LateReplies ==
  {"glGetString", "glGetUniformLocation", "glIsBuffer", "glIsEnabled", "glReadPixels"}
AllReplies ==
  UNION {UsesAttribs, EglReplies, EglQueryReplies, CreateReplies, GeneratesReplies,
         GetReplies, LateReplies, {"HANDSHAKE"}}

ServerRepliesToDelete == \* mutant: a handler that replies to a call that does not wait
  AllReplies \cup {"glDeleteBuffers"}

ServerRepliesButOne == \* mutant: a handler whose reply is forgotten
  AllReplies \ {"eglChooseConfig"}

ServerReplies == AllReplies

(***************************************************************************)
(* The cases of egl_executeCommand, gles_executeCommand and of the main    *)
(* loop itself; those commented out are not there.                         *)
(***************************************************************************)
ServerHandles ==
  UNION {ServerUses, AllReplies, HandlesState, HandlesClear, HandlesDelete, HandlesDraw,
         HandlesSetting, HandlesStencil, HandlesUniform, HandlesView,
         {"CREATE_WINDOW"}}

(***************************************************************************)
(* Replies that do not fit a slot of the client's ring (1 KB).             *)
(***************************************************************************)
ReplySizes(op) ==
  CASE op \in {"eglChooseConfig", "eglGetConfigs", "eglQueryString", "glGetString"} ->
         {"large"}
    [] op \in GeneratesReplies \cup {"glGetProgramInfoLog", "glGetShaderInfoLog"} ->
         {"small", "large"}
    [] OTHER -> {"small"}

ASSUME DispatchAssumption ==
  \A a \in Applications :
    /\ a.calls \subseteq ClientCalls /\ a.max \in Nat
    /\ a.lossy \in BOOLEAN /\ a.slow \in BOOLEAN

-----------------------------------------------------------------------------
VARIABLES
  app,       \* the application
  cpc,       \* the client: "idle", "data", "call", "wait", "use", "exited"
  call,      \* the call being made, with the size of its data
  ncalls,    \* its number
  cpool,     \* client pool: content of tmp_buf and of the malloc'd buffer
  retptr,    \* where "ret" points: Nothing is tmp_buf, else a malloc'd buffer
  toServer,  \* packets on their way to the server
  toClient,  \* packets on their way back
  spool,     \* server pool, with has_data
  sent,      \* history: numbers of the calls sent
  executed,  \* history: calls the server executed, with the input they saw
  returned   \* history: calls that returned, with the reply they used

clientVars == <<cpc, call, ncalls, cpool, retptr, sent, returned>>
serverVars == <<spool, executed>>
vars == <<app, clientVars, toServer, toClient, serverVars>>

(***************************************************************************)
(* Contents of a buffer: the data call n sent, the reply to call n, ...    *)
(***************************************************************************)
Nothing == <<"nothing", 0>>
Freed == <<"freed", 0>>
Data(n) == <<"data", n>>
Reply(n) == <<"reply", n>>
Content == {Nothing, Freed} \cup ({"data", "reply"} \X (1 .. app.max))

Sizes == {"none", "small", "large"}

TypeOK ==
  /\ app \in Applications
  /\ cpc \in {"idle", "data", "call", "wait", "use", "exited"}
  /\ call \in [op : app.calls \cup {"none"}, size : Sizes]
  /\ ncalls \in 0 .. app.max
  /\ cpool \in [tmp : Content, buf : Content]
  /\ retptr \in Content
  /\ toServer \in Seq([cmd : app.calls \cup {"SEND_DATA"}, n : 1 .. app.max, size : Sizes])
  /\ toClient \in Seq([cmd : app.calls, n : 1 .. app.max, size : {"small", "large"}])
  /\ spool \in [has_data : BOOLEAN, tmp : Content, buf : Content]
  /\ sent \in Seq(1 .. app.max)
  /\ executed \in Seq([n : 1 .. app.max, flag : BOOLEAN, input : Content])
  /\ returned \in Seq([n : 1 .. app.max, reply : Content])

Init ==
  /\ app \in Applications
  /\ cpc = "idle" /\ call = [op |-> "none", size |-> "none"] /\ ncalls = 0
  /\ cpool = [tmp |-> Nothing, buf |-> Nothing] /\ retptr = Nothing
  /\ toServer = <<>> /\ toClient = <<>>
  /\ spool = [has_data |-> FALSE, tmp |-> Nothing, buf |-> Nothing]
  /\ sent = <<>> /\ executed = <<>> /\ returned = <<>>

-----------------------------------------------------------------------------
(* The client.                                                             *)

StartCall(op, size) ==
  /\ cpc = "idle"
  /\ ncalls < app.max
  /\ size \in DataSizes(op)
  /\ ncalls' = ncalls + 1
  /\ call' = [op |-> op, size |-> size]
  /\ cpc' = IF size = "none" THEN "call" ELSE "data"
  /\ UNCHANGED <<app, cpool, retptr, sent, returned, toServer, toClient, serverVars>>

(***************************************************************************)
(* gls_cmd_send_data.                                                      *)
(***************************************************************************)
SendData ==
  /\ cpc = "data"
  /\ cpool' = IF call.op \in ComposesInTmp
              THEN [cpool EXCEPT !.tmp = Data(ncalls)] ELSE cpool
  /\ toServer' = Append(toServer,
                        [cmd |-> "SEND_DATA", n |-> ncalls, size |-> call.size])
  /\ cpc' = "call"
  /\ UNCHANGED <<app, call, ncalls, retptr, sent, returned, toClient, serverVars>>

(***************************************************************************)
(* The call gives up; its data, if any, is already sent.                   *)
(***************************************************************************)
AbandonCall ==
  /\ cpc = "call"
  /\ call.op \in MayAbandon
  /\ cpc' = "idle"
  /\ UNCHANGED <<app, call, ncalls, cpool, retptr, sent, returned, toServer, toClient,
                 serverVars>>

(***************************************************************************)
(* GLS_SET_RAWRET_PTR.                                                     *)
(***************************************************************************)
RetPtr(pool) == pool.buf

(***************************************************************************)
(* send_packet; its flag (has_attribs, has_data, has_pixels) is the size.  *)
(***************************************************************************)
SendCall ==
  /\ cpc = "call"
  /\ toServer' = Append(toServer, [cmd |-> call.op, n |-> ncalls, size |-> call.size])
  /\ sent' = Append(sent, ncalls)
  /\ retptr' = IF call.op \in EarlyRet THEN RetPtr(cpool) ELSE retptr
  /\ cpc' = IF call.op \in ClientWaits THEN "wait" ELSE "idle"
  /\ UNCHANGED <<app, call, ncalls, cpool, returned, toClient, serverVars>>

TakeOver(pool, content, size) ==
  IF size = "large" THEN [pool EXCEPT !.buf = content]
  ELSE [pool EXCEPT !.tmp = content, !.buf = Nothing]

(***************************************************************************)
(* wait_for_data and handle_packet: a reply to another command is logged   *)
(* and dropped, and the wait is over all the same.                         *)
(***************************************************************************)
HandlePacket ==
  /\ cpc = "wait"
  /\ toClient # <<>>
  /\ LET p == Head(toClient)
         expected == call.op \in RawReply \/ p.cmd = call.op
     IN  cpool' = IF expected THEN TakeOver(cpool, Reply(p.n), p.size) ELSE cpool
  /\ retptr' = IF call.op \in EarlyRet THEN retptr ELSE RetPtr(cpool')
  /\ toClient' = Tail(toClient)
  /\ cpc' = "use"
  /\ UNCHANGED <<app, call, ncalls, sent, returned, toServer, serverVars>>

(***************************************************************************)
(* The call copies its results from "ret", releases it and returns.        *)
(***************************************************************************)
SeenThrough(ptr) ==
  IF ptr = Nothing THEN cpool.tmp ELSE IF ptr = cpool.buf THEN ptr ELSE Freed

UseReply ==
  /\ cpc = "use"
  /\ returned' = Append(returned, [n |-> ncalls, reply |-> SeenThrough(retptr)])
  /\ cpool' = IF call.op \in KeepsRet THEN cpool ELSE [cpool EXCEPT !.buf = Nothing]
  /\ cpc' = "idle"
  /\ UNCHANGED <<app, call, ncalls, retptr, sent, toServer, toClient, serverVars>>

(***************************************************************************)
(* poll in wait_for_data times out, and the program exits.  Unless the     *)
(* server is slow, this takes a reply that cannot come any more.           *)
(***************************************************************************)
TimeOut ==
  /\ cpc = "wait"
  /\ app.slow \/ (toServer = <<>> /\ toClient = <<>>)
  /\ cpc' = "exited"
  /\ UNCHANGED <<app, call, ncalls, cpool, retptr, sent, returned, toServer, toClient,
                 serverVars>>

Client ==
  \/ SendData \/ AbandonCall \/ SendCall
  \/ HandlePacket \/ UseReply \/ TimeOut

-----------------------------------------------------------------------------
(* Loss: recvr_handle_packet discards what it has no memory for.           *)

LoseData ==
  /\ app.lossy
  /\ toServer # <<>>
  /\ Head(toServer).cmd = "SEND_DATA" /\ Head(toServer).size = "large"
  /\ toServer' = Tail(toServer)
  /\ UNCHANGED <<app, clientVars, toClient, serverVars>>

LoseReply ==
  /\ app.lossy
  /\ toClient # <<>>
  /\ Head(toClient).size = "large"
  /\ toClient' = Tail(toClient)
  /\ UNCHANGED <<app, clientVars, toServer, serverVars>>

-----------------------------------------------------------------------------
(* The server: glse_handle_ring_packet, one packet per step.               *)

(***************************************************************************)
(* ringbuf_data_to_bufpool.                                                *)
(***************************************************************************)
HandleData ==
  /\ toServer # <<>>
  /\ Head(toServer).cmd = "SEND_DATA"
  /\ LET p == Head(toServer)
         pool == TakeOver([tmp |-> spool.tmp, buf |-> Nothing], Data(p.n), p.size)
     IN  spool' = [has_data |-> TRUE, tmp |-> pool.tmp, buf |-> pool.buf]
  /\ toServer' = Tail(toServer)
  /\ UNCHANGED <<app, clientVars, toClient, executed>>

WaitData(p) ==
  p.cmd \in UsesAlways \/ (p.cmd \in UsesAttribs \cup UsesPayload /\ p.size # "none")

(***************************************************************************)
(* "Unhandled command": logged, and the packet is gone.                    *)
(***************************************************************************)
UnhandledCall ==
  /\ toServer # <<>>
  /\ Head(toServer).cmd \notin ServerHandles \cup {"SEND_DATA"}
  /\ toServer' = Tail(toServer)
  /\ UNCHANGED <<app, clientVars, toClient, spool, executed>>

(***************************************************************************)
(* "skipping call without data": the handler returns, and does not reply.  *)
(***************************************************************************)
SkipCall ==
  /\ toServer # <<>>
  /\ Head(toServer).cmd \in ServerHandles
  /\ WaitData(Head(toServer))
  /\ ~spool.has_data
  /\ toServer' = Tail(toServer)
  /\ UNCHANGED <<app, clientVars, toClient, spool, executed>>

PayloadTmp == spool.tmp \* mutant: the handler looks into tmp_buf only
Payload == IF spool.buf # Nothing THEN spool.buf ELSE spool.tmp

ReplyToUnset(p, s) == \* mutant: ret->cmd is what tmp_buf held
  [cmd |-> "SEND_DATA", n |-> p.n, size |-> s]

ReplyTo(p, s) == [cmd |-> p.cmd, n |-> p.n, size |-> s]

(***************************************************************************)
(* The handler: input from the pool, release, the reply composed in the    *)
(* same tmp_buf and sent.                                                  *)
(***************************************************************************)
ExecuteCall ==
  /\ toServer # <<>>
  /\ LET p == Head(toServer)
         released == IF p.cmd \in ServerReleases
                     THEN [spool EXCEPT !.has_data = FALSE, !.buf = Nothing] ELSE spool
     IN  /\ p.cmd \in ServerHandles
         /\ WaitData(p) => spool.has_data
         /\ executed' = Append(executed,
                               [n |-> p.n, flag |-> p.size # "none",
                                input |-> IF WaitData(p) THEN Payload ELSE Nothing])
         /\ IF p.cmd \in ServerReplies
            THEN /\ spool' = [released EXCEPT !.tmp = Reply(p.n)]
                 /\ \E s \in ReplySizes(p.cmd) :
                      toClient' = Append(toClient, ReplyTo(p, s))
            ELSE spool' = released /\ UNCHANGED toClient
  /\ toServer' = Tail(toServer)
  /\ UNCHANGED <<app, clientVars>>

(***************************************************************************)
(* The client is gone: the server stops wherever it is in its ring.        *)
(***************************************************************************)
ServerEnds ==
  /\ cpc = "exited"
  /\ toServer # <<>>
  /\ toServer' = <<>>
  /\ UNCHANGED <<app, clientVars, toClient, serverVars>>

Server == HandleData \/ UnhandledCall \/ SkipCall \/ ExecuteCall

Terminated ==
  /\ cpc = "exited" \/ (cpc = "idle" /\ ncalls = app.max)
  /\ toServer = <<>>
  /\ UNCHANGED vars

StartSomeCall == \E op \in app.calls, size \in Sizes : StartCall(op, size)

Next ==
  \/ StartSomeCall \/ Client
  \/ LoseData \/ LoseReply
  \/ Server \/ ServerEnds
  \/ Terminated

(***************************************************************************)
(* The application runs through a call it has begun, and the main loop     *)
(* executes what is in its ring.                                           *)
(***************************************************************************)
Fairness == WF_vars(Client) /\ WF_vars(Server)

SafeSpec == Init /\ [][Next]_vars
Spec == SafeSpec /\ Fairness

-----------------------------------------------------------------------------
(* Properties.                                                             *)

(***************************************************************************)
(* A call is executed with the data that was sent for it, and with no data *)
(* when it sent none, whatever was left in the pool by the calls before;   *)
(* unless a receiver loses data.                                           *)
(***************************************************************************)
OwnData ==
  ~app.lossy =>
    \A i \in 1 .. Len(executed) :
      LET e == executed[i]
      IN  e.input = IF e.flag THEN Data(e.n) ELSE Nothing

(***************************************************************************)
(* A call that returns something returns what the server replied to it:    *)
(* never a reply to another call, what tmp_buf held before, or memory that *)
(* was freed.  Also when data and replies are lost and the server is slow. *)
(***************************************************************************)
OwnReply == \A i \in 1 .. Len(returned) : returned[i].reply = Reply(returned[i].n)

(***************************************************************************)
(* While a client waits, its reply is on its way or its call still is: the *)
(* two sides agree on which calls reply, and each has its handler.         *)
(***************************************************************************)
Undisturbed == ~app.lossy /\ ~app.slow
ReplyComes == Undisturbed /\ cpc = "wait" => toServer # <<>> \/ toClient # <<>>

(***************************************************************************)
(* The server executes every call, in the order of the application, and    *)
(* none twice: what it has executed is the beginning of what was sent, and *)
(* the rest is on its way.                                                 *)
(***************************************************************************)
NumbersOnTheirWay ==
  {toServer[i].n : i \in {j \in DOMAIN toServer : toServer[j].cmd # "SEND_DATA"}}
ExecutedInOrder ==
  Undisturbed =>
    /\ Len(executed) <= Len(sent)
    /\ \A i \in 1 .. Len(executed) : executed[i].n = sent[i]
    /\ NumbersOnTheirWay = {sent[i] : i \in Len(executed) + 1 .. Len(sent)}

(***************************************************************************)
(* The server never finds that "previous buffer for large data not freed!" *)
(* (bufpool.h:31): a large buffer is freed by the call it was sent for.    *)
(***************************************************************************)
FreedInTime ==
  toServer # <<>> /\ Head(toServer).cmd = "SEND_DATA" => spool.buf = Nothing

(***************************************************************************)
(* A call that waits returns.                                              *)
(***************************************************************************)
CallsReturn == (cpc = "wait") ~> (cpc = "idle" \/ ~Undisturbed)
=============================================================================
