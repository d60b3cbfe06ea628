---------------------------- MODULE LocalAnswers ----------------------------
(***************************************************************************)
(* What the client library answers without, or instead of, the server: the *)
(* strings of eglQueryString and glGetString, fetched all at once the      *)
(* first time one is asked for (gl_client/clientegl.c, clientgles.c), and  *)
(* the errors that eglGetError and glGetError report, which may be the     *)
(* library's own (client_egl_error, client_gles_error) or the server's.    *)
(*                                                                         *)
(* Calls are synchronous here: module Session has what happens between a   *)
(* call and its reply.                                                     *)
(***************************************************************************)
EXTENDS Naturals, Sequences, FiniteSets

CONSTANTS InitialSize,  \* first allocation of a cache, 1024 bytes in the code
          LongSize,     \* size of a long string, the others have size 1
          MayBeLong,    \* the strings that may be long
          MaxLong       \* bound on the long strings of a protocol

ASSUME LocalAnswersAssumption ==
  InitialSize \in Nat \ {0} /\ LongSize \in Nat \ {0} /\ MaxLong \in Nat

Protocol == {"egl", "gles"}

VARIABLES
  own,        \* client_egl_error, client_gles_error
  server,     \* the error the server's EGL and GL have to report
  success,    \* the word at the place of "success" in the server's tmp_buf
  connected,  \* writes are accepted
  strings,    \* egl_strings and gles_strings
  client_ext, \* eglquerystring_client_extensions is cached
  last,       \* history: the error of the last call, that no GetError has reported
  reported,   \* history: what the last call, if a GetError, returned
  ended       \* the library has ended the program, and why

vars == <<own, server, success, connected, strings, client_ext, last, reported, ended>>

(***************************************************************************)
(* GLS_EGLQUERYSTRING_ITEMS and GLS_GLESGETSTRING_ITEMS, in their order.   *)
(***************************************************************************)
ExtensionsFirst(p) == \* mutant: the extensions are fetched first
  <<"EXTENSIONS", "VENDOR", "VERSION", IF p = "egl" THEN "CLIENT_APIS" ELSE "RENDERER">>

Items(p) ==
  IF p = "egl" THEN <<"CLIENT_APIS", "VENDOR", "VERSION", "EXTENSIONS">>
  ELSE <<"VENDOR", "RENDERER", "VERSION", "SHADING_LANGUAGE_VERSION", "EXTENSIONS">>
Item(p) == {Items(p)[i] : i \in 1 .. Len(Items(p))}

NoPointer == [block |-> 0, room |-> 0, from |-> 0, size |-> 0]
NoStorage(p) ==
  [dpy |-> 0, block |-> 0, allocated |-> 0, nfilled |-> 0, at |-> [f \in Item(p) |-> NoPointer]]

Error == {"none", "local", "remote", "write"}
Display == {1, 2}
Reasons == {"no", "lost", "refused", "stale", "display", "memory"}
Nothing == [p |-> "egl", error |-> "none", of |-> "none"]

(***************************************************************************)
(* What a cache remembers of a string: the block it was copied into, the   *)
(* room there was in it, its place and its size.                           *)
(***************************************************************************)
Pointer == [block : Nat, room : Nat, from : Nat, size : {0, 1, LongSize}]

TypeOK ==
  /\ own \in [Protocol -> Error] /\ server \in [Protocol -> {"none", "remote"}]
  /\ success \in BOOLEAN /\ connected \in BOOLEAN /\ client_ext \in BOOLEAN
  /\ \A p \in Protocol :
       /\ strings[p] \in [dpy : Display \cup {0}, block : Nat, allocated : Nat, nfilled : Nat,
                          at : [Item(p) -> Pointer]]
       /\ strings[p].nfilled <= strings[p].allocated
  /\ last \in [Protocol -> Error \cup {"unexplained"}]
  /\ reported \in [p : Protocol, error : Error, of : Error \cup {"unexplained"}]
  /\ ended \in Reasons

Init ==
  /\ own = [p \in Protocol |-> "none"] /\ server = [p \in Protocol |-> "none"]
  /\ success \in BOOLEAN          \* tmp_buf is malloc'ed
  /\ connected = TRUE
  /\ strings = [p \in Protocol |-> NoStorage(p)] /\ client_ext = FALSE
  /\ last = [p \in Protocol |-> "none"] /\ reported = Nothing
  /\ ended = "no"

Put(f, p, x) == [f EXCEPT ![p] = x]
Result(p, e) == last' = Put(last, p, e) /\ reported' = Nothing
Ends(why) ==
  /\ ended' = why
  /\ UNCHANGED <<own, server, success, connected, strings, client_ext, last, reported>>

-----------------------------------------------------------------------------
(* Calls and their errors.                                                 *)

(***************************************************************************)
(* An error of the server's libraries: GL keeps the first one until it is  *)
(* asked for, EGL has that of the last call.                               *)
(***************************************************************************)
ServerError(p, e) == IF p = "gles" /\ server[p] # "none" THEN server[p] ELSE e

ForwardNoReset(p, uses_tmp_buf, e) == \* mutant: send_packet does not reset the own error
  /\ connected
  /\ server' = Put(server, p, ServerError(p, e))
  /\ success' \in IF uses_tmp_buf THEN BOOLEAN ELSE {success}
  /\ Result(p, e)
  /\ UNCHANGED <<own, connected, strings, client_ext, ended>>

(***************************************************************************)
(* send_packet resets the protocol's own error.  A call that sends data,   *)
(* or has a reply, leaves any word in the server's tmp_buf where           *)
(* eglQueryString has "success".                                           *)
(***************************************************************************)
Forward(p, uses_tmp_buf, e) ==
  /\ connected
  /\ own' = Put(own, p, "none")
  /\ server' = Put(server, p, ServerError(p, e))
  /\ success' \in IF uses_tmp_buf THEN BOOLEAN ELSE {success}
  /\ Result(p, e)
  /\ UNCHANGED <<connected, strings, client_ext, ended>>

(***************************************************************************)
(* The write fails: an error of the protocol's own if nothing is waited    *)
(* for, the end of the program if there is.  gls_cmd_send_data always      *)
(* leaves an EGL error.                                                    *)
(***************************************************************************)
ForwardFails(p, replies, data) ==
  /\ ~connected
  /\ ~replies
  /\ own' = [q \in Protocol |-> IF q = p \/ (data /\ q = "egl") THEN "write" ELSE own[q]]
  /\ Result(p, "write")
  /\ UNCHANGED <<server, success, connected, strings, client_ext, ended>>

WaitFails ==
  /\ ~connected
  /\ Ends("lost")

(***************************************************************************)
(* A call that the library refuses by itself: a name too long, pixmap      *)
(* surfaces, an index type, a window unknown to X, a string of no display. *)
(***************************************************************************)
Refuse(p) ==
  /\ own' = Put(own, p, "local")
  /\ Result(p, "local")
  /\ UNCHANGED <<server, success, connected, strings, client_ext, ended>>

(***************************************************************************)
(* glGetProgramInfoLog, glGetShaderInfoLog: refused when the reply is in.  *)
(***************************************************************************)
RefuseReply ==
  /\ connected
  /\ own' = Put(own, "gles", "local")
  /\ success' \in BOOLEAN
  /\ Result("gles", "local")
  /\ UNCHANGED <<server, connected, strings, client_ext, ended>>

(***************************************************************************)
(* A payload larger than the buffer: the call is dropped with a message in *)
(* the log, and no error is left.                                          *)
(***************************************************************************)
DropCall(p) ==
  /\ Result(p, "none")
  /\ UNCHANGED <<own, server, success, connected, strings, client_ext, ended>>

Report(p, e) ==
  /\ reported' = [p |-> p, error |-> e, of |-> last[p]]
  /\ last' = Put(last, p, "none")

(***************************************************************************)
(* eglGetError, glGetError.  The own error is not reset.                   *)
(***************************************************************************)
GetOwnError(p) ==
  /\ own[p] # "none"
  /\ Report(p, own[p])
  /\ UNCHANGED <<own, server, success, connected, strings, client_ext, ended>>

GetServerError(p) ==
  /\ own[p] = "none"
  /\ connected
  /\ Report(p, server[p])
  /\ server' = Put(server, p, "none")
  /\ success' \in BOOLEAN
  /\ UNCHANGED <<own, connected, strings, client_ext, ended>>

LoseConnection ==
  /\ connected
  /\ connected' = FALSE
  /\ reported' = Nothing
  /\ UNCHANGED <<own, server, success, strings, client_ext, last, ended>>

-----------------------------------------------------------------------------
(* The strings.                                                            *)

(***************************************************************************)
(* allocated is doubled until the string fits; each time realloc may leave *)
(* the block where it is, or move it.                                      *)
(***************************************************************************)
Grown(allocated, needed) ==
  LET doubled[k \in 0 .. needed] == IF k = 0 THEN allocated ELSE 2 * doubled[k - 1]
      fits == {k \in 0 .. needed : doubled[k] >= needed}
  IN  doubled[CHOOSE k \in fits : \A j \in fits : k <= j]

RegisterInPlace(s, f, size, moves) == \* mutant: nfilled is not advanced
  LET allocated == Grown(s.allocated, s.nfilled + size)
      block == IF allocated # s.allocated /\ moves THEN s.block + 1 ELSE s.block
  IN  [s EXCEPT !.allocated = allocated, !.block = block,
                !.at[f] = [block |-> block, room |-> allocated,
                            from |-> s.nfilled, size |-> size]]

RegisterUngrown(s, f, size, moves) == \* mutant: the storage is not grown
  [s EXCEPT !.nfilled = @ + size,
            !.at[f] = [block |-> s.block, room |-> s.allocated,
                       from |-> s.nfilled, size |-> size]]

Register(s, f, size, moves) ==
  LET allocated == Grown(s.allocated, s.nfilled + size)
      block == IF allocated # s.allocated /\ moves THEN s.block + 1 ELSE s.block
  IN  [s EXCEPT !.allocated = allocated, !.block = block, !.nfilled = @ + size,
                !.at[f] = [block |-> block, room |-> allocated,
                            from |-> s.nfilled, size |-> size]]

(***************************************************************************)
(* All items are registered during the first query, dpy being its display. *)
(***************************************************************************)
Populated(p, dpy, long, moves) ==
  LET empty == [NoStorage(p) EXCEPT !.dpy = dpy, !.block = 1, !.allocated = InitialSize]
      items == Items(p)
      after[i \in 0 .. Len(items)] ==
        IF i = 0 THEN empty
        ELSE Register(after[i - 1], items[i], IF items[i] \in long THEN LongSize ELSE 1, moves)
  IN  after[Len(items)]

(***************************************************************************)
(* The server's answers as they come, given which names its EGL or GL      *)
(* knows: for the extensions EGL's handler leaves "success" as it is.      *)
(***************************************************************************)
Successes(p, known) ==
  LET items == Items(p)
      word[i \in 0 .. Len(items)] ==
        IF i = 0 THEN success
        ELSE IF p = "egl" /\ items[i] = "EXTENSIONS" THEN word[i - 1]
        ELSE (p = "egl" /\ items[i] # "VENDOR") \/ items[i] \in known
  IN  [i \in 1 .. Len(items) |-> word[i]]

AllSucceed(p, known) == \A i \in 1 .. Len(Items(p)) : Successes(p, known)[i]

Populate(p, dpy) ==
  /\ strings[p].block = 0
  /\ connected
  /\ \E long \in SUBSET (MayBeLong \cap Item(p)), moves \in BOOLEAN :
       /\ Cardinality(long) <= MaxLong
       /\ strings' = Put(strings, p, Populated(p, dpy, long, moves))
  /\ AllSucceed(p, Item(p))
  /\ server' = Put(server, p, ServerError(p, "none"))
  /\ success' = TRUE

(***************************************************************************)
(* A string that cannot be had ends the program.                           *)
(***************************************************************************)
PopulateFails(p) ==
  /\ strings[p].block = 0
  /\ \/ ~connected /\ Ends("lost")
     \/ /\ connected
        /\ \E f \in Item(p) : ~AllSucceed(p, Item(p) \ {f})
        /\ Ends("refused")
     \/ /\ connected
        /\ ~AllSucceed(p, Item(p))
        /\ Ends("stale")
     \/ Ends("memory")

Cached(p) == strings[p].block # 0 /\ UNCHANGED <<strings, server, success>>

(***************************************************************************)
(* eglQueryString with a display, glGetString (whose display is 1).        *)
(***************************************************************************)
QueryString(p, dpy) ==
  /\ p = "gles" => dpy = 1
  /\ Cached(p) \/ Populate(p, dpy)
  /\ strings'[p].dpy = dpy
  /\ own' = Put(own, p, "none")
  /\ Result(p, "none")
  /\ UNCHANGED <<connected, client_ext, ended>>

QueryUnknown(p, dpy) ==
  /\ p = "gles" => dpy = 1
  /\ Cached(p) \/ Populate(p, dpy)
  /\ strings'[p].dpy = dpy
  /\ own' = Put(own, p, "local")
  /\ Result(p, "local")
  /\ UNCHANGED <<connected, client_ext, ended>>

SecondDisplay(dpy) ==
  /\ strings["egl"].block # 0
  /\ strings["egl"].dpy # dpy
  /\ Ends("display")

(***************************************************************************)
(* eglQueryString(EGL_NO_DISPLAY, EGL_EXTENSIONS): NULL when "success"     *)
(* happens to be 0, without an error to explain it.                        *)
(***************************************************************************)
QueryClientExtensions ==
  /\ client_ext \/ connected
  /\ own' = Put(own, "egl", "none")
  /\ client_ext' = (client_ext \/ success)
  /\ server' = IF client_ext THEN server ELSE Put(server, "egl", "none")
  /\ Result("egl", IF client_ext \/ success THEN "none" ELSE "unexplained")
  /\ UNCHANGED <<success, connected, strings, ended>>

Call ==
  \/ \E p \in Protocol, uses_tmp_buf \in BOOLEAN, e \in {"none", "remote"} :
       (p = "egl" => uses_tmp_buf) /\ Forward(p, uses_tmp_buf, e)
  \/ \E p \in Protocol, replies, data \in BOOLEAN :
       (p = "egl" => replies) /\ ForwardFails(p, replies, data)
  \/ WaitFails
  \/ \E p \in Protocol : Refuse(p)
  \/ RefuseReply
  \/ \E p \in Protocol : DropCall(p)
  \/ \E p \in Protocol : GetOwnError(p)
  \/ \E p \in Protocol : GetServerError(p)
  \/ \E p \in Protocol, dpy \in Display : QueryString(p, dpy)
  \/ \E p \in Protocol, dpy \in Display : QueryUnknown(p, dpy)
  \/ \E p \in Protocol : PopulateFails(p)
  \/ \E dpy \in Display : SecondDisplay(dpy)
  \/ QueryClientExtensions

Next ==
  \/ ended = "no" /\ Call
  \/ ended = "no" /\ LoseConnection
  \/ ended # "no" /\ UNCHANGED vars

Spec == Init /\ [][Next]_vars

-----------------------------------------------------------------------------
(* Properties.                                                             *)

(***************************************************************************)
(* The failure of a call is not hidden by an earlier one or by the cache:  *)
(* a GetError right after it reports an error, and with EGL that of this   *)
(* very call ("gets reset by send_packet to avoid hiding later errors",    *)
(* doc/INTERNALS.md); once writes fail, GL calls leave EGL errors.  The    *)
(* client extensions' stale word is an exception.                          *)
(***************************************************************************)
LastErrorReported ==
  reported.of \notin {"none", "unexplained"} =>
    /\ reported.error # "none"
    /\ reported.p = "egl" /\ connected => reported.error = reported.of

(***************************************************************************)
(* Each string of a cache was copied within the block that its pointer     *)
(* points into, and behind the strings before it, however the sizes fall   *)
(* on the boundaries of the storage.  Whether that block is still the      *)
(* cache's is another question: see StringsStatic.                         *)
(***************************************************************************)
Apart(a, b) == a.from + a.size <= b.from \/ b.from + b.size <= a.from

CopiesIntact ==
  \A p \in Protocol : strings[p].block # 0 =>
    \A f, g \in Item(p) :
      /\ strings[p].at[f].from + strings[p].at[f].size <= strings[p].at[f].room
      /\ f # g => Apart(strings[p].at[f], strings[p].at[g])

(***************************************************************************)
(* The handler of eglQueryString(EGL_EXTENSIONS) does not set "success".   *)
(* The library, for which a failure is the end of the program, asks for    *)
(* the extensions only after a string whose reply has set it.              *)
(***************************************************************************)
NotEndedByStaleWord == ended # "stale"

(***************************************************************************)
(* "Since the returned strings have to be static, we cannot even afford a  *)
(* realloc() call after a single API call" (doc/INTERNALS.md): what a      *)
(* cache returns lies in its storage, not in a block that was there before *)
(* realloc moved it.                                                       *)
(***************************************************************************)
StringsStatic ==
  \A p \in Protocol, f \in Item("egl") \cup Item("gles") :
    strings[p].block # 0 /\ f \in Item(p) => strings[p].at[f].block = strings[p].block
=============================================================================
