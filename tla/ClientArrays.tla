---------------------------- MODULE ClientArrays ----------------------------
(***************************************************************************)
(* How the client library draws from arrays in the application's memory,   *)
(* which the server's GL cannot read (gl_client/clientgles.c): it keeps a  *)
(* mirror of the bindings, holds back the pointers to client memory until  *)
(* a drawing tells how much of it is needed, uploads that much into a      *)
(* buffer object of its own, and puts the application's binding back.      *)
(*                                                                         *)
(* The commands a call sends are executed by the server in order and none  *)
(* is answered but glGenBuffers, so each is applied to the server's GL at  *)
(* once (module Dispatch).  One context is current all the time: the       *)
(* mirror belongs to the process, not to a context.                        *)
(***************************************************************************)
EXTENDS Naturals, FiniteSets

CONSTANTS NAttribs,     \* vertex attributes used, at most ATTRIBPOINTER_ARRAY_SIZE
          NNames,       \* names the GL has for buffers
          MaxOwned,     \* bound on the buffers of the application
          MaxLen,       \* vertices in a buffer of the application
          MaxVersion    \* bound on how often the application writes its memory

ASSUME ClientArraysAssumption ==
  /\ NAttribs \in 1 .. 16 /\ NNames \in Nat /\ MaxOwned \in Nat
  /\ NNames >= MaxOwned + NAttribs
  /\ MaxLen \in Nat /\ MaxVersion \in Nat

VARIABLES lib,       \* buffer_objs, the client's mirror
          gl,        \* the GL of the server
          owned,     \* buffers generated for the application
          asked,     \* history: what the application has bound, enabled, pointed to
          version,   \* of what the memory of the application holds now
          drawn,     \* what the server fetched, if the last call was a drawing
          aborted    \* an assertion of the client has failed

vars == <<lib, gl, owned, asked, version, drawn, aborted>>

Attrib == 0 .. NAttribs - 1
Name == 1 .. NNames
Target == {"array", "element"}
VertexCount == 1 .. MaxLen
(***************************************************************************)
(* The memory of the application: an array for the vertices of each        *)
(* attribute, and one that it puts into buffers.                           *)
(***************************************************************************)
Null == <<"none", 0>>
Unused == <<Null, 0>>           \* nothing was fetched
Beyond == <<<<"beyond", 0>>, 0>>  \* outside the buffer, or no buffer at all
NothingDrawn == [vertices |-> [i \in Attrib |-> Unused], indices |-> Unused]
ArrayOf(i) == <<"array", i>>
ForBuffers == <<"buffer", 0>>
InBuffer(n) == <<"buffer", n>>
Memory == {ArrayOf(i) : i \in Attrib} \cup {ForBuffers, Null}

Copy(m, len) == [of |-> m, version |-> version, len |-> len]
Nothing == [of |-> Null, version |-> 0, len |-> 0]
Content == [of : Memory, version : 0 .. MaxVersion, len : 0 .. MaxLen]
Fetch == (Memory \X (0 .. MaxVersion)) \cup {Unused, Beyond}

TypeOK ==
  /\ lib \in [vbo : Name \cup {0}, ibo : Name \cup {0},
              attrib_pointer : [Attrib -> [isenabled : BOOLEAN,
                                           ptr : Memory,
                                           vbo_id : Name \cup {0},
                                           emul_vbo_id : Name \cup {0}]]]
  /\ gl \in [bound : [Target -> Name \cup {0}], used : SUBSET Name,
             contents : [Name -> Content],
             attrib : [Attrib -> [enabled : BOOLEAN, buffer : Name \cup {0}]]]
  /\ owned \subseteq Name
  /\ asked \in [bound : [Target -> Name \cup {0}], enabled : [Attrib -> BOOLEAN],
               source : [Attrib -> Memory \cup {InBuffer(n) : n \in Name}]]
  /\ version \in 0 .. MaxVersion
  /\ drawn \in [vertices : [Attrib -> Fetch], indices : Fetch]
  /\ aborted \in BOOLEAN

Init ==
  /\ lib = [vbo |-> 0, ibo |-> 0,
            attrib_pointer |-> [i \in Attrib |-> [isenabled |-> FALSE, ptr |-> Null,
                                                  vbo_id |-> 0, emul_vbo_id |-> 0]]]
  /\ gl = [bound |-> [t \in Target |-> 0], used |-> {},
           contents |-> [n \in Name |-> Nothing],
           attrib |-> [i \in Attrib |-> [enabled |-> FALSE, buffer |-> 0]]]
  /\ owned = {}
  /\ asked = [bound |-> [t \in Target |-> 0], enabled |-> [i \in Attrib |-> FALSE],
              source |-> [i \in Attrib |-> Null]]
  /\ version = 0
  /\ drawn = NothingDrawn
  /\ aborted = FALSE

-----------------------------------------------------------------------------
(* The GL of the server: what each command does to it.                     *)

FreeName(g) == CHOOSE n \in Name \ g.used : \A m \in Name \ g.used : n <= m
GlGenBuffer(g) == [g EXCEPT !.used = @ \cup {FreeName(g)}]
GlBindBuffer(g, t, n) == [g EXCEPT !.bound[t] = n]
GlBufferData(g, t, c) ==
  IF g.bound[t] = 0 THEN g ELSE [g EXCEPT !.contents[g.bound[t]] = c]
GlVertexAttribPointer(g, i) == [g EXCEPT !.attrib[i].buffer = g.bound["array"]]
GlDeleteBuffer(g, n) ==
  [used |-> g.used \ {n},
   contents |-> [g.contents EXCEPT ![n] = Nothing],
   bound |-> [t \in Target |-> IF g.bound[t] = n THEN 0 ELSE g.bound[t]],
   attrib |-> [i \in Attrib |-> IF g.attrib[i].buffer = n
                                THEN [g.attrib[i] EXCEPT !.buffer = 0] ELSE g.attrib[i]]]

GlFetch(g, n, len) ==
  IF n = 0 \/ g.contents[n].len < len THEN Beyond
  ELSE <<g.contents[n].of, g.contents[n].version>>

GlFetchVertices(g, len) ==
  [i \in Attrib |-> IF g.attrib[i].enabled THEN GlFetch(g, g.attrib[i].buffer, len) ELSE Unused]

-----------------------------------------------------------------------------
(* The library.  State of both sides: [lib, gl].                           *)

Now == [lib |-> lib, gl |-> gl]
Becomes(w) == lib' = w.lib /\ gl' = w.gl

(***************************************************************************)
(* glBindBuffer, called by the application and by the emulation.           *)
(***************************************************************************)
Bind(w, t, n) ==
  [lib |-> IF t = "array" THEN [w.lib EXCEPT !.vbo = n] ELSE [w.lib EXCEPT !.ibo = n],
   gl |-> GlBindBuffer(w.gl, t, n)]

WithEmulationBuffer(w, i) ==
  IF w.lib.attrib_pointer[i].emul_vbo_id # 0 THEN w
  ELSE [lib |-> [w.lib EXCEPT !.attrib_pointer[i].emul_vbo_id = FreeName(w.gl)],
        gl |-> GlGenBuffer(w.gl)]

HeldBack(w, i) ==
  w.lib.attrib_pointer[i].isenabled /\ w.lib.attrib_pointer[i].vbo_id = 0

(***************************************************************************)
(* defered_vertex_attrib_pointer: upload as much of the array as the       *)
(* drawing needs, now that it is known, and only then send the pointer.    *)
(***************************************************************************)
Upload(w, i, len) ==
  IF ~HeldBack(w, i) THEN w
  ELSE LET v == WithEmulationBuffer(w, i)
           a == v.lib.attrib_pointer[i]
           b == Bind(v, "array", a.emul_vbo_id)
       IN  [b EXCEPT !.gl = GlVertexAttribPointer(
                              GlBufferData(@, "array", Copy(a.ptr, len)), i)]

UploadAll(w, len) ==
  LET after[i \in 0 .. NAttribs] == IF i = 0 THEN w ELSE Upload(after[i - 1], i - 1, len)
  IN  after[NAttribs]

(***************************************************************************)
(* The application's array buffer is bound again if an upload replaced it. *)
(***************************************************************************)
RestoreVbo(w) == IF w.lib.vbo # lib.vbo THEN Bind(w, "array", lib.vbo) ELSE w

-----------------------------------------------------------------------------
(* The calls of the application.                                           *)

GenBuffers ==
  /\ Cardinality(owned) < MaxOwned
  /\ owned' = owned \cup {FreeName(gl)}
  /\ gl' = GlGenBuffer(gl)
  /\ drawn' = NothingDrawn
  /\ UNCHANGED <<asked, lib, version, aborted>>

BindBuffer(t, n) ==
  /\ n \in owned \cup {0}
  /\ Becomes(Bind(Now, t, n))
  /\ asked' = [asked EXCEPT !.bound[t] = n]
  /\ drawn' = NothingDrawn
  /\ UNCHANGED <<owned, version, aborted>>

BufferData(t) ==
  /\ gl.bound[t] # 0
  /\ gl' = GlBufferData(gl, t, Copy(ForBuffers, MaxLen))
  /\ drawn' = NothingDrawn
  /\ UNCHANGED <<asked, lib, owned, version, aborted>>

Forgotten(n) ==
  [asked EXCEPT !.bound = [t \in Target |-> IF @[t] = n THEN 0 ELSE @[t]],
                !.source = [i \in Attrib |-> IF @[i] = InBuffer(n) THEN Null ELSE @[i]]]

DeleteBuffersUnseen(n) == \* mutant: the mirror keeps the binding of a deleted buffer
  /\ n \in owned
  /\ owned' = owned \ {n}
  /\ gl' = GlDeleteBuffer(gl, n)
  /\ asked' = Forgotten(n)
  /\ drawn' = NothingDrawn
  /\ UNCHANGED <<lib, version, aborted>>

(***************************************************************************)
(* The mirror forgets bindings of the buffer, but not that an attribute    *)
(* came from it (vbo_id).                                                  *)
(***************************************************************************)
DeleteBuffers(n) ==
  /\ n \in owned
  /\ owned' = owned \ {n}
  /\ lib' = [lib EXCEPT !.vbo = IF @ = n THEN 0 ELSE @, !.ibo = IF @ = n THEN 0 ELSE @]
  /\ gl' = GlDeleteBuffer(gl, n)
  /\ asked' = Forgotten(n)
  /\ drawn' = NothingDrawn
  /\ UNCHANGED <<version, aborted>>

(***************************************************************************)
(* glEnableVertexAttribArray, glDisableVertexAttribArray.                  *)
(***************************************************************************)
SetEnabled(i, on) ==
  /\ lib' = [lib EXCEPT !.attrib_pointer[i].isenabled = on]
  /\ gl' = [gl EXCEPT !.attrib[i].enabled = on]
  /\ asked' = [asked EXCEPT !.enabled[i] = on]
  /\ drawn' = NothingDrawn
  /\ UNCHANGED <<owned, version, aborted>>

(***************************************************************************)
(* A pointer is an offset when a buffer is bound, of all that were asked   *)
(* for the last one counts.                                                *)
(***************************************************************************)
AskedPointer(i) ==
  [asked EXCEPT !.source[i] =
     IF asked.bound["array"] = 0 THEN ArrayOf(i) ELSE InBuffer(asked.bound["array"])]

(***************************************************************************)
(* With a buffer bound the pointer is sent now; else it is kept, and       *)
(* vbo_id is what says so.                                                 *)
(***************************************************************************)
PointIntoBuffer(i) ==
  /\ lib.vbo # 0
  /\ gl' = GlVertexAttribPointer(gl, i)
  /\ lib' = [lib EXCEPT !.attrib_pointer[i].vbo_id = lib.vbo]
  /\ asked' = AskedPointer(i)
  /\ drawn' = NothingDrawn
  /\ UNCHANGED <<owned, version, aborted>>

PointIntoArrayOnce(i) == \* mutant: vbo_id is not reset
  /\ lib.vbo = 0
  /\ lib' = [lib EXCEPT !.attrib_pointer[i].ptr = ArrayOf(i)]
  /\ asked' = AskedPointer(i)
  /\ drawn' = NothingDrawn
  /\ UNCHANGED <<gl, owned, version, aborted>>

PointIntoArray(i) ==
  /\ lib.vbo = 0
  /\ lib' = [lib EXCEPT !.attrib_pointer[i].ptr = ArrayOf(i), !.attrib_pointer[i].vbo_id = 0]
  /\ asked' = AskedPointer(i)
  /\ drawn' = NothingDrawn
  /\ UNCHANGED <<gl, owned, version, aborted>>

(***************************************************************************)
(* The application writes to its own memory, unseen.                       *)
(***************************************************************************)
WriteMemory ==
  /\ version < MaxVersion
  /\ version' = version + 1
  /\ drawn' = NothingDrawn
  /\ UNCHANGED <<asked, lib, gl, owned, aborted>>

(***************************************************************************)
(* What an application may ask for: each enabled attribute has been given  *)
(* an array, or a buffer with enough vertices that was not deleted since.  *)
(***************************************************************************)
MayDraw(len) ==
  \A i \in Attrib :
    asked.enabled[i] => /\ asked.source[i] # Null
                        /\ asked.source[i] # ArrayOf(i) =>
                             gl.contents[asked.source[i][2]].len >= len

Drawing(w, len, indices) ==
  drawn' = [vertices |-> GlFetchVertices(w.gl, len), indices |-> indices]

DrawArraysOneMore(first, count) == \* mutant: takes the last vertex for a count
  /\ MayDraw(first + count)
  /\ LET w == RestoreVbo(UploadAll(Now, first + count + 1))
     IN  Becomes(w) /\ Drawing(w, first + count, Unused)
  /\ UNCHANGED <<asked, owned, version, aborted>>

DrawArrays(first, count) ==
  /\ MayDraw(first + count)
  /\ LET w == RestoreVbo(UploadAll(Now, first + count))
     IN  Becomes(w) /\ Drawing(w, first + count, Unused)
  /\ UNCHANGED <<asked, owned, version, aborted>>

(***************************************************************************)
(* glDrawElements with an index buffer.  max_idx stays -1 then, so nothing *)
(* of an array would be uploaded: not implemented, and said so by a        *)
(* warning.  The application draws from buffers only.                      *)
(***************************************************************************)
DrawElements(len) ==
  /\ lib.ibo # 0
  /\ MayDraw(len)
  /\ \A i \in Attrib : ~HeldBack(Now, i)
  /\ gl.contents[gl.bound["element"]].len > 0
  /\ LET w == RestoreVbo(UploadAll(Now, 0))
     IN  /\ Becomes(w)
         /\ Drawing(w, len, GlFetch(w.gl, w.gl.bound["element"], 1))
  /\ UNCHANGED <<asked, owned, version, aborted>>

(***************************************************************************)
(* glDrawElements with indices in the application's memory: the emulation  *)
(* has bound its own index buffer when it tests for one of the             *)
(* application's, takes the pointer for an offset, and asserts that it     *)
(* fits 32 bits.  What it has sent before ends with the session.  Only     *)
(* addresses above 4 GB, those of a position-independent program, are      *)
(* modelled: a lower one passes the assertion, is sent as an offset into   *)
(* the emulation's buffer, and garbage is drawn before the index binding   *)
(* is restored.  Left out too is the scan for the largest index, which     *)
(* reads bytes whatever the type: what is uploaded by it is never drawn.   *)
(***************************************************************************)
DrawElementsFromArray ==
  /\ lib.ibo = 0
  /\ MayDraw(1)
  /\ aborted' = TRUE
  /\ drawn' = NothingDrawn
  /\ UNCHANGED <<asked, lib, gl, owned, version>>

Call ==
  \/ GenBuffers
  \/ \E n \in Name : DeleteBuffers(n)
  \/ \E t \in Target, n \in Name \cup {0} : BindBuffer(t, n)
  \/ \E t \in Target : BufferData(t)
  \/ \E i \in Attrib, on \in BOOLEAN : SetEnabled(i, on)
  \/ \E i \in Attrib : PointIntoBuffer(i)
  \/ \E i \in Attrib : PointIntoArray(i)
  \/ WriteMemory
  \/ \E first \in 0 .. MaxLen, count \in VertexCount : first + count <= MaxLen /\ DrawArrays(first, count)
  \/ \E len \in VertexCount : DrawElements(len)
  \/ DrawElementsFromArray

Next ==
  \/ ~aborted /\ Call
  \/ aborted /\ UNCHANGED vars

Spec == Init /\ [][Next]_vars

-----------------------------------------------------------------------------
(* Properties.                                                             *)

(***************************************************************************)
(* Between two calls the mirror and the server's GL agree with each other  *)
(* and with what the application asked for, although nothing is ever read  *)
(* back; the emulation's buffers are neither bound nor known to it.        *)
(***************************************************************************)
MirrorAgrees ==
  /\ lib.vbo = gl.bound["array"] /\ lib.ibo = gl.bound["element"]
  /\ gl.bound = asked.bound
  /\ \A i \in Attrib :
       LET a == lib.attrib_pointer[i]
       IN  /\ a.isenabled = asked.enabled[i] /\ gl.attrib[i].enabled = asked.enabled[i]
           /\ a.emul_vbo_id # 0 => a.emul_vbo_id \in gl.used \ owned

(***************************************************************************)
(* What the server draws is what the application's own GL would have       *)
(* drawn: the vertices as they are in its memory at the time of the call,  *)
(* from the sources it chose last.  Indices in client memory only count    *)
(* as far as DrawElementsFromArray goes: no drawing comes of them if they  *)
(* lie above 4 GB, and of lower ones nothing is claimed.                   *)
(***************************************************************************)
Owned(n) == IF n \in owned THEN gl.contents[n] ELSE Nothing

Abstract ==
  INSTANCE VertexArrays WITH
    Names <- Name,
    contents <- [n \in Name |-> Owned(n)],
    bound <- asked.bound, enabled <- asked.enabled, source <- asked.source

RefinesVertexArrays == Abstract!Spec
=============================================================================
