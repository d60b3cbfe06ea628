---------------------------- MODULE VertexArrays ----------------------------
(***************************************************************************)
(* Vertex arrays and buffer objects as an application of OpenGL ES 2 knows *)
(* them, with a GL in its own process: an attribute is fetched from a      *)
(* buffer object or straight from the application's memory, as it is when  *)
(* the drawing is asked for.                                               *)
(*                                                                         *)
(* Module ClientArrays implements this one with a GL in another process.   *)
(***************************************************************************)
EXTENDS Naturals

CONSTANTS NAttribs,     \* vertex attributes, 0 .. NAttribs - 1
          Names,        \* names of buffer objects, without 0
          MaxLen,       \* vertices in a buffer of the application
          MaxVersion    \* bound on how often the application writes its memory

VARIABLES owned,      \* the names the application has generated
          contents,   \* of each buffer object
          bound,      \* the buffer bound to each target
          enabled,    \* of each attribute
          source,     \* of each attribute: InBuffer(n), InArray(i), Nowhere
          version,    \* of what the memory of the application holds now
          drawn       \* what the last call, if a drawing, fetched

vars == <<owned, contents, bound, enabled, source, version, drawn>>

Attrib == 0 .. NAttribs - 1
Target == {"array", "element"}
VertexCount == 1 .. MaxLen
InBuffer(n) == <<"buffer", n>>
InArray(i) == <<"array", i>>      \* where the application has the vertices of i
Nowhere == <<"none", 0>>
Unused == <<Nowhere, 0>>          \* nothing was fetched
Empty == [of |-> Nowhere, version |-> 0, len |-> 0]
NothingDrawn == [vertices |-> [i \in Attrib |-> Unused], indices |-> Unused]

Init ==
  /\ owned = {}
  /\ contents = [n \in Names |-> Empty]
  /\ bound = [t \in Target |-> 0]
  /\ enabled = [i \in Attrib |-> FALSE]
  /\ source = [i \in Attrib |-> Nowhere]
  /\ version = 0
  /\ drawn = NothingDrawn

GenBuffer ==
  /\ \E n \in Names \ owned :
       /\ owned' = owned \cup {n}
       /\ contents' = [contents EXCEPT ![n] = Empty]
  /\ drawn' = NothingDrawn
  /\ UNCHANGED <<bound, enabled, source, version>>

BindBuffer(t, n) ==
  /\ n \in owned \cup {0}
  /\ bound' = [bound EXCEPT ![t] = n]
  /\ drawn' = NothingDrawn
  /\ UNCHANGED <<owned, contents, enabled, source, version>>

(***************************************************************************)
(* The application has one array of vertices and indices for its buffers.  *)
(***************************************************************************)
BufferData(t) ==
  /\ bound[t] # 0
  /\ contents' = [contents EXCEPT ![bound[t]] = 
                    [of |-> InBuffer(0), version |-> version, len |-> MaxLen]]
  /\ drawn' = NothingDrawn
  /\ UNCHANGED <<owned, bound, enabled, source, version>>

(***************************************************************************)
(* Whatever used the buffer uses none any more.                            *)
(***************************************************************************)
DeleteBuffer(n) ==
  /\ n \in owned
  /\ owned' = owned \ {n}
  /\ contents' = [contents EXCEPT ![n] = Empty]
  /\ bound' = [t \in Target |-> IF bound[t] = n THEN 0 ELSE bound[t]]
  /\ source' = [i \in Attrib |-> IF source[i] = InBuffer(n) THEN Nowhere ELSE source[i]]
  /\ drawn' = NothingDrawn
  /\ UNCHANGED <<enabled, version>>

SetEnabled(i, on) ==
  /\ enabled' = [enabled EXCEPT ![i] = on]
  /\ drawn' = NothingDrawn
  /\ UNCHANGED <<owned, contents, bound, source, version>>

(***************************************************************************)
(* With a buffer bound the pointer is an offset into it.                   *)
(***************************************************************************)
VertexAttribPointer(i) ==
  /\ source' = [source EXCEPT ![i] =
                  IF bound["array"] # 0 THEN InBuffer(bound["array"]) ELSE InArray(i)]
  /\ drawn' = NothingDrawn
  /\ UNCHANGED <<owned, contents, bound, enabled, version>>

WriteMemory ==
  /\ version < MaxVersion
  /\ version' = version + 1
  /\ drawn' = NothingDrawn
  /\ UNCHANGED <<owned, contents, bound, enabled, source>>

UsesBuffer(i) == source[i][1] = "buffer"
Contents(n) == <<contents[n].of, contents[n].version>>

Fetched(i) ==
  IF ~enabled[i] THEN Unused
  ELSE IF UsesBuffer(i) THEN Contents(source[i][2]) ELSE <<source[i], version>>

(***************************************************************************)
(* A correct application draws what it has: every enabled attribute has a  *)
(* source, and a buffer as many vertices as are drawn.                     *)
(***************************************************************************)
MayDraw(vertices) ==
  \A i \in Attrib :
    enabled[i] => /\ source[i] # Nowhere
                  /\ UsesBuffer(i) => contents[source[i][2]].len >= vertices

DrawArrays(first, count) ==
  /\ MayDraw(first + count)
  /\ drawn' = [vertices |-> [i \in Attrib |-> Fetched(i)], indices |-> Unused]
  /\ UNCHANGED <<owned, contents, bound, enabled, source, version>>

DrawElements(vertices) ==
  /\ MayDraw(vertices)
  /\ bound["element"] # 0 /\ contents[bound["element"]].len > 0
  /\ drawn' = [vertices |-> [i \in Attrib |-> Fetched(i)],
               indices |-> Contents(bound["element"])]
  /\ UNCHANGED <<owned, contents, bound, enabled, source, version>>

Next ==
  \/ GenBuffer
  \/ \E n \in Names : DeleteBuffer(n)
  \/ \E t \in Target, n \in Names \cup {0} : BindBuffer(t, n)
  \/ \E t \in Target : BufferData(t)
  \/ \E i \in Attrib, on \in BOOLEAN : SetEnabled(i, on)
  \/ \E i \in Attrib : VertexAttribPointer(i)
  \/ WriteMemory
  \/ \E first \in 0 .. MaxLen, count \in VertexCount : DrawArrays(first, count)
  \/ \E vertices \in VertexCount : DrawElements(vertices)

Spec == Init /\ [][Next]_vars
=============================================================================
