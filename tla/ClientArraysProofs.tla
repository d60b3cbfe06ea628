------------------------- MODULE ClientArraysProofs -------------------------
(***************************************************************************)
(* Proofs about module ClientArrays, for up to 16 attributes and any       *)
(* number of names, buffers and vertices: the client's mirror agrees with  *)
(* the GL it cannot read, and what is drawn is what VertexArrays draws.    *)
(***************************************************************************)
EXTENDS ClientArrays, FiniteSetTheorems, TLAPS

-----------------------------------------------------------------------------
(* The inductive invariant.                                                *)

(***************************************************************************)
(* What the library and the GL may be, as the state [lib, gl] that the     *)
(* operators of the library work on.                                       *)
(***************************************************************************)
Attribute == [isenabled : BOOLEAN, ptr : Memory, vbo_id : Name \cup {0},
              emul_vbo_id : Name \cup {0}]
Lib == [vbo : Name \cup {0}, ibo : Name \cup {0}, attrib_pointer : [Attrib -> Attribute]]
GlAttribute == [enabled : BOOLEAN, buffer : Name \cup {0}]
Gl == [bound : [Target -> Name \cup {0}], used : SUBSET Name,
       contents : [Name -> Content], attrib : [Attrib -> GlAttribute]]
World == [lib : Lib, gl : Gl]

EmulId(w, i) == w.lib.attrib_pointer[i].emul_vbo_id
Emulating(w) == {i \in Attrib : EmulId(w, i) # 0}
EmulationBuffers(w) == {EmulId(w, i) : i \in Emulating(w)}

(***************************************************************************)
(* The names in use are the application's and the emulation's, each of the *)
(* latter for one attribute; nothing is left in one that is not in use.    *)
(***************************************************************************)
NamesOf(w, own) ==
  /\ w.gl.used = own \cup EmulationBuffers(w)
  /\ own \cap EmulationBuffers(w) = {}
  /\ \A i, j \in Emulating(w) : EmulId(w, i) = EmulId(w, j) => i = j
  /\ \A n \in Name : n \notin w.gl.used => w.gl.contents[n] = Nothing

NamesIn(w) == NamesOf(w, owned)

BoundIn(w) ==
  /\ w.lib.vbo = w.gl.bound["array"]
  /\ w.lib.ibo = w.gl.bound["element"]

OwnedBound == \A t \in Target : asked.bound[t] \in owned \cup {0}

(***************************************************************************)
(* Where the mirror and the GL have the source the application chose.      *)
(***************************************************************************)
SourceInv ==
  \A i \in Attrib :
    LET a == lib.attrib_pointer[i]
    IN  \/ asked.source[i] = Null
        \/ asked.source[i] = ArrayOf(i) /\ a.vbo_id = 0 /\ a.ptr = ArrayOf(i)
        \/ \E n \in owned : /\ asked.source[i] = InBuffer(n)
                            /\ a.vbo_id = n /\ gl.attrib[i].buffer = n

IInv ==
  /\ TypeOK /\ MirrorAgrees
  /\ Cardinality(owned) <= MaxOwned
  /\ NamesIn(Now) /\ OwnedBound /\ SourceInv

-----------------------------------------------------------------------------
(* Least elements and induction over the natural numbers.                  *)

LEMMA LeastNat ==
  ASSUME NEW T, T \subseteq Nat, T # {}
  PROVE  \E x \in T : \A y \in T : x <= y
  <1>1. PICK x \in T : \A y \in T : <<y, x>> \notin OpToRel(<, Nat)
    BY WFMin, NatLessThanWellFounded, Zenon
  <1>2. ASSUME NEW y \in T PROVE x <= y
    <2>1. x \in Nat /\ y \in Nat
      OBVIOUS
    <2>2. ~ (y < x)
      BY <1>1, <2>1 DEF OpToRel
    <2> QED
      BY <2>1, <2>2
  <1> QED
    BY <1>1, <1>2

LEMMA NatInd ==
  ASSUME NEW S, 0 \in S, \A n \in Nat : n \in S => n + 1 \in S
  PROVE  Nat \subseteq S
  <1> SUFFICES ASSUME Nat \ S # {} PROVE FALSE
    OBVIOUS
  <1>0. Nat \ S \subseteq Nat
    OBVIOUS
  <1>1. PICK x \in Nat \ S : \A y \in Nat \ S : x <= y
    BY <1>0, LeastNat, Zenon
  <1>2. x # 0 /\ x \in Nat
    OBVIOUS
  <1>3. x - 1 \in Nat
    BY <1>2
  <1>4. x - 1 \in S
    BY <1>1, <1>3
  <1>5. (x - 1) + 1 \in S
    BY <1>3, <1>4
  <1> QED
    BY <1>5, <1>2

-----------------------------------------------------------------------------
(* The names of the GL.                                                    *)

LEMMA NameNat == Name \subseteq Nat \ {0}
  BY ClientArraysAssumption DEF Name

LEMMA NameFinite == IsFiniteSet(Name) /\ Cardinality(Name) = NNames
  <1>1. 1 \in Int /\ NNames \in Int /\ NNames \in Nat
    BY ClientArraysAssumption
  <1>2. /\ IsFiniteSet(1 .. NNames)
        /\ Cardinality(1 .. NNames) = IF 1 > NNames THEN 0 ELSE NNames - 1 + 1
    BY <1>1, FS_Interval, Zenon
  <1>3. (IF 1 > NNames THEN 0 ELSE NNames - 1 + 1) = NNames
    BY <1>1
  <1> QED
    BY <1>2, <1>3 DEF Name

LEMMA AttribFinite == IsFiniteSet(Attrib) /\ Cardinality(Attrib) = NAttribs
  <1>1. 0 \in Int /\ NAttribs - 1 \in Int /\ NAttribs \in Nat /\ NAttribs >= 1
    BY ClientArraysAssumption
  <1>2. /\ IsFiniteSet(0 .. NAttribs - 1)
        /\ Cardinality(0 .. NAttribs - 1) =
             IF 0 > NAttribs - 1 THEN 0 ELSE (NAttribs - 1) - 0 + 1
    BY <1>1, FS_Interval, Zenon
  <1>3. (IF 0 > NAttribs - 1 THEN 0 ELSE (NAttribs - 1) - 0 + 1) = NAttribs
    BY <1>1
  <1> QED
    BY <1>2, <1>3 DEF Attrib

(***************************************************************************)
(* The GL of a name that is free, if there is one.                         *)
(***************************************************************************)
LEMMA FreeNameIsFree ==
  ASSUME NEW g, Name \ g.used # {}
  PROVE  FreeName(g) \in Name /\ FreeName(g) \notin g.used
  <1>1. Name \ g.used \subseteq Nat
    BY NameNat
  <1>2. \E n \in Name \ g.used : \A m \in Name \ g.used : n <= m
    BY <1>1, LeastNat, Zenon
  <1>3. FreeName(g) \in Name \ g.used
    BY <1>2, Zenon DEF FreeName
  <1> QED
    BY <1>3

(***************************************************************************)
(* The emulation has at most one buffer for each attribute it has one for. *)
(***************************************************************************)
LEMMA EmulationBuffersBounded ==
  ASSUME NEW w
  PROVE  /\ IsFiniteSet(Emulating(w)) /\ IsFiniteSet(EmulationBuffers(w))
         /\ Cardinality(EmulationBuffers(w)) <= Cardinality(Emulating(w))
         /\ Cardinality(Emulating(w)) <= NAttribs
         /\ Cardinality(Emulating(w)) = NAttribs => Emulating(w) = Attrib
         /\ Cardinality(EmulationBuffers(w)) \in Nat /\ Cardinality(Emulating(w)) \in Nat
  <1> DEFINE f == [i \in Emulating(w) |-> EmulId(w, i)]
  <1>1. Emulating(w) \in SUBSET Attrib
    BY DEF Emulating
  <1>2. /\ IsFiniteSet(Emulating(w))
        /\ Cardinality(Emulating(w)) <= Cardinality(Attrib)
        /\ Cardinality(Attrib) = Cardinality(Emulating(w)) => Attrib = Emulating(w)
    BY <1>1, AttribFinite, FS_Subset, Zenon
  <1>3. f \in Surjection(Emulating(w), EmulationBuffers(w))
    BY DEF Surjection, EmulationBuffers
  <1> HIDE DEF f
  <1>4. /\ IsFiniteSet(EmulationBuffers(w))
        /\ Cardinality(EmulationBuffers(w)) <= Cardinality(Emulating(w))
    BY <1>2, <1>3, FS_Surjection, Zenon
  <1>5. Cardinality(EmulationBuffers(w)) \in Nat /\ Cardinality(Emulating(w)) \in Nat
    BY <1>2, <1>4, FS_CardinalityType, Zenon
  <1> QED
    BY <1>2, <1>4, <1>5, AttribFinite, Zenon

(***************************************************************************)
(* The GL has a name left for the application while it has fewer buffers   *)
(* than MaxOwned, and always one for an attribute without a buffer.        *)
(***************************************************************************)
LEMMA NameIsLeft ==
  ASSUME NEW w, NamesIn(w), owned \subseteq Name, EmulationBuffers(w) \subseteq Name,
         Cardinality(owned) <= MaxOwned,
         Cardinality(owned) < MaxOwned \/ Emulating(w) # Attrib
  PROVE  Name \ w.gl.used # {}
  <1> SUFFICES ASSUME Name \subseteq w.gl.used PROVE FALSE
    OBVIOUS
  <1> DEFINE E == EmulationBuffers(w)
             Em == Emulating(w)
  <1>1. Name = owned \cup E /\ owned \cap E = {}
    BY DEF NamesIn, NamesOf
  <1>2. owned \in SUBSET Name
    OBVIOUS
  <1>3. IsFiniteSet(owned)
    BY <1>2, NameFinite, FS_Subset, Zenon
  <1>4. Cardinality(owned) \in Nat
    BY <1>3, FS_CardinalityType, Zenon
  <1>5. /\ IsFiniteSet(E)
        /\ Cardinality(E) <= Cardinality(Em) /\ Cardinality(Em) <= NAttribs
        /\ Cardinality(Em) = NAttribs => Em = Attrib
        /\ Cardinality(E) \in Nat /\ Cardinality(Em) \in Nat
    BY EmulationBuffersBounded, Zenon
  <1> HIDE DEF E, Em
  <1>6. Cardinality(owned \cup E) =
          Cardinality(owned) + Cardinality(E) - Cardinality(owned \cap E)
    BY <1>3, <1>5, FS_Union, Zenon
  <1>7. Cardinality(owned \cap E) = 0
    BY <1>1, FS_EmptySet, Zenon
  <1>8. NNames = Cardinality(owned) + Cardinality(E) - 0
    BY <1>1, <1>6, <1>7, NameFinite, Zenon
  <1>9. MaxOwned \in Nat /\ NAttribs \in Nat /\ NNames \in Nat /\ NNames >= MaxOwned + NAttribs
    BY ClientArraysAssumption
  <1>10. Cardinality(owned) = MaxOwned /\ Cardinality(Em) = NAttribs
    <2>1. \A a, b, c \in Nat : a <= MaxOwned /\ b <= c /\ c <= NAttribs /\ NNames = a + b - 0
                               => a = MaxOwned /\ c = NAttribs
      BY <1>9
    <2> QED
      BY <1>4, <1>5, <1>8, <2>1, Zenon
  <1>11. Em = Attrib
    BY <1>5, <1>10, Zenon
  <1>12. ~ (Cardinality(owned) < MaxOwned)
    BY <1>4, <1>9, <1>10
  <1> QED
    BY <1>11, <1>12, Zenon DEF Em

-----------------------------------------------------------------------------
(* What each operator of the library and the GL changes, and what it does  *)
(* not.                                                                    *)

LEMMA WorldTypes ==
  ASSUME NEW w \in World
  PROVE  /\ w.lib \in Lib /\ w.gl \in Gl
         /\ w.lib.vbo \in Name \cup {0} /\ w.lib.ibo \in Name \cup {0}
         /\ w.lib.attrib_pointer \in [Attrib -> Attribute]
         /\ w.gl.bound \in [Target -> Name \cup {0}] /\ w.gl.used \subseteq Name
         /\ w.gl.contents \in [Name -> Content] /\ w.gl.attrib \in [Attrib -> GlAttribute]
  <1>1. w.lib \in Lib /\ w.gl \in Gl
    BY DEF World
  <1>2. /\ w.lib.vbo \in Name \cup {0} /\ w.lib.ibo \in Name \cup {0}
        /\ w.lib.attrib_pointer \in [Attrib -> Attribute]
    BY <1>1 DEF Lib
  <1>3. /\ w.gl.bound \in [Target -> Name \cup {0}] /\ w.gl.used \subseteq Name
        /\ w.gl.contents \in [Name -> Content] /\ w.gl.attrib \in [Attrib -> GlAttribute]
    BY <1>1 DEF Gl
  <1> QED
    BY <1>1, <1>2, <1>3

LEMMA AttributeTypes ==
  ASSUME NEW w \in World, NEW i \in Attrib
  PROVE  /\ w.lib.attrib_pointer[i] \in Attribute
         /\ w.lib.attrib_pointer[i].isenabled \in BOOLEAN
         /\ w.lib.attrib_pointer[i].ptr \in Memory
         /\ w.lib.attrib_pointer[i].vbo_id \in Name \cup {0}
         /\ EmulId(w, i) \in Name \cup {0}
         /\ w.gl.attrib[i] \in GlAttribute
         /\ w.gl.attrib[i].enabled \in BOOLEAN
         /\ w.gl.attrib[i].buffer \in Name \cup {0}
  <1>1. w.lib.attrib_pointer[i] \in Attribute /\ w.gl.attrib[i] \in GlAttribute
    BY WorldTypes
  <1>2. /\ w.lib.attrib_pointer[i].isenabled \in BOOLEAN
        /\ w.lib.attrib_pointer[i].ptr \in Memory
        /\ w.lib.attrib_pointer[i].vbo_id \in Name \cup {0}
        /\ w.lib.attrib_pointer[i].emul_vbo_id \in Name \cup {0}
    BY <1>1 DEF Attribute
  <1>3. w.gl.attrib[i].enabled \in BOOLEAN /\ w.gl.attrib[i].buffer \in Name \cup {0}
    BY <1>1 DEF GlAttribute
  <1> QED
    BY <1>1, <1>2, <1>3 DEF EmulId

LEMMA GlBindBufferIs ==
  ASSUME NEW g \in Gl, NEW t \in Target, NEW n \in Name \cup {0}
  PROVE  /\ GlBindBuffer(g, t, n) \in Gl
         /\ GlBindBuffer(g, t, n).bound = [g.bound EXCEPT ![t] = n]
         /\ GlBindBuffer(g, t, n).used = g.used
         /\ GlBindBuffer(g, t, n).contents = g.contents
         /\ GlBindBuffer(g, t, n).attrib = g.attrib
  BY DEF GlBindBuffer, Gl

LEMMA GlGenBufferIs ==
  ASSUME NEW g \in Gl, Name \ g.used # {}
  PROVE  /\ GlGenBuffer(g) \in Gl
         /\ GlGenBuffer(g).used = g.used \cup {FreeName(g)}
         /\ GlGenBuffer(g).bound = g.bound
         /\ GlGenBuffer(g).contents = g.contents
         /\ GlGenBuffer(g).attrib = g.attrib
  <1>1. FreeName(g) \in Name
    BY FreeNameIsFree, Zenon
  <1> QED
    BY <1>1 DEF GlGenBuffer, Gl

LEMMA GlBufferDataIs ==
  ASSUME NEW g \in Gl, NEW t \in Target, g.bound[t] # 0, NEW c \in Content
  PROVE  /\ GlBufferData(g, t, c) \in Gl
         /\ GlBufferData(g, t, c).contents = [g.contents EXCEPT ![g.bound[t]] = c]
         /\ GlBufferData(g, t, c).bound = g.bound
         /\ GlBufferData(g, t, c).used = g.used
         /\ GlBufferData(g, t, c).attrib = g.attrib
  <1>1. g.bound[t] \in Name /\ g.contents \in [Name -> Content]
    BY DEF Gl
  <1>2. [g.contents EXCEPT ![g.bound[t]] = c] \in [Name -> Content]
    BY <1>1
  <1>3. GlBufferData(g, t, c) = [g EXCEPT !.contents = [g.contents EXCEPT ![g.bound[t]] = c]]
    BY DEF GlBufferData, Gl
  <1> QED
    BY <1>2, <1>3 DEF Gl

LEMMA GlVertexAttribPointerIs ==
  ASSUME NEW g \in Gl, NEW i \in Attrib
  PROVE  /\ GlVertexAttribPointer(g, i) \in Gl
         /\ GlVertexAttribPointer(g, i).contents = g.contents
         /\ GlVertexAttribPointer(g, i).bound = g.bound
         /\ GlVertexAttribPointer(g, i).used = g.used
         /\ \A j \in Attrib :
              /\ GlVertexAttribPointer(g, i).attrib[j].enabled = g.attrib[j].enabled
              /\ GlVertexAttribPointer(g, i).attrib[j].buffer =
                   IF j = i THEN g.bound["array"] ELSE g.attrib[j].buffer
  <1> DEFINE b == g.bound["array"]
  <1>1. b \in Name \cup {0} /\ g.attrib \in [Attrib -> GlAttribute]
    BY DEF Gl, Target
  <1> HIDE DEF b
  <1> DEFINE a == [g.attrib EXCEPT ![i] = [g.attrib[i] EXCEPT !.buffer = b]]
  <1>2. \A h \in GlAttribute : /\ [h EXCEPT !.buffer = b] \in GlAttribute
                               /\ [h EXCEPT !.buffer = b].buffer = b
                               /\ [h EXCEPT !.buffer = b].enabled = h.enabled
    BY <1>1 DEF GlAttribute
  <1>3. g.attrib[i] \in GlAttribute
    BY <1>1
  <1>4. a \in [Attrib -> GlAttribute]
    BY <1>1, <1>2, <1>3
  <1>5. a[i].buffer = b /\ a[i].enabled = g.attrib[i].enabled
    BY <1>1, <1>2, <1>3
  <1>6. \A j \in Attrib : j # i => a[j] = g.attrib[j]
    BY <1>1
  <1>7. GlVertexAttribPointer(g, i) = [g EXCEPT !.attrib = a]
    BY DEF GlVertexAttribPointer, Gl, b
  <1> HIDE DEF a
  <1>8. /\ GlVertexAttribPointer(g, i) \in Gl
        /\ GlVertexAttribPointer(g, i).contents = g.contents
        /\ GlVertexAttribPointer(g, i).bound = g.bound
        /\ GlVertexAttribPointer(g, i).used = g.used
        /\ GlVertexAttribPointer(g, i).attrib = a
    BY <1>4, <1>7 DEF Gl
  <1> QED
    BY <1>5, <1>6, <1>8 DEF b

LEMMA BindIs ==
  ASSUME NEW w \in World, NEW t \in Target, NEW n \in Name \cup {0}
  PROVE  LET v == Bind(w, t, n)
         IN  /\ v \in World
             /\ v.gl.bound = [w.gl.bound EXCEPT ![t] = n]
             /\ v.lib.vbo = IF t = "array" THEN n ELSE w.lib.vbo
             /\ v.lib.ibo = IF t = "element" THEN n ELSE w.lib.ibo
             /\ v.lib.attrib_pointer = w.lib.attrib_pointer
             /\ v.gl.used = w.gl.used /\ v.gl.contents = w.gl.contents
             /\ v.gl.attrib = w.gl.attrib
  <1> DEFINE v == Bind(w, t, n)
             l == IF t = "array" THEN [w.lib EXCEPT !.vbo = n] ELSE [w.lib EXCEPT !.ibo = n]
  <1>1. w.lib \in Lib /\ w.gl \in Gl
    BY WorldTypes
  <1>2. v.lib = l /\ v.gl = GlBindBuffer(w.gl, t, n) /\ v = [lib |-> v.lib, gl |-> v.gl]
    BY DEF Bind
  <1>3. /\ l \in Lib
        /\ l.vbo = IF t = "array" THEN n ELSE w.lib.vbo
        /\ l.ibo = IF t = "element" THEN n ELSE w.lib.ibo
        /\ l.attrib_pointer = w.lib.attrib_pointer
    BY <1>1 DEF Lib, Target
  <1> HIDE DEF l, v
  <1>4. v.gl \in Gl /\ v.lib \in Lib
    <2>1. GlBindBuffer(w.gl, t, n) \in Gl
      BY <1>1, GlBindBufferIs
    <2> QED
      BY <1>2, <1>3, <2>1, Zenon
  <1>5. v \in World
    BY <1>2, <1>4 DEF World
  <1>6. /\ v.gl.bound = [w.gl.bound EXCEPT ![t] = n]
        /\ v.gl.used = w.gl.used /\ v.gl.contents = w.gl.contents
        /\ v.gl.attrib = w.gl.attrib
    <2> DEFINE g == GlBindBuffer(w.gl, t, n)
    <2>1. /\ g.bound = [w.gl.bound EXCEPT ![t] = n]
          /\ g.used = w.gl.used /\ g.contents = w.gl.contents
          /\ g.attrib = w.gl.attrib
      BY <1>1, GlBindBufferIs
    <2> HIDE DEF g
    <2>2. v.gl = g
      BY <1>2 DEF g
    <2> QED
      BY <2>1, <2>2
  <1>7. /\ v.lib.vbo = IF t = "array" THEN n ELSE w.lib.vbo
        /\ v.lib.ibo = IF t = "element" THEN n ELSE w.lib.ibo
        /\ v.lib.attrib_pointer = w.lib.attrib_pointer
    BY <1>2, <1>3
  <1> QED
    BY <1>5, <1>6, <1>7 DEF v

(***************************************************************************)
(* Names depend on what is in use and on what the emulation uses.          *)
(***************************************************************************)
LEMMA SameNames ==
  ASSUME NEW w, NEW v, NEW own, NamesOf(w, own), v.gl.used = w.gl.used,
         \A i \in Attrib : EmulId(v, i) = EmulId(w, i),
         \A m \in Name \ w.gl.used : v.gl.contents[m] = w.gl.contents[m]
  PROVE  NamesOf(v, own)
  <1>1. Emulating(v) = Emulating(w) /\ EmulationBuffers(v) = EmulationBuffers(w)
    BY DEF Emulating, EmulationBuffers
  <1>2. v.gl.used = own \cup EmulationBuffers(v) /\ own \cap EmulationBuffers(v) = {}
    BY <1>1 DEF NamesOf
  <1>3. \A j, k \in Emulating(v) : EmulId(v, j) = EmulId(v, k) => j = k
    BY <1>1 DEF NamesOf, Emulating
  <1>4. \A m \in Name : m \notin v.gl.used => v.gl.contents[m] = Nothing
    BY DEF NamesOf
  <1> QED
    BY <1>2, <1>3, <1>4 DEF NamesOf

(***************************************************************************)
(* The names of an emulation buffer created: the attribute had none, and   *)
(* the name was free.                                                      *)
(***************************************************************************)
LEMMA EmulationBufferIs ==
  ASSUME NEW w \in World, NEW i \in Attrib, NamesIn(w), owned \subseteq Name,
         IsFiniteSet(owned), Cardinality(owned) <= MaxOwned
  PROVE  LET v == WithEmulationBuffer(w, i)
         IN  /\ v \in World /\ NamesIn(v)
             /\ v.lib.vbo = w.lib.vbo /\ v.lib.ibo = w.lib.ibo
             /\ v.gl.bound = w.gl.bound /\ v.gl.contents = w.gl.contents
             /\ v.gl.attrib = w.gl.attrib
             /\ EmulId(v, i) \in Name
             /\ \A j \in Attrib :
                  /\ v.lib.attrib_pointer[j].isenabled = w.lib.attrib_pointer[j].isenabled
                  /\ v.lib.attrib_pointer[j].ptr = w.lib.attrib_pointer[j].ptr
                  /\ v.lib.attrib_pointer[j].vbo_id = w.lib.attrib_pointer[j].vbo_id
                  /\ EmulId(w, j) # 0 => EmulId(v, j) = EmulId(w, j)
  <1>1. CASE EmulId(w, i) # 0
    <2>1. WithEmulationBuffer(w, i) = w
      BY <1>1 DEF WithEmulationBuffer, EmulId
    <2>2. EmulId(w, i) \in Name
      BY <1>1, AttributeTypes
    <2> QED
      BY <2>1, <2>2
  <1>2. CASE EmulId(w, i) = 0
    <2> DEFINE n == FreeName(w.gl)
               v == WithEmulationBuffer(w, i)
               p == w.lib.attrib_pointer
               q == [p EXCEPT ![i] = [p[i] EXCEPT !.emul_vbo_id = n]]
    <2>1. EmulationBuffers(w) \subseteq Name
      BY AttributeTypes DEF EmulationBuffers, Emulating
    <2>2. Emulating(w) # Attrib
      BY <1>2 DEF Emulating
    <2>3. Name \ w.gl.used # {}
      BY <2>1, <2>2, NameIsLeft
    <2>4. n \in Name /\ n \notin w.gl.used /\ n # 0
      BY <2>3, FreeNameIsFree, NameNat
    <2> HIDE DEF n
    <2>5. w.lib \in Lib /\ w.gl \in Gl /\ p \in [Attrib -> Attribute]
      BY WorldTypes
    <2>6. \A a \in Attribute : /\ [a EXCEPT !.emul_vbo_id = n] \in Attribute
                               /\ [a EXCEPT !.emul_vbo_id = n].emul_vbo_id = n
                               /\ [a EXCEPT !.emul_vbo_id = n].isenabled = a.isenabled
                               /\ [a EXCEPT !.emul_vbo_id = n].ptr = a.ptr
                               /\ [a EXCEPT !.emul_vbo_id = n].vbo_id = a.vbo_id
      BY <2>4 DEF Attribute
    <2>7. p[i] \in Attribute
      BY <2>5
    <2>8. q \in [Attrib -> Attribute]
      BY <2>5, <2>6, <2>7
    <2>9. /\ q[i].emul_vbo_id = n
          /\ \A j \in Attrib : /\ q[j].isenabled = p[j].isenabled
                               /\ q[j].ptr = p[j].ptr /\ q[j].vbo_id = p[j].vbo_id
                               /\ j # i => q[j].emul_vbo_id = p[j].emul_vbo_id
      BY <2>5, <2>6, <2>7
    <2>10. v = [lib |-> [w.lib EXCEPT !.attrib_pointer = q], gl |-> GlGenBuffer(w.gl)]
      BY <1>2, <2>5 DEF WithEmulationBuffer, EmulId, Lib, n
    <2> HIDE DEF v, q
    <2>11. /\ v.lib \in Lib /\ v.lib.attrib_pointer = q
           /\ v.lib.vbo = w.lib.vbo /\ v.lib.ibo = w.lib.ibo
      BY <2>5, <2>8, <2>10 DEF Lib
    <2>12. /\ v.gl \in Gl /\ v.gl.bound = w.gl.bound /\ v.gl.contents = w.gl.contents
           /\ v.gl.attrib = w.gl.attrib /\ v.gl.used = w.gl.used \cup {n}
      <3> DEFINE g == GlGenBuffer(w.gl)
      <3>1. /\ g \in Gl /\ g.bound = w.gl.bound /\ g.contents = w.gl.contents
            /\ g.attrib = w.gl.attrib /\ g.used = w.gl.used \cup {n}
        BY <2>3, <2>5, GlGenBufferIs, Zenon DEF n
      <3>2. v.gl = g
        BY <2>10
      <3> HIDE DEF g
      <3> QED
        BY <3>1, <3>2
    <2>13. v \in World
      BY <2>10, <2>11, <2>12 DEF World
    <2>14. /\ EmulId(v, i) = n
           /\ \A j \in Attrib : j # i => EmulId(v, j) = EmulId(w, j)
      BY <2>9, <2>11 DEF EmulId
    <2>15. Emulating(v) = Emulating(w) \cup {i}
      BY <2>4, <2>14 DEF Emulating
    <2>16. i \notin Emulating(w)
      BY <1>2 DEF Emulating
    <2>17. EmulationBuffers(v) = EmulationBuffers(w) \cup {n}
      BY <2>14, <2>15, <2>16 DEF EmulationBuffers, Emulating
    <2>18. n \notin owned /\ n \notin EmulationBuffers(w)
      BY <2>4 DEF NamesIn, NamesOf
    <2>19. NamesIn(v)
      <3>1. v.gl.used = owned \cup EmulationBuffers(v)
        BY <2>12, <2>17 DEF NamesIn, NamesOf
      <3>2. owned \cap EmulationBuffers(v) = {}
        BY <2>17, <2>18 DEF NamesIn, NamesOf
      <3>3. ASSUME NEW j \in Emulating(v), NEW k \in Emulating(v), EmulId(v, j) = EmulId(v, k)
            PROVE  j = k
        <4>1. \A l \in Emulating(w) : EmulId(v, l) = EmulId(w, l) /\ EmulId(w, l) # n
          BY <2>14, <2>16, <2>18 DEF EmulationBuffers, Emulating
        <4> QED
          BY <2>14, <2>15, <3>3, <4>1 DEF NamesIn, NamesOf
      <3>4. \A m \in Name : m \notin v.gl.used => v.gl.contents[m] = Nothing
        BY <2>12 DEF NamesIn, NamesOf
      <3> QED
        BY <3>1, <3>2, <3>3, <3>4 DEF NamesIn, NamesOf
    <2>20. \A j \in Attrib : EmulId(w, j) # 0 => EmulId(v, j) = EmulId(w, j)
      BY <1>2, <2>14
    <2>21. \A j \in Attrib :
             /\ v.lib.attrib_pointer[j].isenabled = w.lib.attrib_pointer[j].isenabled
             /\ v.lib.attrib_pointer[j].ptr = w.lib.attrib_pointer[j].ptr
             /\ v.lib.attrib_pointer[j].vbo_id = w.lib.attrib_pointer[j].vbo_id
      BY <2>9, <2>11
    <2> QED
      BY <2>4, <2>11, <2>12, <2>13, <2>14, <2>19, <2>20, <2>21 DEF v
  <1> QED
    BY <1>1, <1>2

-----------------------------------------------------------------------------
(* Uploads.                                                                *)

(***************************************************************************)
(* What no upload changes: how the application uses its attributes, its    *)
(* index buffer and its buffers.                                           *)
(***************************************************************************)
SameUse(w, v) ==
  /\ v.lib.ibo = w.lib.ibo /\ v.gl.bound["element"] = w.gl.bound["element"]
  /\ \A i \in Attrib :
       /\ v.lib.attrib_pointer[i].isenabled = w.lib.attrib_pointer[i].isenabled
       /\ v.lib.attrib_pointer[i].ptr = w.lib.attrib_pointer[i].ptr
       /\ v.lib.attrib_pointer[i].vbo_id = w.lib.attrib_pointer[i].vbo_id
       /\ v.gl.attrib[i].enabled = w.gl.attrib[i].enabled
  /\ \A n \in owned : v.gl.contents[n] = w.gl.contents[n]

(***************************************************************************)
(* Attribute i of v has been uploaded as its pointer in w asks for.        *)
(***************************************************************************)
Uploaded(w, v, i, len) ==
  /\ EmulId(v, i) # 0 /\ v.gl.attrib[i].buffer = EmulId(v, i)
  /\ v.gl.contents[EmulId(v, i)] = Copy(w.lib.attrib_pointer[i].ptr, len)

LEMMA UploadIs ==
  ASSUME NEW w \in World, NEW i \in Attrib, NEW len \in 0 .. MaxLen,
         NamesIn(w), BoundIn(w), HeldBack(w, i), owned \subseteq Name,
         IsFiniteSet(owned), Cardinality(owned) <= MaxOwned, version \in 0 .. MaxVersion
  PROVE  LET v == Upload(w, i, len)
         IN  /\ v \in World /\ NamesIn(v) /\ BoundIn(v) /\ SameUse(w, v)
             /\ Uploaded(w, v, i, len)
             /\ \A j \in Attrib : j # i => v.gl.attrib[j].buffer = w.gl.attrib[j].buffer
             /\ \A n \in Name : n # EmulId(v, i) => v.gl.contents[n] = w.gl.contents[n]
             /\ \A j \in Attrib : EmulId(w, j) # 0 => EmulId(v, j) = EmulId(w, j)
  <1> DEFINE u == WithEmulationBuffer(w, i)
             n == EmulId(u, i)
             c == Copy(u.lib.attrib_pointer[i].ptr, len)
             b == Bind(u, "array", n)
             g1 == GlBufferData(b.gl, "array", c)
             g2 == GlVertexAttribPointer(g1, i)
             v == Upload(w, i, len)
  <1>1. /\ u \in World /\ NamesIn(u) /\ n \in Name
        /\ u.lib.vbo = w.lib.vbo /\ u.lib.ibo = w.lib.ibo
        /\ u.gl.bound = w.gl.bound /\ u.gl.contents = w.gl.contents
        /\ u.gl.attrib = w.gl.attrib
    BY EmulationBufferIs, Zenon
  <1>2. \A j \in Attrib :
          /\ u.lib.attrib_pointer[j].isenabled = w.lib.attrib_pointer[j].isenabled
          /\ u.lib.attrib_pointer[j].ptr = w.lib.attrib_pointer[j].ptr
          /\ u.lib.attrib_pointer[j].vbo_id = w.lib.attrib_pointer[j].vbo_id
          /\ EmulId(w, j) # 0 => EmulId(u, j) = EmulId(w, j)
    BY EmulationBufferIs, Zenon
  <1>3. v = [b EXCEPT !.gl = g2]
    BY DEF Upload, EmulId
  <1> HIDE DEF u, v
  <1>4. n # 0 /\ n \in Name \cup {0}
    BY <1>1, NameNat
  <1>5. c \in Content
    <2>1. u.lib.attrib_pointer[i].ptr \in Memory
      BY <1>1, AttributeTypes, Zenon
    <2> QED
      BY <2>1 DEF Copy, Content
  <1>6. c = Copy(w.lib.attrib_pointer[i].ptr, len)
    BY <1>2
  <1> HIDE DEF n, c
  <1>7. "array" \in Target /\ "element" \in Target
    BY DEF Target
  <1>8. /\ b \in World
        /\ b.gl.bound = [u.gl.bound EXCEPT !["array"] = n]
        /\ b.lib.attrib_pointer = u.lib.attrib_pointer
        /\ b.gl.used = u.gl.used /\ b.gl.contents = u.gl.contents
        /\ b.gl.attrib = u.gl.attrib
    BY <1>1, <1>4, <1>7, BindIs
  <1>9. b.lib.vbo = n /\ b.lib.ibo = u.lib.ibo
    BY <1>1, <1>4, <1>7, BindIs
  <1> HIDE DEF b
  <1>10. u.gl.bound \in [Target -> Name \cup {0}]
    BY <1>1, WorldTypes
  <1>11. b.gl.bound["array"] = n /\ b.gl.bound["element"] = u.gl.bound["element"]
    BY <1>7, <1>8, <1>10
  <1>12. b.gl \in Gl /\ b.lib \in Lib
    BY <1>8, WorldTypes
  <1>13. /\ g1 \in Gl
         /\ g1.contents = [b.gl.contents EXCEPT ![b.gl.bound["array"]] = c]
         /\ g1.bound = b.gl.bound /\ g1.used = b.gl.used /\ g1.attrib = b.gl.attrib
    BY <1>4, <1>5, <1>7, <1>11, <1>12, GlBufferDataIs
  <1> HIDE DEF g1
  <1>14. /\ g2 \in Gl /\ g2.contents = g1.contents
         /\ g2.bound = g1.bound /\ g2.used = g1.used
         /\ \A j \in Attrib :
              /\ g2.attrib[j].enabled = g1.attrib[j].enabled
              /\ g2.attrib[j].buffer =
                   IF j = i THEN g1.bound["array"] ELSE g1.attrib[j].buffer
    BY <1>13, GlVertexAttribPointerIs, Zenon
  <1> HIDE DEF g2
  <1>15. v.lib = b.lib /\ v.gl = g2 /\ v \in World
    BY <1>3, <1>8, <1>12, <1>14 DEF World
  <1>16. /\ v.lib.vbo = n /\ v.lib.ibo = w.lib.ibo
         /\ v.gl.bound["array"] = n /\ v.gl.bound["element"] = w.gl.bound["element"]
    BY <1>1, <1>9, <1>11, <1>13, <1>14, <1>15
  <1>17. v.gl.used = u.gl.used /\ v.gl.contents = [w.gl.contents EXCEPT ![n] = c]
    BY <1>1, <1>8, <1>11, <1>13, <1>14, <1>15
  <1>18. v.lib.attrib_pointer = u.lib.attrib_pointer
    BY <1>8, <1>15
  <1>19. \A j \in Attrib : EmulId(v, j) = EmulId(u, j)
    BY <1>18 DEF EmulId
  <1>20. /\ v.gl.attrib[i].buffer = n
         /\ \A j \in Attrib : /\ v.gl.attrib[j].enabled = w.gl.attrib[j].enabled
                              /\ j # i => v.gl.attrib[j].buffer = w.gl.attrib[j].buffer
    BY <1>1, <1>8, <1>11, <1>13, <1>14, <1>15
  <1>21. w.gl.contents \in [Name -> Content]
    BY WorldTypes
  <1>22. /\ v.gl.contents[n] = c
         /\ \A m \in Name : m # n => v.gl.contents[m] = w.gl.contents[m]
    BY <1>1, <1>17, <1>21
  <1>23. EmulationBuffers(v) = EmulationBuffers(u) /\ Emulating(v) = Emulating(u)
    BY <1>19 DEF EmulationBuffers, Emulating
  <1>24. n \in EmulationBuffers(u)
    BY <1>4 DEF EmulationBuffers, Emulating, n
  <1>25. n \notin owned /\ n \in u.gl.used
    BY <1>1, <1>24 DEF NamesIn, NamesOf
  <1>26. NamesIn(v)
    <2>1. v.gl.used = owned \cup EmulationBuffers(v) /\ owned \cap EmulationBuffers(v) = {}
      BY <1>1, <1>17, <1>23 DEF NamesIn, NamesOf
    <2>2. \A j, k \in Emulating(v) : EmulId(v, j) = EmulId(v, k) => j = k
      BY <1>1, <1>19, <1>23 DEF NamesIn, NamesOf, Emulating
    <2>3. \A m \in Name : m \notin v.gl.used => v.gl.contents[m] = Nothing
      BY <1>1, <1>17, <1>22, <1>25 DEF NamesIn, NamesOf
    <2> QED
      BY <2>1, <2>2, <2>3 DEF NamesIn, NamesOf
  <1>27. BoundIn(v)
    BY <1>1, <1>11, <1>16 DEF BoundIn
  <1>28. SameUse(w, v)
    <2>1. \A j \in Attrib :
            /\ v.lib.attrib_pointer[j].isenabled = w.lib.attrib_pointer[j].isenabled
            /\ v.lib.attrib_pointer[j].ptr = w.lib.attrib_pointer[j].ptr
            /\ v.lib.attrib_pointer[j].vbo_id = w.lib.attrib_pointer[j].vbo_id
      BY <1>2, <1>18
    <2>2. \A m \in owned : v.gl.contents[m] = w.gl.contents[m]
      BY <1>22, <1>25
    <2> QED
      BY <1>16, <1>20, <2>1, <2>2 DEF SameUse
  <1>29. EmulId(v, i) = n
    BY <1>19 DEF n
  <1>30. Uploaded(w, v, i, len)
    BY <1>4, <1>6, <1>20, <1>22, <1>29 DEF Uploaded
  <1>31. \A j \in Attrib : EmulId(w, j) # 0 => EmulId(v, j) = EmulId(w, j)
    BY <1>2, <1>19
  <1>32. \A m \in Name : m # EmulId(v, i) => v.gl.contents[m] = w.gl.contents[m]
    BY <1>22, <1>29
  <1> QED
    BY <1>15, <1>20, <1>26, <1>27, <1>28, <1>30, <1>31, <1>32 DEF v

(***************************************************************************)
(* The uploads one after the other: the function that UploadAll takes the  *)
(* last value of exists.                                                   *)
(***************************************************************************)
IsUploads(f, w, len) ==
  f = [i \in 0 .. NAttribs |-> IF i = 0 THEN w ELSE Upload(f[i - 1], i - 1, len)]

LEMMA UploadsExist ==
  ASSUME NEW w, NEW len
  PROVE  \E f : IsUploads(f, w, len)
  <1> DEFINE IsUpTo(f, n) ==
               f = [i \in 0 .. n |-> IF i = 0 THEN w ELSE Upload(f[i - 1], i - 1, len)]
             S == {n \in Nat : \E f : IsUpTo(f, n)}
  <1>1. 0 \in S
    <2> DEFINE f == [i \in 0 .. 0 |-> w]
    <2>1. IsUpTo(f, 0)
      <3>1. \A i \in 0 .. 0 : i = 0
        OBVIOUS
      <3>2. f = [i \in 0 .. 0 |-> IF i = 0 THEN w ELSE Upload(f[i - 1], i - 1, len)]
        BY <3>1
      <3> QED
        BY <3>2
    <2> QED
      BY <2>1
  <1>2. ASSUME NEW n \in Nat, n \in S PROVE n + 1 \in S
    <2>1. PICK f : IsUpTo(f, n)
      BY <1>2
    <2> DEFINE g == [i \in 0 .. n + 1 |-> IF i = n + 1 THEN Upload(f[n], n, len) ELSE f[i]]
    <2>2. \A i \in 0 .. n : f[i] = IF i = 0 THEN w ELSE Upload(f[i - 1], i - 1, len)
      <3> DEFINE h == [i \in 0 .. n |-> IF i = 0 THEN w ELSE Upload(f[i - 1], i - 1, len)]
      <3>1. \A i \in 0 .. n : h[i] = IF i = 0 THEN w ELSE Upload(f[i - 1], i - 1, len)
        BY Zenon
      <3>2. f = h
        BY <2>1, Zenon
      <3> HIDE DEF h
      <3> QED
        BY <3>1, <3>2, Zenon
    <2>3. \A i \in 0 .. n + 1 : i = n + 1 \/ i \in 0 .. n
      OBVIOUS
    <2>4. \A i \in 0 .. n + 1 : g[i] = IF i = n + 1 THEN Upload(f[n], n, len) ELSE f[i]
      OBVIOUS
    <2>5. n \in 0 .. n + 1 /\ n # n + 1 /\ n + 1 # 0 /\ (n + 1) - 1 = n
      OBVIOUS
    <2>6. g[n] = f[n]
      BY <2>4, <2>5
    <2>7. ASSUME NEW i \in 0 .. n + 1
          PROVE  g[i] = IF i = 0 THEN w ELSE Upload(g[i - 1], i - 1, len)
      <3>1. CASE i = n + 1
        <4>1. g[i] = Upload(f[n], n, len)
          BY <2>4, <3>1, Zenon
        <4>2. i # 0 /\ i - 1 = n
          BY <2>5, <3>1
        <4> HIDE DEF g
        <4> QED
          BY <2>6, <4>1, <4>2, Zenon
      <3>2. CASE i = 0
        <4>1. i \in 0 .. n /\ i # n + 1
          BY <3>2
        <4>2. g[i] = f[i] /\ f[i] = w
          BY <2>2, <2>4, <3>2, <4>1, Zenon
        <4> QED
          BY <3>2, <4>2, Zenon
      <3>3. CASE i # 0 /\ i # n + 1
        <4>1. i \in 0 .. n /\ i - 1 \in 0 .. n + 1 /\ i - 1 # n + 1
          BY <3>3
        <4>2. g[i] = f[i] /\ g[i - 1] = f[i - 1]
          BY <2>4, <3>3, <4>1, Zenon
        <4>3. f[i] = Upload(f[i - 1], i - 1, len)
          BY <2>2, <3>3, <4>1, Zenon
        <4> HIDE DEF g
        <4> QED
          BY <3>3, <4>2, <4>3, Zenon
      <3> QED
        BY <3>1, <3>2, <3>3, Zenon
    <2>8. IsUpTo(g, n + 1)
      <3>1. g = [i \in 0 .. n + 1 |-> g[i]]
        BY Zenon
      <3>2. [i \in 0 .. n + 1 |-> g[i]] =
              [i \in 0 .. n + 1 |-> IF i = 0 THEN w ELSE Upload(g[i - 1], i - 1, len)]
        <4> HIDE DEF g
        <4> QED
          BY <2>7, Zenon
      <3> HIDE DEF g
      <3> QED
        BY <3>1, <3>2, Zenon
    <2> HIDE DEF g
    <2>9. \E h : IsUpTo(h, n + 1)
      BY <2>8, Zenon
    <2> QED
      BY <2>9
  <1>3. Nat \subseteq S
    <2> HIDE DEF S
    <2> QED
      BY <1>1, <1>2, NatInd, Zenon
  <1>4. NAttribs \in S
    <2> HIDE DEF S
    <2>1. NAttribs \in Nat
      BY ClientArraysAssumption
    <2> QED
      BY <1>3, <2>1
  <1> QED
    BY <1>4 DEF IsUploads

(***************************************************************************)
(* f[k] is what the uploads for the attributes below k make of w.          *)
(***************************************************************************)
AreUploads(f, w, len) ==
  /\ f[0] = w
  /\ \A i \in Attrib : f[i + 1] = Upload(f[i], i, len)
  /\ UploadAll(w, len) = f[NAttribs]

LEMMA UploadAllIs ==
  ASSUME NEW w, NEW len
  PROVE  \E f : AreUploads(f, w, len)
  <1> DEFINE f == CHOOSE g : IsUploads(g, w, len)
  <1>1. IsUploads(f, w, len)
    BY UploadsExist, Zenon
  <1>2. UploadAll(w, len) = f[NAttribs]
    BY Zenon DEF UploadAll, IsUploads
  <1> HIDE DEF f
  <1>3. \A i \in 0 .. NAttribs : f[i] = IF i = 0 THEN w ELSE Upload(f[i - 1], i - 1, len)
    <2> DEFINE h == [i \in 0 .. NAttribs |-> IF i = 0 THEN w ELSE Upload(f[i - 1], i - 1, len)]
    <2>1. \A i \in 0 .. NAttribs : h[i] = IF i = 0 THEN w ELSE Upload(f[i - 1], i - 1, len)
      BY Zenon
    <2>2. f = h
      BY <1>1, Zenon DEF IsUploads
    <2> HIDE DEF h
    <2> QED
      BY <2>1, <2>2, Zenon
  <1>4. f[0] = w
    <2>1. 0 \in 0 .. NAttribs
      BY ClientArraysAssumption
    <2> QED
      BY <1>3, <2>1, Zenon
  <1>5. ASSUME NEW i \in Attrib PROVE f[i + 1] = Upload(f[i], i, len)
    <2>1. i + 1 \in 0 .. NAttribs /\ i + 1 # 0 /\ (i + 1) - 1 = i
      BY ClientArraysAssumption DEF Attrib
    <2> QED
      BY <1>3, <2>1, Zenon
  <1> QED
    BY <1>2, <1>4, <1>5, Zenon DEF AreUploads

(***************************************************************************)
(* The attributes below k have been uploaded, those of them that were held *)
(* back; what the others point to is as it was.                            *)
(***************************************************************************)
UploadsDone(k, w, v, len) ==
  /\ v \in World /\ NamesIn(v) /\ BoundIn(v) /\ SameUse(w, v)
  /\ \A j \in Attrib :
       /\ HeldBack(w, j) /\ j < k => Uploaded(w, v, j, len)
       /\ ~HeldBack(w, j) => v.gl.attrib[j].buffer = w.gl.attrib[j].buffer

(***************************************************************************)
(* The world the uploads start from.                                       *)
(***************************************************************************)
Ready(w) ==
  /\ w \in World /\ NamesIn(w) /\ BoundIn(w)
  /\ owned \subseteq Name /\ IsFiniteSet(owned) /\ Cardinality(owned) <= MaxOwned
  /\ version \in 0 .. MaxVersion

LEMMA UploadsDoneStep ==
  ASSUME NEW w, Ready(w), NEW len \in 0 .. MaxLen, NEW k \in Attrib,
         NEW u, UploadsDone(k, w, u, len)
  PROVE  UploadsDone(k + 1, w, Upload(u, k, len), len)
  <1> DEFINE v == Upload(u, k, len)
  <1>1. u \in World /\ NamesIn(u) /\ BoundIn(u) /\ SameUse(w, u)
    BY DEF UploadsDone
  <1>2. \A j \in Attrib : HeldBack(u, j) <=> HeldBack(w, j)
    BY <1>1 DEF SameUse, HeldBack
  <1>3. \A j \in Attrib : j < k + 1 /\ j # k => j < k
    BY ClientArraysAssumption DEF Attrib
  <1>4. CASE ~HeldBack(u, k)
    <2>1. v = u
      BY <1>4 DEF Upload
    <2> HIDE DEF v
    <2>2. ASSUME NEW j \in Attrib, HeldBack(w, j), j < k + 1
          PROVE  Uploaded(w, v, j, len)
      <3>1. j < k
        BY <1>2, <1>3, <1>4, <2>2
      <3> QED
        BY <2>1, <2>2, <3>1 DEF UploadsDone
    <2> QED
      BY <1>1, <2>1, <2>2 DEF UploadsDone, v
  <1>5. CASE HeldBack(u, k)
    <2>1. /\ v \in World /\ NamesIn(v) /\ BoundIn(v) /\ SameUse(u, v)
          /\ Uploaded(u, v, k, len)
          /\ \A j \in Attrib : j # k => v.gl.attrib[j].buffer = u.gl.attrib[j].buffer
          /\ \A n \in Name : n # EmulId(v, k) => v.gl.contents[n] = u.gl.contents[n]
          /\ \A j \in Attrib : EmulId(u, j) # 0 => EmulId(v, j) = EmulId(u, j)
      BY <1>1, <1>5, UploadIs, Zenon DEF Ready
    <2> HIDE DEF v
    <2>2. SameUse(w, v)
      BY <1>1, <2>1 DEF SameUse
    <2>3. Uploaded(w, v, k, len)
      <3>1. u.lib.attrib_pointer[k].ptr = w.lib.attrib_pointer[k].ptr
        BY <1>1 DEF SameUse
      <3>2. Copy(u.lib.attrib_pointer[k].ptr, len) = Copy(w.lib.attrib_pointer[k].ptr, len)
        BY <3>1, Zenon
      <3> QED
        BY <2>1, <3>2, Zenon DEF Uploaded
    <2>4. ASSUME NEW j \in Attrib, HeldBack(w, j), j < k + 1
          PROVE  Uploaded(w, v, j, len)
      <3>1. CASE j = k
        BY <2>3, <3>1
      <3>2. CASE j # k
        <4>1. Uploaded(w, u, j, len)
          BY <1>3, <2>4, <3>2 DEF UploadsDone
        <4>2. EmulId(v, j) = EmulId(u, j) /\ EmulId(v, j) # 0 /\ EmulId(v, k) # 0
          BY <2>1, <4>1 DEF Uploaded
        <4>3. j \in Emulating(v) /\ k \in Emulating(v)
          BY <4>2 DEF Emulating
        <4>4. EmulId(v, j) # EmulId(v, k)
          BY <2>1, <3>2, <4>3 DEF NamesIn, NamesOf
        <4>5. EmulId(v, j) \in Name
          BY <2>1, <4>2, AttributeTypes
        <4>6. v.gl.contents[EmulId(v, j)] = u.gl.contents[EmulId(u, j)]
          BY <2>1, <4>2, <4>4, <4>5
        <4>7. v.gl.attrib[j].buffer = u.gl.attrib[j].buffer
          BY <2>1, <3>2
        <4> QED
          BY <4>1, <4>2, <4>6, <4>7 DEF Uploaded
      <3> QED
        BY <3>1, <3>2
    <2>5. ASSUME NEW j \in Attrib, ~HeldBack(w, j)
          PROVE  v.gl.attrib[j].buffer = w.gl.attrib[j].buffer
      <3>1. j # k
        BY <1>2, <1>5, <2>5
      <3>2. u.gl.attrib[j].buffer = w.gl.attrib[j].buffer
        BY <2>5 DEF UploadsDone
      <3> QED
        BY <2>1, <3>1, <3>2
    <2> QED
      BY <2>1, <2>2, <2>4, <2>5 DEF UploadsDone, v
  <1> QED
    BY <1>4, <1>5

LEMMA UploadAllDone ==
  ASSUME NEW w, Ready(w), NEW len \in 0 .. MaxLen
  PROVE  UploadsDone(NAttribs, w, UploadAll(w, len), len)
  <1>0. PICK f : AreUploads(f, w, len)
    BY UploadAllIs
  <1>1. /\ f[0] = w
        /\ \A i \in Attrib : f[i + 1] = Upload(f[i], i, len)
        /\ UploadAll(w, len) = f[NAttribs]
    BY <1>0, Zenon DEF AreUploads
  <1> DEFINE S == {k \in Nat : k <= NAttribs => UploadsDone(k, w, f[k], len)}
  <1>2. 0 \in S
    <2>1. \A j \in Attrib : ~ (j < 0)
      BY ClientArraysAssumption DEF Attrib
    <2>2. SameUse(w, w)
      BY DEF SameUse
    <2>3. UploadsDone(0, w, w, len)
      BY <2>1, <2>2 DEF UploadsDone, Ready
    <2> QED
      BY <1>1, <2>3
  <1>3. ASSUME NEW k \in Nat, k \in S PROVE k + 1 \in S
    <2> SUFFICES ASSUME k + 1 <= NAttribs PROVE UploadsDone(k + 1, w, f[k + 1], len)
      OBVIOUS
    <2>1. k \in Attrib /\ k <= NAttribs
      BY ClientArraysAssumption DEF Attrib
    <2>2. UploadsDone(k, w, f[k], len)
      BY <1>3, <2>1
    <2>3. f[k + 1] = Upload(f[k], k, len)
      BY <1>1, <2>1, Zenon
    <2> QED
      BY <2>1, <2>2, <2>3, UploadsDoneStep
  <1> HIDE DEF S
  <1>4. Nat \subseteq S
    BY <1>2, <1>3, NatInd, Zenon
  <1>5. NAttribs \in Nat /\ NAttribs <= NAttribs
    BY ClientArraysAssumption
  <1>6. NAttribs \in S
    BY <1>4, <1>5
  <1>7. UploadsDone(NAttribs, w, f[NAttribs], len)
    BY <1>5, <1>6 DEF S
  <1> QED
    BY <1>1, <1>7, Zenon

-----------------------------------------------------------------------------
(* The type invariant, by parts.                                           *)

Asked == [bound : [Target -> Name \cup {0}], enabled : [Attrib -> BOOLEAN],
          source : [Attrib -> Memory \cup {InBuffer(n) : n \in Name}]]
Drawn == [vertices : [Attrib -> Fetch], indices : Fetch]

LEMMA TypeParts ==
  TypeOK <=> /\ Now \in World /\ owned \subseteq Name /\ asked \in Asked
             /\ version \in 0 .. MaxVersion /\ drawn \in Drawn /\ aborted \in BOOLEAN
  <1>1. Now \in World <=> lib \in Lib /\ gl \in Gl
    BY DEF Now, World
  <1> QED
    BY <1>1 DEF TypeOK, Lib, Attribute, Gl, GlAttribute, Asked, Drawn

LEMMA NowIs == Now.lib = lib /\ Now.gl = gl
  BY DEF Now

LEMMA TypesNow ==
  ASSUME TypeOK
  PROVE  /\ Now \in World /\ lib \in Lib /\ gl \in Gl
         /\ lib.vbo \in Name \cup {0} /\ lib.ibo \in Name \cup {0}
         /\ lib.attrib_pointer \in [Attrib -> Attribute]
         /\ gl.bound \in [Target -> Name \cup {0}] /\ gl.used \subseteq Name
         /\ gl.contents \in [Name -> Content] /\ gl.attrib \in [Attrib -> GlAttribute]
         /\ asked.bound \in [Target -> Name \cup {0}]
         /\ asked.enabled \in [Attrib -> BOOLEAN]
         /\ asked.source \in [Attrib -> Memory \cup {InBuffer(n) : n \in Name}]
  <1>1. Now \in World
    BY TypeParts
  <1>2. /\ lib \in Lib /\ gl \in Gl
        /\ lib.vbo \in Name \cup {0} /\ lib.ibo \in Name \cup {0}
        /\ lib.attrib_pointer \in [Attrib -> Attribute]
        /\ gl.bound \in [Target -> Name \cup {0}] /\ gl.used \subseteq Name
        /\ gl.contents \in [Name -> Content] /\ gl.attrib \in [Attrib -> GlAttribute]
    BY <1>1, WorldTypes, NowIs
  <1>3. asked \in Asked
    BY TypeParts
  <1>4. /\ asked.bound \in [Target -> Name \cup {0}]
        /\ asked.enabled \in [Attrib -> BOOLEAN]
        /\ asked.source \in [Attrib -> Memory \cup {InBuffer(n) : n \in Name}]
    BY <1>3 DEF Asked
  <1> QED
    BY <1>1, <1>2, <1>4

LEMMA NothingDrawnType == NothingDrawn \in Drawn
  BY DEF NothingDrawn, Drawn, Fetch

LEMMA FetchType ==
  ASSUME NEW g \in Gl, NEW n \in Name \cup {0}, NEW len
  PROVE  GlFetch(g, n, len) \in Fetch
  <1>1. Beyond \in Fetch
    BY DEF Fetch
  <1>2. CASE n = 0 \/ g.contents[n].len < len
    BY <1>1, <1>2 DEF GlFetch
  <1>3. CASE ~ (n = 0 \/ g.contents[n].len < len)
    <2>1. g.contents[n] \in Content
      BY <1>3 DEF Gl
    <2>2. g.contents[n].of \in Memory /\ g.contents[n].version \in 0 .. MaxVersion
      BY <2>1 DEF Content
    <2> QED
      BY <1>3, <2>2 DEF GlFetch, Fetch
  <1> QED
    BY <1>2, <1>3

LEMMA FetchVerticesType ==
  ASSUME NEW g \in Gl, NEW len
  PROVE  GlFetchVertices(g, len) \in [Attrib -> Fetch]
  <1>1. Unused \in Fetch
    BY DEF Fetch
  <1>2. ASSUME NEW i \in Attrib
        PROVE  (IF g.attrib[i].enabled THEN GlFetch(g, g.attrib[i].buffer, len) ELSE Unused) \in Fetch
    <2>1. g.attrib[i].buffer \in Name \cup {0}
      BY DEF Gl, GlAttribute
    <2> QED
      BY <1>1, <2>1, FetchType
  <1> QED
    BY <1>2 DEF GlFetchVertices

LEMMA CopyType ==
  ASSUME NEW m \in Memory, NEW len \in 0 .. MaxLen, version \in 0 .. MaxVersion
  PROVE  Copy(m, len) \in Content
  BY DEF Copy, Content

(***************************************************************************)
(* No step starts from more than the application's names.                  *)
(***************************************************************************)
LEMMA OwnedFinite ==
  ASSUME owned \subseteq Name
  PROVE  IsFiniteSet(owned) /\ Cardinality(owned) \in Nat
  <1>1. owned \in SUBSET Name
    OBVIOUS
  <1>2. IsFiniteSet(owned)
    BY <1>1, NameFinite, FS_Subset, Zenon
  <1> QED
    BY <1>2, FS_CardinalityType, Zenon

LEMMA ReadyNow ==
  ASSUME IInv
  PROVE  Ready(Now)
  BY TypeParts, OwnedFinite, NowIs DEF IInv, Ready, MirrorAgrees, BoundIn

-----------------------------------------------------------------------------
(* What a drawing leaves: the uploads done, and the bindings as before.    *)

LEMMA SameBindings ==
  ASSUME NEW f \in [Target -> Name \cup {0}], NEW g \in [Target -> Name \cup {0}],
         f["array"] = g["array"], f["element"] = g["element"]
  PROVE  f = g
  <1>1. \A t \in Target : f[t] = g[t]
    BY DEF Target
  <1> QED
    BY <1>1

LEMMA DrawingIs ==
  ASSUME IInv, NEW len \in 0 .. MaxLen
  PROVE  LET w == RestoreVbo(UploadAll(Now, len))
         IN  /\ UploadsDone(NAttribs, Now, w, len)
             /\ w.gl.bound = gl.bound /\ w.lib.vbo = lib.vbo
             /\ w = [lib |-> w.lib, gl |-> w.gl]
  <1> DEFINE u == UploadAll(Now, len)
             w == RestoreVbo(u)
  <1>1. UploadsDone(NAttribs, Now, u, len)
    BY ReadyNow, UploadAllDone
  <1> HIDE DEF u
  <1>2. /\ u \in World /\ NamesIn(u) /\ BoundIn(u) /\ SameUse(Now, u)
        /\ u = [lib |-> u.lib, gl |-> u.gl]
    BY <1>1 DEF UploadsDone, World
  <1>3. /\ lib.vbo \in Name \cup {0} /\ gl.bound \in [Target -> Name \cup {0}]
        /\ lib.vbo = gl.bound["array"] /\ lib.ibo = gl.bound["element"]
    BY TypesNow DEF IInv, MirrorAgrees
  <1>4. u.gl.bound \in [Target -> Name \cup {0}]
    BY <1>2, WorldTypes
  <1>5. u.lib.ibo = lib.ibo /\ u.gl.bound["element"] = gl.bound["element"]
        /\ u.lib.vbo = u.gl.bound["array"]
    BY <1>2, NowIs DEF SameUse, BoundIn
  <1>6. CASE u.lib.vbo = lib.vbo
    <2>1. w = u
      BY <1>6 DEF RestoreVbo
    <2>2. u.gl.bound = gl.bound
      BY <1>3, <1>4, <1>5, <1>6, SameBindings
    <2> QED
      BY <1>1, <1>2, <1>6, <2>1, <2>2 DEF u
  <1>7. CASE u.lib.vbo # lib.vbo
    <2> DEFINE b == Bind(u, "array", lib.vbo)
    <2>1. w = b
      BY <1>7 DEF RestoreVbo
    <2>2. "array" \in Target /\ "element" \in Target
      BY DEF Target
    <2>3. /\ b \in World
          /\ b.gl.bound = [u.gl.bound EXCEPT !["array"] = lib.vbo]
          /\ b.lib.attrib_pointer = u.lib.attrib_pointer
          /\ b.gl.used = u.gl.used /\ b.gl.contents = u.gl.contents
          /\ b.gl.attrib = u.gl.attrib
      BY <1>2, <1>3, <2>2, BindIs, Zenon
    <2>4. b.lib.vbo = lib.vbo /\ b.lib.ibo = u.lib.ibo
      BY <1>2, <1>3, <2>2, BindIs
    <2> HIDE DEF b
    <2>5. b.gl.bound["array"] = lib.vbo /\ b.gl.bound["element"] = gl.bound["element"]
      BY <1>4, <1>5, <2>2, <2>3
    <2>6. b.gl.bound = gl.bound
      <3>1. b.gl.bound \in [Target -> Name \cup {0}]
        BY <2>3, WorldTypes, Zenon
      <3> QED
        BY <1>3, <2>5, <3>1, SameBindings
    <2>7. BoundIn(b) /\ b = [lib |-> b.lib, gl |-> b.gl]
      BY <1>3, <1>5, <2>3, <2>4, <2>5 DEF BoundIn, World
    <2>8. \A j \in Attrib : EmulId(b, j) = EmulId(u, j)
      BY <2>3 DEF EmulId
    <2>10. NamesIn(b)
      BY <1>2, <2>3, <2>8, SameNames DEF NamesIn
    <2>11. SameUse(Now, b)
      BY <1>2, <1>5, <2>3, <2>4, <2>5, NowIs DEF SameUse
    <2>12. \A j \in Attrib : /\ Uploaded(Now, u, j, len) => Uploaded(Now, b, j, len)
                             /\ b.gl.attrib[j].buffer = u.gl.attrib[j].buffer
      BY <2>3, <2>8 DEF Uploaded
    <2>13. UploadsDone(NAttribs, Now, b, len)
      BY <1>1, <2>3, <2>7, <2>10, <2>11, <2>12 DEF UploadsDone
    <2> QED
      BY <2>1, <2>4, <2>6, <2>7, <2>13 DEF u
  <1> QED
    BY <1>6, <1>7 DEF u

-----------------------------------------------------------------------------
(* The invariant after a step, from the world it leaves.                   *)

LEMMA IInvInit == Init => IInv
  <1> SUFFICES ASSUME Init PROVE IInv
    OBVIOUS
  <1>1. /\ lib = [vbo |-> 0, ibo |-> 0,
                  attrib_pointer |-> [i \in Attrib |-> [isenabled |-> FALSE, ptr |-> Null,
                                                        vbo_id |-> 0, emul_vbo_id |-> 0]]]
        /\ gl = [bound |-> [t \in Target |-> 0], used |-> {},
                 contents |-> [n \in Name |-> Nothing],
                 attrib |-> [i \in Attrib |-> [enabled |-> FALSE, buffer |-> 0]]]
        /\ asked = [bound |-> [t \in Target |-> 0], enabled |-> [i \in Attrib |-> FALSE],
                    source |-> [i \in Attrib |-> Null]]
        /\ owned = {} /\ version = 0 /\ drawn = NothingDrawn /\ aborted = FALSE
    BY DEF Init
  <1>2. Null \in Memory /\ Nothing \in Content /\ 0 \in 0 .. MaxVersion
    BY ClientArraysAssumption DEF Memory, Content, Nothing
  <1>3. lib \in Lib
    BY <1>1, <1>2 DEF Lib, Attribute
  <1>4. gl \in Gl
    BY <1>1, <1>2 DEF Gl, GlAttribute
  <1>5. asked \in Asked
    BY <1>1, <1>2 DEF Asked
  <1>6. TypeOK
    BY <1>1, <1>2, <1>3, <1>4, <1>5, NothingDrawnType, TypeParts DEF Now, World
  <1>7. \A i \in Attrib : lib.attrib_pointer[i].emul_vbo_id = 0
    BY <1>1
  <1>8. MirrorAgrees
    BY <1>1, <1>7 DEF MirrorAgrees, Target
  <1>9. Cardinality(owned) <= MaxOwned
    <2>1. Cardinality(owned) = 0
      BY <1>1, FS_EmptySet, Zenon
    <2> QED
      BY <2>1, ClientArraysAssumption
  <1>10. Emulating(Now) = {}
    BY <1>7 DEF Emulating, EmulId, Now
  <1>11. EmulationBuffers(Now) = {}
    BY <1>10 DEF EmulationBuffers
  <1>12. gl.used = {} /\ \A n \in Name : gl.contents[n] = Nothing
    BY <1>1
  <1>13. NamesIn(Now)
    BY <1>1, <1>10, <1>11, <1>12, NowIs DEF NamesIn, NamesOf
  <1>14. OwnedBound /\ SourceInv
    BY <1>1 DEF OwnedBound, SourceInv
  <1> QED
    BY <1>6, <1>8, <1>9, <1>13, <1>14 DEF IInv

LEMMA TypePartsNext ==
  TypeOK' <=> /\ [lib |-> lib', gl |-> gl'] \in World /\ owned' \subseteq Name
              /\ asked' \in Asked /\ version' \in 0 .. MaxVersion /\ drawn' \in Drawn
              /\ aborted' \in BOOLEAN
  <1>1. [lib |-> lib', gl |-> gl'] \in World <=> lib' \in Lib /\ gl' \in Gl
    BY DEF World
  <1> QED
    BY <1>1 DEF TypeOK, Lib, Attribute, Gl, GlAttribute, Asked, Drawn

(***************************************************************************)
(* The parts of the invariant that do not depend on types, for the world   *)
(* v, what has been asked for and the buffers of the application.          *)
(***************************************************************************)
MirrorIn(v, ask) ==
  /\ BoundIn(v) /\ v.gl.bound = ask.bound
  /\ \A i \in Attrib : /\ v.lib.attrib_pointer[i].isenabled = ask.enabled[i]
                       /\ v.gl.attrib[i].enabled = ask.enabled[i]

SourceIn(v, ask, own, i) ==
  \/ ask.source[i] = Null
  \/ /\ ask.source[i] = ArrayOf(i)
     /\ v.lib.attrib_pointer[i].vbo_id = 0 /\ v.lib.attrib_pointer[i].ptr = ArrayOf(i)
  \/ \E n \in own : /\ ask.source[i] = InBuffer(n)
                    /\ v.lib.attrib_pointer[i].vbo_id = n /\ v.gl.attrib[i].buffer = n

LEMMA EmulationNotOwned ==
  ASSUME NEW v, NEW own, NamesOf(v, own), NEW i \in Attrib, EmulId(v, i) # 0
  PROVE  EmulId(v, i) \in v.gl.used \ own
  <1>1. EmulId(v, i) \in EmulationBuffers(v)
    BY DEF EmulationBuffers, Emulating
  <1> QED
    BY <1>1 DEF NamesOf

LEMMA IInvIs ==
  ASSUME IInv
  PROVE  /\ Now \in World /\ NamesOf(Now, owned) /\ MirrorIn(Now, asked)
         /\ \A i \in Attrib : SourceIn(Now, asked, owned, i)
         /\ \A t \in Target : asked.bound[t] \in owned \cup {0}
         /\ owned \subseteq Name /\ Cardinality(owned) <= MaxOwned
         /\ asked \in Asked /\ version \in 0 .. MaxVersion
         /\ TypeOK
  <1>1. MirrorIn(Now, asked)
    BY NowIs DEF IInv, MirrorAgrees, MirrorIn, BoundIn
  <1>2. \A i \in Attrib : SourceIn(Now, asked, owned, i)
    BY NowIs DEF IInv, SourceInv, SourceIn
  <1> QED
    BY <1>1, <1>2, TypeParts DEF IInv, NamesIn, OwnedBound

LEMMA IInvNext ==
  ASSUME NEW v \in World, lib' = v.lib, gl' = v.gl,
         NamesOf(v, owned'), MirrorIn(v, asked'),
         \A i \in Attrib : SourceIn(v, asked', owned', i),
         \A t \in Target : asked'.bound[t] \in owned' \cup {0},
         owned' \subseteq Name, Cardinality(owned') <= MaxOwned, asked' \in Asked,
         version' \in 0 .. MaxVersion, drawn' \in Drawn, aborted' \in BOOLEAN
  PROVE  IInv'
  <1>1. v = [lib |-> lib', gl |-> gl']
    BY DEF World
  <1>2. TypeOK'
    BY <1>1, TypePartsNext
  <1>3. NamesIn(Now)'
    BY <1>1 DEF NamesIn, Now
  <1>4. \A i \in Attrib :
          EmulId(v, i) # 0 => EmulId(v, i) \in v.gl.used \ owned'
    BY EmulationNotOwned
  <1>5. MirrorAgrees'
    BY <1>4 DEF MirrorAgrees, MirrorIn, BoundIn, EmulId
  <1>6. SourceInv'
    BY DEF SourceInv, SourceIn
  <1>7. OwnedBound'
    BY DEF OwnedBound
  <1> QED
    BY <1>2, <1>3, <1>5, <1>6, <1>7 DEF IInv

-----------------------------------------------------------------------------
(* Every call preserves the invariant.                                     *)

LEMMA GenBuffersStep == IInv /\ GenBuffers => IInv'
  <1> SUFFICES ASSUME IInv, GenBuffers PROVE IInv'
    OBVIOUS
  <1> DEFINE n == FreeName(gl)
             v == [lib |-> lib, gl |-> GlGenBuffer(gl)]
  <1>1. /\ Cardinality(owned) < MaxOwned /\ owned' = owned \cup {n}
        /\ gl' = GlGenBuffer(gl) /\ drawn' = NothingDrawn /\ asked' = asked
        /\ lib' = lib /\ version' = version /\ aborted' = aborted
    BY DEF GenBuffers
  <1>2. /\ Now \in World /\ NamesOf(Now, owned) /\ MirrorIn(Now, asked)
        /\ \A i \in Attrib : SourceIn(Now, asked, owned, i)
        /\ \A t \in Target : asked.bound[t] \in owned \cup {0}
        /\ owned \subseteq Name /\ Cardinality(owned) <= MaxOwned
        /\ asked \in Asked /\ version \in 0 .. MaxVersion /\ TypeOK
    BY IInvIs
  <1>3. lib \in Lib /\ gl \in Gl
    BY <1>2, TypesNow
  <1>4. EmulationBuffers(Now) \subseteq Name
    BY <1>2, AttributeTypes DEF EmulationBuffers, Emulating
  <1>5. Name \ gl.used # {}
    BY <1>1, <1>2, <1>4, NameIsLeft, NowIs DEF NamesIn
  <1>6. n \in Name /\ n \notin gl.used
    BY <1>5, FreeNameIsFree
  <1>7. /\ v.gl \in Gl /\ v.gl.used = gl.used \cup {n} /\ v.gl.bound = gl.bound
        /\ v.gl.contents = gl.contents /\ v.gl.attrib = gl.attrib
    BY <1>3, <1>5, GlGenBufferIs
  <1>8. v.lib = lib /\ v \in World
    BY <1>3, <1>7 DEF World
  <1>9. lib' = v.lib /\ gl' = v.gl
    BY <1>1
  <1> HIDE DEF n, v
  <1>10. \A i \in Attrib : EmulId(v, i) = EmulId(Now, i)
    BY <1>8, NowIs DEF EmulId
  <1>11. Emulating(v) = Emulating(Now) /\ EmulationBuffers(v) = EmulationBuffers(Now)
    BY <1>10 DEF Emulating, EmulationBuffers
  <1>12. NamesOf(v, owned')
    <2>1. v.gl.used = owned' \cup EmulationBuffers(v)
      BY <1>1, <1>2, <1>7, <1>11, NowIs DEF NamesOf
    <2>2. owned' \cap EmulationBuffers(v) = {}
      BY <1>1, <1>2, <1>6, <1>11, NowIs DEF NamesOf
    <2>3. \A j, k \in Emulating(v) : EmulId(v, j) = EmulId(v, k) => j = k
      BY <1>2, <1>10, <1>11 DEF NamesOf, Emulating
    <2>4. \A m \in Name : m \notin v.gl.used => v.gl.contents[m] = Nothing
      BY <1>2, <1>7, NowIs DEF NamesOf
    <2> QED
      BY <2>1, <2>2, <2>3, <2>4 DEF NamesOf
  <1>13. MirrorIn(v, asked')
    BY <1>1, <1>2, <1>7, <1>8, NowIs DEF MirrorIn, BoundIn
  <1>14. \A i \in Attrib : SourceIn(v, asked', owned', i)
    BY <1>1, <1>2, <1>7, <1>8, NowIs DEF SourceIn
  <1>15. \A t \in Target : asked'.bound[t] \in owned' \cup {0}
    BY <1>1, <1>2
  <1>16. Cardinality(owned') <= MaxOwned
    <2>1. IsFiniteSet(owned) /\ Cardinality(owned) \in Nat
      BY <1>2, OwnedFinite
    <2>2. Cardinality(owned \cup {n}) =
            IF n \in owned THEN Cardinality(owned) ELSE Cardinality(owned) + 1
      BY <2>1, FS_AddElement, Zenon
    <2>3. Cardinality(owned') = Cardinality(owned) \/ Cardinality(owned') = Cardinality(owned) + 1
      BY <1>1, <2>2
    <2> QED
      BY <1>1, <2>1, <2>3, ClientArraysAssumption
  <1>17. owned' \subseteq Name /\ aborted' \in BOOLEAN
    BY <1>1, <1>2, <1>6 DEF TypeOK
  <1> QED
    BY <1>1, <1>2, <1>8, <1>9, <1>12, <1>13, <1>14, <1>15, <1>16, <1>17, NothingDrawnType,
       IInvNext, Zenon

LEMMA BindBufferStep ==
  ASSUME NEW t \in Target, NEW n \in Name \cup {0}
  PROVE  IInv /\ BindBuffer(t, n) => IInv'
  <1> SUFFICES ASSUME IInv, BindBuffer(t, n) PROVE IInv'
    OBVIOUS
  <1> DEFINE v == Bind(Now, t, n)
  <1>1. /\ n \in owned \cup {0} /\ lib' = v.lib /\ gl' = v.gl
        /\ asked' = [asked EXCEPT !.bound[t] = n] /\ drawn' = NothingDrawn
        /\ owned' = owned /\ version' = version /\ aborted' = aborted
    BY DEF BindBuffer, Becomes
  <1>2. /\ Now \in World /\ NamesOf(Now, owned) /\ MirrorIn(Now, asked)
        /\ \A i \in Attrib : SourceIn(Now, asked, owned, i)
        /\ \A u \in Target : asked.bound[u] \in owned \cup {0}
        /\ owned \subseteq Name /\ Cardinality(owned) <= MaxOwned
        /\ asked \in Asked /\ version \in 0 .. MaxVersion /\ TypeOK
    BY IInvIs
  <1>3. /\ v \in World
        /\ v.gl.bound = [gl.bound EXCEPT ![t] = n]
        /\ v.lib.vbo = IF t = "array" THEN n ELSE lib.vbo
        /\ v.lib.ibo = IF t = "element" THEN n ELSE lib.ibo
        /\ v.lib.attrib_pointer = lib.attrib_pointer
        /\ v.gl.used = gl.used /\ v.gl.contents = gl.contents
        /\ v.gl.attrib = gl.attrib
    BY <1>2, BindIs, NowIs
  <1> HIDE DEF v
  <1>4. gl.bound \in [Target -> Name \cup {0}] /\ asked.bound \in [Target -> Name \cup {0}]
    BY <1>2, TypesNow
  <1>5. /\ asked' \in Asked /\ asked'.bound = [asked.bound EXCEPT ![t] = n]
        /\ asked'.enabled = asked.enabled /\ asked'.source = asked.source
    BY <1>1, <1>2 DEF Asked
  <1>6. \A i \in Attrib : EmulId(v, i) = EmulId(Now, i)
    BY <1>3, NowIs DEF EmulId
  <1>8. NamesOf(v, owned')
    <2>1. v.gl.used = Now.gl.used /\ v.gl.contents = Now.gl.contents
      BY <1>3, NowIs
    <2>2. NamesOf(v, owned)
      BY <1>2, <1>6, <2>1, SameNames
    <2> QED
      BY <1>1, <2>2
  <1>9. MirrorIn(v, asked')
    <2>1. gl.bound = asked.bound /\ lib.vbo = gl.bound["array"] /\ lib.ibo = gl.bound["element"]
      BY <1>2, NowIs DEF MirrorIn, BoundIn
    <2>2. v.gl.bound = asked'.bound
      BY <1>3, <1>5, <2>1
    <2>3. BoundIn(v)
      BY <1>3, <1>4, <2>1 DEF BoundIn, Target
    <2>4. \A i \in Attrib : /\ v.lib.attrib_pointer[i].isenabled = asked'.enabled[i]
                            /\ v.gl.attrib[i].enabled = asked'.enabled[i]
      BY <1>2, <1>3, <1>5, NowIs DEF MirrorIn
    <2> QED
      BY <2>2, <2>3, <2>4 DEF MirrorIn
  <1>10. \A i \in Attrib : SourceIn(v, asked', owned', i)
    BY <1>1, <1>2, <1>3, <1>5, NowIs DEF SourceIn
  <1>11. \A u \in Target : asked'.bound[u] \in owned' \cup {0}
    BY <1>1, <1>2, <1>4, <1>5
  <1>12. /\ owned' \subseteq Name /\ aborted' \in BOOLEAN /\ version' \in 0 .. MaxVersion
         /\ Cardinality(owned') <= MaxOwned /\ drawn' \in Drawn
    BY <1>1, <1>2, NothingDrawnType DEF TypeOK
  <1> QED
    BY <1>1, <1>3, <1>5, <1>8, <1>9, <1>10, <1>11, <1>12, IInvNext, Zenon

LEMMA BufferDataStep ==
  ASSUME NEW t \in Target
  PROVE  IInv /\ BufferData(t) => IInv'
  <1> SUFFICES ASSUME IInv, BufferData(t) PROVE IInv'
    OBVIOUS
  <1> DEFINE c == Copy(ForBuffers, MaxLen)
             v == [lib |-> lib, gl |-> GlBufferData(gl, t, c)]
  <1>1. /\ gl.bound[t] # 0 /\ lib' = v.lib /\ gl' = v.gl
        /\ asked' = asked /\ drawn' = NothingDrawn
        /\ owned' = owned /\ version' = version /\ aborted' = aborted
    BY DEF BufferData
  <1>2. /\ Now \in World /\ NamesOf(Now, owned) /\ MirrorIn(Now, asked)
        /\ \A i \in Attrib : SourceIn(Now, asked, owned, i)
        /\ \A u \in Target : asked.bound[u] \in owned \cup {0}
        /\ owned \subseteq Name /\ Cardinality(owned) <= MaxOwned
        /\ asked \in Asked /\ version \in 0 .. MaxVersion /\ TypeOK
    BY IInvIs
  <1>3. lib \in Lib /\ gl \in Gl /\ gl.contents \in [Name -> Content]
    BY <1>2, TypesNow
  <1>4. c \in Content
    <2>1. ForBuffers \in Memory /\ MaxLen \in 0 .. MaxLen
      BY ClientArraysAssumption DEF Memory
    <2> QED
      BY <1>2, <2>1, CopyType
  <1> HIDE DEF c
  <1>5. /\ v.gl \in Gl /\ v.gl.contents = [gl.contents EXCEPT ![gl.bound[t]] = c]
        /\ v.gl.bound = gl.bound /\ v.gl.used = gl.used /\ v.gl.attrib = gl.attrib
    BY <1>1, <1>3, <1>4, GlBufferDataIs
  <1>6. v.lib = lib /\ v \in World
    BY <1>3, <1>5 DEF World
  <1> HIDE DEF v
  <1>7. \A i \in Attrib : EmulId(v, i) = EmulId(Now, i)
    BY <1>6, NowIs DEF EmulId
  <1>9. gl.bound[t] \in owned /\ gl.bound[t] \in gl.used
    BY <1>1, <1>2, NowIs DEF MirrorIn, NamesOf
  <1>10. NamesOf(v, owned')
    <2>1. \A m \in Name \ gl.used : v.gl.contents[m] = gl.contents[m]
      BY <1>3, <1>5, <1>9
    <2>2. /\ v.gl.used = Now.gl.used
          /\ \A m \in Name \ Now.gl.used : v.gl.contents[m] = Now.gl.contents[m]
      BY <1>5, <2>1, NowIs
    <2>3. NamesOf(v, owned)
      BY <1>2, <1>7, <2>2, SameNames, Zenon
    <2> QED
      BY <1>1, <2>3
  <1>11. MirrorIn(v, asked')
    BY <1>1, <1>2, <1>5, <1>6, NowIs DEF MirrorIn, BoundIn
  <1>12. \A i \in Attrib : SourceIn(v, asked', owned', i)
    BY <1>1, <1>2, <1>5, <1>6, NowIs DEF SourceIn
  <1>13. \A u \in Target : asked'.bound[u] \in owned' \cup {0}
    BY <1>1, <1>2
  <1>14. /\ owned' \subseteq Name /\ aborted' \in BOOLEAN /\ version' \in 0 .. MaxVersion
         /\ Cardinality(owned') <= MaxOwned /\ drawn' \in Drawn /\ asked' \in Asked
    BY <1>1, <1>2, NothingDrawnType DEF TypeOK
  <1> QED
    BY <1>1, <1>6, <1>10, <1>11, <1>12, <1>13, <1>14, IInvNext, Zenon

(***************************************************************************)
(* The name goes back to the GL with nothing in it; no attribute keeps it  *)
(* as its source, whatever the mirror remembers of it.                     *)
(***************************************************************************)
LEMMA DeleteBuffersStep ==
  ASSUME NEW n \in Name
  PROVE  IInv /\ DeleteBuffers(n) => IInv'
  <1> SUFFICES ASSUME IInv, DeleteBuffers(n) PROVE IInv'
    OBVIOUS
  <1> DEFINE l == [lib EXCEPT !.vbo = IF @ = n THEN 0 ELSE @, !.ibo = IF @ = n THEN 0 ELSE @]
             g == GlDeleteBuffer(gl, n)
             v == [lib |-> l, gl |-> g]
  <1>1. /\ n \in owned /\ owned' = owned \ {n} /\ lib' = v.lib /\ gl' = v.gl
        /\ asked' = Forgotten(n) /\ drawn' = NothingDrawn
        /\ version' = version /\ aborted' = aborted
    BY DEF DeleteBuffers
  <1>2. /\ Now \in World /\ NamesOf(Now, owned) /\ MirrorIn(Now, asked)
        /\ \A i \in Attrib : SourceIn(Now, asked, owned, i)
        /\ \A t \in Target : asked.bound[t] \in owned \cup {0}
        /\ owned \subseteq Name /\ Cardinality(owned) <= MaxOwned
        /\ asked \in Asked /\ version \in 0 .. MaxVersion /\ TypeOK
    BY IInvIs
  <1>3. /\ lib \in Lib /\ gl \in Gl /\ gl.used \subseteq Name
        /\ gl.contents \in [Name -> Content] /\ gl.attrib \in [Attrib -> GlAttribute]
        /\ gl.bound \in [Target -> Name \cup {0}]
    BY <1>2, TypesNow
  <1>4. /\ l \in Lib /\ l.attrib_pointer = lib.attrib_pointer
        /\ l.vbo = (IF lib.vbo = n THEN 0 ELSE lib.vbo)
        /\ l.ibo = (IF lib.ibo = n THEN 0 ELSE lib.ibo)
    BY <1>3 DEF Lib
  <1>5. /\ g.used = gl.used \ {n} /\ g.contents = [gl.contents EXCEPT ![n] = Nothing]
        /\ \A t \in Target : g.bound[t] = IF gl.bound[t] = n THEN 0 ELSE gl.bound[t]
        /\ g.bound \in [Target -> Name \cup {0}]
    BY <1>3 DEF GlDeleteBuffer
  <1>6. /\ g.attrib \in [Attrib -> GlAttribute]
        /\ \A i \in Attrib : /\ g.attrib[i].enabled = gl.attrib[i].enabled
                             /\ g.attrib[i].buffer = IF gl.attrib[i].buffer = n THEN 0
                                                     ELSE gl.attrib[i].buffer
    <2>1. \A a \in GlAttribute : /\ [a EXCEPT !.buffer = 0] \in GlAttribute
                                 /\ [a EXCEPT !.buffer = 0].buffer = 0
                                 /\ [a EXCEPT !.buffer = 0].enabled = a.enabled
      BY DEF GlAttribute
    <2>2. g.attrib = [i \in Attrib |-> IF gl.attrib[i].buffer = n
                                       THEN [gl.attrib[i] EXCEPT !.buffer = 0] ELSE gl.attrib[i]]
      BY DEF GlDeleteBuffer
    <2>3. \A i \in Attrib : gl.attrib[i] \in GlAttribute
      BY <1>3
    <2> HIDE DEF g
    <2>4. g.attrib \in [Attrib -> GlAttribute]
      BY <2>1, <2>2, <2>3
    <2>5. \A i \in Attrib : g.attrib[i] = IF gl.attrib[i].buffer = n
                                          THEN [gl.attrib[i] EXCEPT !.buffer = 0] ELSE gl.attrib[i]
      BY <2>2
    <2>6. ASSUME NEW i \in Attrib
          PROVE  /\ g.attrib[i].enabled = gl.attrib[i].enabled
                 /\ g.attrib[i].buffer = IF gl.attrib[i].buffer = n THEN 0
                                         ELSE gl.attrib[i].buffer
      <3>1. CASE gl.attrib[i].buffer = n
        <4>1. g.attrib[i] = [gl.attrib[i] EXCEPT !.buffer = 0]
          BY <2>5, <3>1
        <4>2. /\ [gl.attrib[i] EXCEPT !.buffer = 0].buffer = 0
              /\ [gl.attrib[i] EXCEPT !.buffer = 0].enabled = gl.attrib[i].enabled
          BY <2>1, <2>3, Zenon
        <4>3. g.attrib[i].buffer = 0 /\ g.attrib[i].enabled = gl.attrib[i].enabled
          BY <4>1, <4>2, Zenon
        <4> QED
          BY <3>1, <4>3
      <3>2. CASE gl.attrib[i].buffer # n
        BY <2>5, <3>2
      <3> QED
        BY <3>1, <3>2
    <2> QED
      BY <2>4, <2>6
  <1>7. Nothing \in Content
    BY ClientArraysAssumption DEF Nothing, Content, Memory
  <1>8. g \in Gl
    <2>1. g = [used |-> g.used, contents |-> g.contents, bound |-> g.bound, attrib |-> g.attrib]
      BY DEF GlDeleteBuffer
    <2>2. g.contents \in [Name -> Content] /\ g.used \in SUBSET Name
      BY <1>3, <1>5, <1>7
    <2> HIDE DEF g
    <2> QED
      BY <1>5, <1>6, <2>1, <2>2 DEF Gl
  <1> HIDE DEF l, g
  <1>9. v \in World /\ v.lib = l /\ v.gl = g
    BY <1>4, <1>8 DEF World
  <1> HIDE DEF v
  <1>10. /\ asked' \in Asked /\ asked'.enabled = asked.enabled
         /\ \A t \in Target : asked'.bound[t] = IF asked.bound[t] = n THEN 0 ELSE asked.bound[t]
         /\ \A i \in Attrib : asked'.source[i] = IF asked.source[i] = InBuffer(n) THEN Null
                                                 ELSE asked.source[i]
    <2> DEFINE b == [t \in Target |-> IF asked.bound[t] = n THEN 0 ELSE asked.bound[t]]
               s == [i \in Attrib |-> IF asked.source[i] = InBuffer(n) THEN Null
                                      ELSE asked.source[i]]
    <2>1. asked' = [asked EXCEPT !.bound = b, !.source = s]
      BY <1>1, <1>2 DEF Forgotten, Asked
    <2>2. b \in [Target -> Name \cup {0}]
      BY <1>2, TypesNow
    <2>3. Null \in Memory
      BY DEF Memory
    <2>4. s \in [Attrib -> Memory \cup {InBuffer(m) : m \in Name}]
      BY <1>2, <2>3, TypesNow
    <2>5. /\ \A t \in Target : b[t] = IF asked.bound[t] = n THEN 0 ELSE asked.bound[t]
          /\ \A i \in Attrib : s[i] = IF asked.source[i] = InBuffer(n) THEN Null
                                      ELSE asked.source[i]
      OBVIOUS
    <2> HIDE DEF b, s
    <2>6. asked' \in Asked /\ asked'.enabled = asked.enabled
          /\ asked'.bound = b /\ asked'.source = s
      BY <1>2, <2>1, <2>2, <2>4 DEF Asked
    <2> QED
      BY <2>5, <2>6
  <1>11. n # 0
    BY NameNat
  <1>12. \A i \in Attrib : EmulId(v, i) = EmulId(Now, i)
    BY <1>4, <1>9, NowIs DEF EmulId
  <1>13. Emulating(v) = Emulating(Now) /\ EmulationBuffers(v) = EmulationBuffers(Now)
    BY <1>12 DEF Emulating, EmulationBuffers
  <1>14. NamesOf(v, owned')
    <2>1. v.gl.used = owned' \cup EmulationBuffers(v)
      <3>1. gl.used = owned \cup EmulationBuffers(Now) /\ n \notin EmulationBuffers(Now)
        BY <1>1, <1>2, NowIs DEF NamesOf
      <3> QED
        BY <1>1, <1>5, <1>9, <1>13, <3>1
    <2>2. owned' \cap EmulationBuffers(v) = {}
      BY <1>1, <1>2, <1>13 DEF NamesOf
    <2>3. \A j, k \in Emulating(v) : EmulId(v, j) = EmulId(v, k) => j = k
      BY <1>2, <1>12, <1>13 DEF NamesOf, Emulating
    <2>4. \A m \in Name : m \notin v.gl.used => v.gl.contents[m] = Nothing
      BY <1>2, <1>3, <1>5, <1>9, NowIs DEF NamesOf
    <2> QED
      BY <2>1, <2>2, <2>3, <2>4 DEF NamesOf
  <1>15. MirrorIn(v, asked')
    <2>1. gl.bound = asked.bound /\ lib.vbo = gl.bound["array"] /\ lib.ibo = gl.bound["element"]
      BY <1>2, NowIs DEF MirrorIn, BoundIn
    <2>2. "array" \in Target /\ "element" \in Target
      BY DEF Target
    <2>3. asked'.bound \in [Target -> Name \cup {0}]
      BY <1>10 DEF Asked
    <2>4. v.gl.bound["array"] = asked'.bound["array"]
      BY <1>5, <1>9, <1>10, <2>1, <2>2
    <2>5. v.gl.bound["element"] = asked'.bound["element"]
      BY <1>5, <1>9, <1>10, <2>1, <2>2
    <2>6. v.gl.bound = asked'.bound
      BY <1>5, <1>9, <2>3, <2>4, <2>5, SameBindings
    <2>7. BoundIn(v)
      BY <1>4, <1>5, <1>9, <2>1, <2>2 DEF BoundIn
    <2>8. \A i \in Attrib : /\ v.lib.attrib_pointer[i].isenabled = asked'.enabled[i]
                            /\ v.gl.attrib[i].enabled = asked'.enabled[i]
      BY <1>2, <1>4, <1>6, <1>9, <1>10, NowIs DEF MirrorIn
    <2> QED
      BY <2>6, <2>7, <2>8 DEF MirrorIn
  <1>16. ASSUME NEW i \in Attrib PROVE SourceIn(v, asked', owned', i)
    <2>1. v.lib.attrib_pointer = lib.attrib_pointer
      BY <1>4, <1>9
    <2>2. CASE asked.source[i] = Null
      <3>1. asked'.source[i] = Null
        BY <1>10, <2>2
      <3> QED
        BY <3>1 DEF SourceIn
    <2>3. CASE /\ asked.source[i] = ArrayOf(i) /\ lib.attrib_pointer[i].vbo_id = 0
               /\ lib.attrib_pointer[i].ptr = ArrayOf(i)
      <3>1. ArrayOf(i) # InBuffer(n)
        BY DEF ArrayOf, InBuffer
      <3>2. asked'.source[i] = ArrayOf(i)
        BY <1>10, <2>3, <3>1
      <3> QED
        BY <2>1, <2>3, <3>2 DEF SourceIn
    <2>4. ASSUME NEW m \in owned, asked.source[i] = InBuffer(m),
                 lib.attrib_pointer[i].vbo_id = m, gl.attrib[i].buffer = m
          PROVE  SourceIn(v, asked', owned', i)
      <3>1. CASE m = n
        <4>1. asked'.source[i] = Null
          BY <1>10, <2>4, <3>1
        <4> QED
          BY <4>1 DEF SourceIn
      <3>2. CASE m # n
        <4>1. InBuffer(m) # InBuffer(n)
          BY <3>2 DEF InBuffer
        <4>2. asked'.source[i] = InBuffer(m)
          BY <1>10, <2>4, <4>1
        <4>3. v.gl.attrib[i].buffer = m
          BY <1>6, <1>9, <2>4, <3>2
        <4>4. m \in owned'
          BY <1>1, <3>2
        <4> QED
          BY <2>1, <2>4, <4>2, <4>3, <4>4 DEF SourceIn
      <3> QED
        BY <3>1, <3>2
    <2>5. SourceIn(Now, asked, owned, i)
      BY <1>2
    <2> QED
      BY <2>2, <2>3, <2>4, <2>5, NowIs DEF SourceIn
  <1>17. \A t \in Target : asked'.bound[t] \in owned' \cup {0}
    BY <1>1, <1>2, <1>10
  <1>18. Cardinality(owned') <= MaxOwned
    <2>1. IsFiniteSet(owned) /\ Cardinality(owned) \in Nat
      BY <1>2, OwnedFinite
    <2>2. Cardinality(owned \ {n}) =
            IF n \in owned THEN Cardinality(owned) - 1 ELSE Cardinality(owned)
      BY <2>1, FS_RemoveElement, Zenon
    <2>3. Cardinality(owned') = Cardinality(owned) - 1
      BY <1>1, <2>2
    <2> QED
      BY <1>2, <2>1, <2>3, ClientArraysAssumption
  <1>19. /\ owned' \subseteq Name /\ aborted' \in BOOLEAN /\ drawn' \in Drawn
         /\ version' \in 0 .. MaxVersion
    BY <1>1, <1>2, NothingDrawnType DEF TypeOK
  <1> QED
    BY <1>1, <1>9, <1>10, <1>14, <1>15, <1>16, <1>17, <1>18, <1>19, IInvNext, Zenon

LEMMA SetEnabledStep ==
  ASSUME NEW i \in Attrib, NEW on \in BOOLEAN
  PROVE  IInv /\ SetEnabled(i, on) => IInv'
  <1> SUFFICES ASSUME IInv, SetEnabled(i, on) PROVE IInv'
    OBVIOUS
  <1> DEFINE p == [lib.attrib_pointer EXCEPT ![i] = [lib.attrib_pointer[i] EXCEPT !.isenabled = on]]
             q == [gl.attrib EXCEPT ![i] = [gl.attrib[i] EXCEPT !.enabled = on]]
             v == [lib |-> [lib EXCEPT !.attrib_pointer = p], gl |-> [gl EXCEPT !.attrib = q]]
  <1>2. /\ Now \in World /\ NamesOf(Now, owned) /\ MirrorIn(Now, asked)
        /\ \A j \in Attrib : SourceIn(Now, asked, owned, j)
        /\ \A t \in Target : asked.bound[t] \in owned \cup {0}
        /\ owned \subseteq Name /\ Cardinality(owned) <= MaxOwned
        /\ asked \in Asked /\ version \in 0 .. MaxVersion /\ TypeOK
    BY IInvIs
  <1>3. /\ lib \in Lib /\ gl \in Gl /\ lib.attrib_pointer \in [Attrib -> Attribute]
        /\ gl.attrib \in [Attrib -> GlAttribute] /\ asked.enabled \in [Attrib -> BOOLEAN]
    BY <1>2, TypesNow
  <1>4. /\ lib' = v.lib /\ gl' = v.gl
        /\ asked' = [asked EXCEPT !.enabled = [asked.enabled EXCEPT ![i] = on]]
        /\ drawn' = NothingDrawn
        /\ owned' = owned /\ version' = version /\ aborted' = aborted
    <2>1. lib' = [lib EXCEPT !.attrib_pointer = p]
      BY <1>3 DEF SetEnabled, Lib
    <2>2. gl' = [gl EXCEPT !.attrib = q]
      BY <1>3 DEF SetEnabled, Gl
    <2>3. asked' = [asked EXCEPT !.enabled = [asked.enabled EXCEPT ![i] = on]]
      BY <1>2 DEF SetEnabled, Asked
    <2> QED
      BY <2>1, <2>2, <2>3 DEF SetEnabled
  <1>5. /\ p \in [Attrib -> Attribute]
        /\ \A j \in Attrib : /\ p[j].isenabled = IF j = i THEN on ELSE lib.attrib_pointer[j].isenabled
                             /\ p[j].ptr = lib.attrib_pointer[j].ptr
                             /\ p[j].vbo_id = lib.attrib_pointer[j].vbo_id
                             /\ p[j].emul_vbo_id = lib.attrib_pointer[j].emul_vbo_id
    <2>1. \A a \in Attribute : /\ [a EXCEPT !.isenabled = on] \in Attribute
                               /\ [a EXCEPT !.isenabled = on].isenabled = on
                               /\ [a EXCEPT !.isenabled = on].ptr = a.ptr
                               /\ [a EXCEPT !.isenabled = on].vbo_id = a.vbo_id
                               /\ [a EXCEPT !.isenabled = on].emul_vbo_id = a.emul_vbo_id
      BY DEF Attribute
    <2>2. lib.attrib_pointer[i] \in Attribute
      BY <1>3
    <2>3. /\ p[i] = [lib.attrib_pointer[i] EXCEPT !.isenabled = on]
          /\ \A j \in Attrib : j # i => p[j] = lib.attrib_pointer[j]
      BY <1>3
    <2>4. p \in [Attrib -> Attribute]
      BY <1>3, <2>1, <2>2
    <2> HIDE DEF p
    <2> DEFINE a1 == [lib.attrib_pointer[i] EXCEPT !.isenabled = on]
    <2>5. /\ a1.isenabled = on /\ a1.ptr = lib.attrib_pointer[i].ptr
          /\ a1.vbo_id = lib.attrib_pointer[i].vbo_id
          /\ a1.emul_vbo_id = lib.attrib_pointer[i].emul_vbo_id
      BY <2>1, <2>2
    <2>6. p[i] = a1
      BY <2>3
    <2> HIDE DEF a1
    <2> QED
      BY <2>3, <2>4, <2>5, <2>6
  <1>6. /\ q \in [Attrib -> GlAttribute]
        /\ \A j \in Attrib : /\ q[j].enabled = IF j = i THEN on ELSE gl.attrib[j].enabled
                             /\ q[j].buffer = gl.attrib[j].buffer
    <2>1. \A a \in GlAttribute : /\ [a EXCEPT !.enabled = on] \in GlAttribute
                                 /\ [a EXCEPT !.enabled = on].enabled = on
                                 /\ [a EXCEPT !.enabled = on].buffer = a.buffer
      BY DEF GlAttribute
    <2>2. gl.attrib[i] \in GlAttribute
      BY <1>3
    <2>3. /\ q[i] = [gl.attrib[i] EXCEPT !.enabled = on]
          /\ \A j \in Attrib : j # i => q[j] = gl.attrib[j]
      BY <1>3
    <2>4. q \in [Attrib -> GlAttribute]
      BY <1>3, <2>1, <2>2
    <2> HIDE DEF q
    <2>5. q[i].enabled = on /\ q[i].buffer = gl.attrib[i].buffer
      BY <2>1, <2>2, <2>3, Zenon
    <2> QED
      BY <2>3, <2>4, <2>5
  <1> HIDE DEF p, q
  <1>7. /\ v.lib \in Lib /\ v.lib.attrib_pointer = p /\ v.lib.vbo = lib.vbo /\ v.lib.ibo = lib.ibo
    BY <1>3, <1>5 DEF Lib
  <1>8. /\ v.gl \in Gl /\ v.gl.attrib = q /\ v.gl.bound = gl.bound /\ v.gl.used = gl.used
        /\ v.gl.contents = gl.contents
    BY <1>3, <1>6 DEF Gl
  <1>9. v \in World
    BY <1>7, <1>8 DEF World
  <1> HIDE DEF v
  <1>10. /\ asked' \in Asked /\ asked'.bound = asked.bound /\ asked'.source = asked.source
         /\ \A j \in Attrib : asked'.enabled[j] = IF j = i THEN on ELSE asked.enabled[j]
    <2> DEFINE e == [asked.enabled EXCEPT ![i] = on]
    <2>1. /\ e \in [Attrib -> BOOLEAN]
          /\ \A j \in Attrib : e[j] = IF j = i THEN on ELSE asked.enabled[j]
      BY <1>3
    <2>2. asked' = [asked EXCEPT !.enabled = e]
      BY <1>4
    <2> HIDE DEF e
    <2>3. /\ asked' \in Asked /\ asked'.bound = asked.bound /\ asked'.source = asked.source
          /\ asked'.enabled = e
      BY <1>2, <2>1, <2>2 DEF Asked
    <2> QED
      BY <2>1, <2>3
  <1>11. \A j \in Attrib : EmulId(v, j) = EmulId(Now, j)
    BY <1>5, <1>7, NowIs DEF EmulId
  <1>12. NamesOf(v, owned')
    <2>1. v.gl.used = Now.gl.used /\ v.gl.contents = Now.gl.contents
      BY <1>8, NowIs
    <2>2. NamesOf(v, owned)
      BY <1>2, <1>11, <2>1, SameNames
    <2> QED
      BY <1>4, <2>2
  <1>13. MirrorIn(v, asked')
    <2>1. BoundIn(v) /\ v.gl.bound = asked'.bound
      BY <1>2, <1>7, <1>8, <1>10, NowIs DEF MirrorIn, BoundIn
    <2>2. ASSUME NEW j \in Attrib
          PROVE  /\ v.lib.attrib_pointer[j].isenabled = asked'.enabled[j]
                 /\ v.gl.attrib[j].enabled = asked'.enabled[j]
      <3>1. CASE j = i
        BY <1>5, <1>6, <1>7, <1>8, <1>10, <3>1
      <3>2. CASE j # i
        BY <1>2, <1>5, <1>6, <1>7, <1>8, <1>10, <3>2, NowIs DEF MirrorIn
      <3> QED
        BY <3>1, <3>2
    <2> QED
      BY <2>1, <2>2 DEF MirrorIn
  <1>14. \A j \in Attrib : SourceIn(v, asked', owned', j)
    BY <1>2, <1>4, <1>5, <1>6, <1>7, <1>8, <1>10, NowIs DEF SourceIn
  <1>15. /\ owned' \subseteq Name /\ aborted' \in BOOLEAN /\ drawn' \in Drawn
         /\ version' \in 0 .. MaxVersion /\ Cardinality(owned') <= MaxOwned
         /\ \A t \in Target : asked'.bound[t] \in owned' \cup {0}
    BY <1>2, <1>4, <1>10, NothingDrawnType DEF TypeOK
  <1> QED
    BY <1>4, <1>9, <1>10, <1>12, <1>13, <1>14, <1>15, IInvNext, Zenon

(***************************************************************************)
(* What the application has asked for, once it has given a pointer.        *)
(***************************************************************************)
LEMMA AskedPointerIs ==
  ASSUME IInv, NEW i \in Attrib
  PROVE  LET a == AskedPointer(i)
         IN  /\ a \in Asked /\ a.bound = asked.bound /\ a.enabled = asked.enabled
             /\ a.source[i] = IF lib.vbo = 0 THEN ArrayOf(i) ELSE InBuffer(lib.vbo)
             /\ \A j \in Attrib : j # i => a.source[j] = asked.source[j]
  <1> DEFINE x == IF lib.vbo = 0 THEN ArrayOf(i) ELSE InBuffer(lib.vbo)
             s == [asked.source EXCEPT ![i] = x]
  <1>1. /\ lib.vbo = asked.bound["array"] /\ lib.vbo \in Name \cup {0}
        /\ asked \in Asked
        /\ asked.source \in [Attrib -> Memory \cup {InBuffer(n) : n \in Name}]
    BY TypesNow, TypeParts DEF IInv, MirrorAgrees
  <1>2. AskedPointer(i) = [asked EXCEPT !.source = s]
    BY <1>1 DEF AskedPointer, Asked
  <1>3. x \in Memory \cup {InBuffer(n) : n \in Name}
    BY <1>1 DEF Memory
  <1> HIDE DEF x
  <1>4. /\ s \in [Attrib -> Memory \cup {InBuffer(n) : n \in Name}] /\ s[i] = x
        /\ \A j \in Attrib : j # i => s[j] = asked.source[j]
    BY <1>1, <1>3
  <1> HIDE DEF s
  <1>5. /\ AskedPointer(i) \in Asked /\ AskedPointer(i).bound = asked.bound
        /\ AskedPointer(i).enabled = asked.enabled /\ AskedPointer(i).source = s
    BY <1>1, <1>2, <1>4 DEF Asked
  <1> QED
    BY <1>4, <1>5 DEF x

LEMMA PointIntoBufferStep ==
  ASSUME NEW i \in Attrib
  PROVE  IInv /\ PointIntoBuffer(i) => IInv'
  <1> SUFFICES ASSUME IInv, PointIntoBuffer(i) PROVE IInv'
    OBVIOUS
  <1> DEFINE n == lib.vbo
             p == [lib.attrib_pointer EXCEPT ![i] = [lib.attrib_pointer[i] EXCEPT !.vbo_id = n]]
             g == GlVertexAttribPointer(gl, i)
             v == [lib |-> [lib EXCEPT !.attrib_pointer = p], gl |-> g]
  <1>2. /\ Now \in World /\ NamesOf(Now, owned) /\ MirrorIn(Now, asked)
        /\ \A j \in Attrib : SourceIn(Now, asked, owned, j)
        /\ \A t \in Target : asked.bound[t] \in owned \cup {0}
        /\ owned \subseteq Name /\ Cardinality(owned) <= MaxOwned
        /\ asked \in Asked /\ version \in 0 .. MaxVersion /\ TypeOK
    BY IInvIs
  <1>3. /\ lib \in Lib /\ gl \in Gl /\ lib.attrib_pointer \in [Attrib -> Attribute]
        /\ n \in Name \cup {0}
    BY <1>2, TypesNow
  <1>4. /\ n # 0 /\ lib' = v.lib /\ gl' = v.gl
        /\ asked' = AskedPointer(i) /\ drawn' = NothingDrawn
        /\ owned' = owned /\ version' = version /\ aborted' = aborted
    <2>1. lib' = [lib EXCEPT !.attrib_pointer = p]
      BY <1>3 DEF PointIntoBuffer, Lib
    <2> QED
      BY <2>1 DEF PointIntoBuffer
  <1>5. n = gl.bound["array"] /\ n \in owned
    BY <1>2, <1>4, NowIs DEF MirrorIn, BoundIn, Target
  <1>6. /\ p \in [Attrib -> Attribute] /\ p[i].vbo_id = n
        /\ \A j \in Attrib : /\ p[j].isenabled = lib.attrib_pointer[j].isenabled
                             /\ p[j].ptr = lib.attrib_pointer[j].ptr
                             /\ p[j].emul_vbo_id = lib.attrib_pointer[j].emul_vbo_id
                             /\ j # i => p[j].vbo_id = lib.attrib_pointer[j].vbo_id
    <2>1. \A a \in Attribute : /\ [a EXCEPT !.vbo_id = n] \in Attribute
                               /\ [a EXCEPT !.vbo_id = n].vbo_id = n
                               /\ [a EXCEPT !.vbo_id = n].ptr = a.ptr
                               /\ [a EXCEPT !.vbo_id = n].isenabled = a.isenabled
                               /\ [a EXCEPT !.vbo_id = n].emul_vbo_id = a.emul_vbo_id
      BY <1>3 DEF Attribute
    <2>2. lib.attrib_pointer[i] \in Attribute
      BY <1>3
    <2>3. /\ p[i] = [lib.attrib_pointer[i] EXCEPT !.vbo_id = n]
          /\ \A j \in Attrib : j # i => p[j] = lib.attrib_pointer[j]
      BY <1>3
    <2>4. p \in [Attrib -> Attribute]
      BY <1>3, <2>1, <2>2
    <2> HIDE DEF p
    <2> DEFINE a1 == [lib.attrib_pointer[i] EXCEPT !.vbo_id = n]
    <2>5. /\ a1.vbo_id = n /\ a1.ptr = lib.attrib_pointer[i].ptr
          /\ a1.isenabled = lib.attrib_pointer[i].isenabled
          /\ a1.emul_vbo_id = lib.attrib_pointer[i].emul_vbo_id
      BY <2>1, <2>2
    <2>6. p[i] = a1
      BY <2>3
    <2> HIDE DEF a1
    <2> QED
      BY <2>3, <2>4, <2>5, <2>6
  <1>7. /\ g \in Gl /\ g.contents = gl.contents /\ g.bound = gl.bound /\ g.used = gl.used
        /\ g.attrib[i].buffer = n
        /\ \A j \in Attrib : /\ g.attrib[j].enabled = gl.attrib[j].enabled
                             /\ j # i => g.attrib[j].buffer = gl.attrib[j].buffer
    BY <1>3, <1>5, GlVertexAttribPointerIs
  <1> HIDE DEF p, g
  <1>8. /\ v.lib \in Lib /\ v.lib.attrib_pointer = p /\ v.lib.vbo = lib.vbo /\ v.lib.ibo = lib.ibo
        /\ v.gl = g
    BY <1>3, <1>6 DEF Lib
  <1>9. v \in World
    BY <1>7, <1>8 DEF World
  <1> HIDE DEF v
  <1>10. /\ asked' \in Asked /\ asked'.bound = asked.bound /\ asked'.enabled = asked.enabled
         /\ asked'.source[i] = InBuffer(n)
         /\ \A j \in Attrib : j # i => asked'.source[j] = asked.source[j]
    BY <1>4, AskedPointerIs
  <1>11. \A j \in Attrib : EmulId(v, j) = EmulId(Now, j)
    BY <1>6, <1>8, NowIs DEF EmulId
  <1>12. NamesOf(v, owned')
    <2>1. v.gl.used = Now.gl.used /\ v.gl.contents = Now.gl.contents
      BY <1>7, <1>8, NowIs
    <2>2. NamesOf(v, owned)
      BY <1>2, <1>11, <2>1, SameNames
    <2> QED
      BY <1>4, <2>2
  <1>13. MirrorIn(v, asked')
    BY <1>2, <1>6, <1>7, <1>8, <1>10, NowIs DEF MirrorIn, BoundIn
  <1>14. ASSUME NEW j \in Attrib PROVE SourceIn(v, asked', owned', j)
    <2>1. CASE j = i
      <3>1. /\ asked'.source[j] = InBuffer(n) /\ v.lib.attrib_pointer[j].vbo_id = n
            /\ v.gl.attrib[j].buffer = n /\ n \in owned'
        BY <1>4, <1>5, <1>6, <1>7, <1>8, <1>10, <2>1
      <3> QED
        BY <3>1 DEF SourceIn
    <2>2. CASE j # i
      <3>1. /\ asked'.source[j] = asked.source[j]
            /\ v.lib.attrib_pointer[j].vbo_id = lib.attrib_pointer[j].vbo_id
            /\ v.lib.attrib_pointer[j].ptr = lib.attrib_pointer[j].ptr
            /\ v.gl.attrib[j].buffer = gl.attrib[j].buffer
        BY <1>6, <1>7, <1>8, <1>10, <2>2
      <3>2. SourceIn(Now, asked, owned, j)
        BY <1>2
      <3> QED
        BY <1>4, <3>1, <3>2, NowIs DEF SourceIn
    <2> QED
      BY <2>1, <2>2
  <1>15. /\ owned' \subseteq Name /\ aborted' \in BOOLEAN /\ drawn' \in Drawn
         /\ version' \in 0 .. MaxVersion /\ Cardinality(owned') <= MaxOwned
         /\ \A t \in Target : asked'.bound[t] \in owned' \cup {0}
    BY <1>2, <1>4, <1>10, NothingDrawnType DEF TypeOK
  <1> QED
    BY <1>4, <1>9, <1>10, <1>12, <1>13, <1>14, <1>15, IInvNext, Zenon

LEMMA PointIntoArrayStep ==
  ASSUME NEW i \in Attrib
  PROVE  IInv /\ PointIntoArray(i) => IInv'
  <1> SUFFICES ASSUME IInv, PointIntoArray(i) PROVE IInv'
    OBVIOUS
  <1> DEFINE a0 == [lib.attrib_pointer[i] EXCEPT !.ptr = ArrayOf(i), !.vbo_id = 0]
             p == [lib.attrib_pointer EXCEPT ![i] = a0]
             v == [lib |-> [lib EXCEPT !.attrib_pointer = p], gl |-> gl]
  <1>2. /\ Now \in World /\ NamesOf(Now, owned) /\ MirrorIn(Now, asked)
        /\ \A j \in Attrib : SourceIn(Now, asked, owned, j)
        /\ \A t \in Target : asked.bound[t] \in owned \cup {0}
        /\ owned \subseteq Name /\ Cardinality(owned) <= MaxOwned
        /\ asked \in Asked /\ version \in 0 .. MaxVersion /\ TypeOK
    BY IInvIs
  <1>3. /\ lib \in Lib /\ gl \in Gl /\ lib.attrib_pointer \in [Attrib -> Attribute]
    BY <1>2, TypesNow
  <1>4. /\ lib.vbo = 0 /\ lib' = v.lib /\ gl' = v.gl
        /\ asked' = AskedPointer(i) /\ drawn' = NothingDrawn
        /\ owned' = owned /\ version' = version /\ aborted' = aborted
    <2>1. lib' = [lib EXCEPT !.attrib_pointer = p]
      <3>1. lib.attrib_pointer[i] \in Attribute
        BY <1>3
      <3> QED
        BY <1>3, <3>1 DEF PointIntoArray, Lib, Attribute
    <2> QED
      BY <2>1 DEF PointIntoArray
  <1>6. /\ p \in [Attrib -> Attribute] /\ p[i].vbo_id = 0 /\ p[i].ptr = ArrayOf(i)
        /\ \A j \in Attrib : /\ p[j].isenabled = lib.attrib_pointer[j].isenabled
                             /\ p[j].emul_vbo_id = lib.attrib_pointer[j].emul_vbo_id
                             /\ j # i => p[j] = lib.attrib_pointer[j]
    <2>0. ArrayOf(i) \in Memory /\ 0 \in Name \cup {0}
      BY DEF Memory
    <2>2. lib.attrib_pointer[i] \in Attribute
      BY <1>3
    <2>1. /\ a0 \in Attribute /\ a0.vbo_id = 0 /\ a0.ptr = ArrayOf(i)
          /\ a0.isenabled = lib.attrib_pointer[i].isenabled
          /\ a0.emul_vbo_id = lib.attrib_pointer[i].emul_vbo_id
      BY <2>0, <2>2 DEF Attribute
    <2> HIDE DEF a0
    <2>3. p[i] = a0 /\ \A j \in Attrib : j # i => p[j] = lib.attrib_pointer[j]
      BY <1>3
    <2>4. p \in [Attrib -> Attribute]
      BY <1>3, <2>1
    <2> HIDE DEF p
    <2> QED
      BY <2>1, <2>3, <2>4
  <1> HIDE DEF p
  <1>8. /\ v.lib \in Lib /\ v.lib.attrib_pointer = p /\ v.lib.vbo = lib.vbo /\ v.lib.ibo = lib.ibo
        /\ v.gl = gl
    BY <1>3, <1>6 DEF Lib
  <1>9. v \in World
    BY <1>3, <1>8 DEF World
  <1> HIDE DEF v
  <1>10. /\ asked' \in Asked /\ asked'.bound = asked.bound /\ asked'.enabled = asked.enabled
         /\ asked'.source[i] = ArrayOf(i)
         /\ \A j \in Attrib : j # i => asked'.source[j] = asked.source[j]
    BY <1>4, AskedPointerIs
  <1>11. \A j \in Attrib : EmulId(v, j) = EmulId(Now, j)
    BY <1>6, <1>8, NowIs DEF EmulId
  <1>12. NamesOf(v, owned')
    <2>1. v.gl.used = Now.gl.used /\ v.gl.contents = Now.gl.contents
      BY <1>8, NowIs
    <2>2. NamesOf(v, owned)
      BY <1>2, <1>11, <2>1, SameNames
    <2> QED
      BY <1>4, <2>2
  <1>13. MirrorIn(v, asked')
    BY <1>2, <1>6, <1>8, <1>10, NowIs DEF MirrorIn, BoundIn
  <1>14. ASSUME NEW j \in Attrib PROVE SourceIn(v, asked', owned', j)
    <2>1. CASE j = i
      BY <1>6, <1>8, <1>10, <2>1 DEF SourceIn
    <2>2. CASE j # i
      <3>1. /\ asked'.source[j] = asked.source[j]
            /\ v.lib.attrib_pointer[j] = lib.attrib_pointer[j]
            /\ v.gl.attrib[j].buffer = gl.attrib[j].buffer
        BY <1>6, <1>8, <1>10, <2>2
      <3>2. SourceIn(Now, asked, owned, j)
        BY <1>2
      <3> QED
        BY <1>4, <3>1, <3>2, NowIs DEF SourceIn
    <2> QED
      BY <2>1, <2>2
  <1>15. /\ owned' \subseteq Name /\ aborted' \in BOOLEAN /\ drawn' \in Drawn
         /\ version' \in 0 .. MaxVersion /\ Cardinality(owned') <= MaxOwned
         /\ \A t \in Target : asked'.bound[t] \in owned' \cup {0}
    BY <1>2, <1>4, <1>10, NothingDrawnType DEF TypeOK
  <1> QED
    BY <1>4, <1>9, <1>10, <1>12, <1>13, <1>14, <1>15, IInvNext, Zenon

LEMMA UnchangedWorldStep ==
  ASSUME IInv, lib' = lib, gl' = gl, asked' = asked, owned' = owned,
         version' \in 0 .. MaxVersion, drawn' \in Drawn, aborted' \in BOOLEAN
  PROVE  IInv'
  <1>1. /\ Now \in World /\ NamesOf(Now, owned) /\ MirrorIn(Now, asked)
        /\ \A j \in Attrib : SourceIn(Now, asked, owned, j)
        /\ \A t \in Target : asked.bound[t] \in owned \cup {0}
        /\ owned \subseteq Name /\ Cardinality(owned) <= MaxOwned
        /\ asked \in Asked
    BY IInvIs
  <1>2. lib' = Now.lib /\ gl' = Now.gl
    BY NowIs
  <1>3. /\ NamesOf(Now, owned') /\ MirrorIn(Now, asked')
        /\ \A j \in Attrib : SourceIn(Now, asked', owned', j)
        /\ \A t \in Target : asked'.bound[t] \in owned' \cup {0}
        /\ owned' \subseteq Name /\ Cardinality(owned') <= MaxOwned
        /\ asked' \in Asked
    BY <1>1
  <1> HIDE DEF Now
  <1> DEFINE v == Now
  <1>4. v \in World /\ lib' = v.lib /\ gl' = v.gl /\ NamesOf(v, owned') /\ MirrorIn(v, asked')
        /\ \A j \in Attrib : SourceIn(v, asked', owned', j)
    BY <1>1, <1>2, <1>3
  <1> HIDE DEF v
  <1> QED
    BY <1>3, <1>4, IInvNext, Zenon

(***************************************************************************)
(* A drawing changes emulation buffers and the attributes held back only.  *)
(***************************************************************************)
LEMMA DrawingStep ==
  ASSUME IInv, NEW len \in 0 .. MaxLen, NEW w, w = RestoreVbo(UploadAll(Now, len)),
         lib' = w.lib, gl' = w.gl, asked' = asked, owned' = owned, version' = version,
         drawn' \in Drawn, aborted' \in BOOLEAN
  PROVE  IInv'
  <1>1. /\ Now \in World /\ NamesOf(Now, owned) /\ MirrorIn(Now, asked)
        /\ \A j \in Attrib : SourceIn(Now, asked, owned, j)
        /\ \A t \in Target : asked.bound[t] \in owned \cup {0}
        /\ owned \subseteq Name /\ Cardinality(owned) <= MaxOwned
        /\ asked \in Asked /\ version \in 0 .. MaxVersion
    BY IInvIs
  <1>2. UploadsDone(NAttribs, Now, w, len) /\ w.gl.bound = gl.bound /\ w.lib.vbo = lib.vbo
    BY DrawingIs
  <1>3. w \in World /\ NamesOf(w, owned') /\ BoundIn(w) /\ SameUse(Now, w)
    BY <1>2 DEF UploadsDone, NamesIn
  <1>4. MirrorIn(w, asked')
    BY <1>1, <1>2, <1>3, NowIs DEF MirrorIn, SameUse
  <1>5. ASSUME NEW j \in Attrib PROVE SourceIn(w, asked', owned', j)
    <2>1. SourceIn(Now, asked, owned, j)
      BY <1>1
    <2>2. /\ w.lib.attrib_pointer[j].ptr = Now.lib.attrib_pointer[j].ptr
          /\ w.lib.attrib_pointer[j].vbo_id = Now.lib.attrib_pointer[j].vbo_id
      BY <1>3 DEF SameUse
    <2>3. Now.lib.attrib_pointer[j].vbo_id # 0 => w.gl.attrib[j].buffer = Now.gl.attrib[j].buffer
      BY <1>2 DEF UploadsDone, HeldBack
    <2>4. \A n \in owned : n # 0
      BY <1>1, NameNat
    <2> QED
      BY <2>1, <2>2, <2>3, <2>4 DEF SourceIn
  <1>6. /\ owned' \subseteq Name /\ Cardinality(owned') <= MaxOwned
        /\ version' \in 0 .. MaxVersion /\ asked' \in Asked
        /\ \A t \in Target : asked'.bound[t] \in owned' \cup {0}
    BY <1>1
  <1> QED
    BY <1>3, <1>4, <1>5, <1>6, IInvNext, Zenon

LEMMA DrawnType ==
  ASSUME NEW g \in Gl, NEW len, NEW x \in Fetch
  PROVE  [vertices |-> GlFetchVertices(g, len), indices |-> x] \in Drawn
  BY FetchVerticesType DEF Drawn

LEMMA DrawArraysStep ==
  ASSUME NEW first \in 0 .. MaxLen, NEW count \in VertexCount, first + count <= MaxLen
  PROVE  IInv /\ DrawArrays(first, count) => IInv'
  <1> SUFFICES ASSUME IInv, DrawArrays(first, count) PROVE IInv'
    OBVIOUS
  <1> DEFINE len == first + count
             w == RestoreVbo(UploadAll(Now, len))
  <1>1. /\ lib' = w.lib /\ gl' = w.gl /\ asked' = asked /\ owned' = owned
        /\ version' = version /\ aborted' = aborted
        /\ drawn' = [vertices |-> GlFetchVertices(w.gl, len), indices |-> Unused]
    BY DEF DrawArrays, Becomes, Drawing
  <1>2. len \in 0 .. MaxLen
    BY ClientArraysAssumption DEF VertexCount
  <1> HIDE DEF len
  <1>3. w.gl \in Gl
    <2>1. w \in World
      BY <1>2, DrawingIs DEF UploadsDone
    <2> QED
      BY <2>1, WorldTypes
  <1> HIDE DEF w
  <1>4. drawn' \in Drawn
    <2>1. Unused \in Fetch
      BY DEF Fetch
    <2> QED
      BY <1>1, <1>3, <2>1, DrawnType
  <1>5. aborted' \in BOOLEAN
    BY <1>1 DEF IInv, TypeOK
  <1> QED
    BY <1>1, <1>2, <1>4, <1>5, DrawingStep DEF w

LEMMA DrawElementsStep ==
  ASSUME NEW len \in VertexCount
  PROVE  IInv /\ DrawElements(len) => IInv'
  <1> SUFFICES ASSUME IInv, DrawElements(len) PROVE IInv'
    OBVIOUS
  <1> DEFINE w == RestoreVbo(UploadAll(Now, 0))
             x == GlFetch(w.gl, w.gl.bound["element"], 1)
  <1>1. /\ lib' = w.lib /\ gl' = w.gl /\ asked' = asked /\ owned' = owned
        /\ version' = version /\ aborted' = aborted
        /\ drawn' = [vertices |-> GlFetchVertices(w.gl, len), indices |-> x]
    BY DEF DrawElements, Becomes, Drawing
  <1>2. 0 \in 0 .. MaxLen
    BY ClientArraysAssumption
  <1>3. w.gl \in Gl /\ w.gl.bound["element"] \in Name \cup {0}
    <2>1. w \in World
      BY <1>2, DrawingIs DEF UploadsDone
    <2> HIDE DEF w
    <2> QED
      BY <2>1, WorldTypes DEF Target
  <1>4. x \in Fetch
    <2> HIDE DEF w
    <2> QED
      BY <1>3, FetchType
  <1> HIDE DEF w, x
  <1>5. drawn' \in Drawn
    BY <1>1, <1>3, <1>4, DrawnType
  <1>6. aborted' \in BOOLEAN
    BY <1>1 DEF IInv, TypeOK
  <1> QED
    BY <1>1, <1>2, <1>5, <1>6, DrawingStep DEF w

LEMMA StepIInv == IInv /\ [Next]_vars => IInv'
  <1> SUFFICES ASSUME IInv, [Next]_vars PROVE IInv'
    OBVIOUS
  <1>0. version \in 0 .. MaxVersion /\ drawn \in Drawn /\ aborted \in BOOLEAN
    BY TypeParts DEF IInv
  <1>1. CASE UNCHANGED vars
    BY <1>0, <1>1, UnchangedWorldStep DEF vars
  <1>2. CASE GenBuffers
    BY <1>2, GenBuffersStep
  <1>3. ASSUME NEW n \in Name, DeleteBuffers(n) PROVE IInv'
    BY <1>3, DeleteBuffersStep
  <1>4. ASSUME NEW t \in Target, NEW n \in Name \cup {0}, BindBuffer(t, n) PROVE IInv'
    BY <1>4, BindBufferStep
  <1>5. ASSUME NEW t \in Target, BufferData(t) PROVE IInv'
    BY <1>5, BufferDataStep
  <1>6. ASSUME NEW i \in Attrib, NEW on \in BOOLEAN, SetEnabled(i, on) PROVE IInv'
    BY <1>6, SetEnabledStep
  <1>7. ASSUME NEW i \in Attrib, PointIntoBuffer(i) PROVE IInv'
    BY <1>7, PointIntoBufferStep
  <1>8. ASSUME NEW i \in Attrib, PointIntoArray(i) PROVE IInv'
    BY <1>8, PointIntoArrayStep
  <1>9. CASE WriteMemory
    <2>1. version' \in 0 .. MaxVersion
      BY <1>0, <1>9, ClientArraysAssumption DEF WriteMemory
    <2>2. drawn' \in Drawn
      BY <1>9, NothingDrawnType DEF WriteMemory
    <2> QED
      BY <1>0, <1>9, <2>1, <2>2, UnchangedWorldStep DEF WriteMemory
  <1>10. ASSUME NEW first \in 0 .. MaxLen, NEW count \in VertexCount, first + count <= MaxLen,
                DrawArrays(first, count)
         PROVE  IInv'
    BY <1>10, DrawArraysStep
  <1>11. ASSUME NEW len \in VertexCount, DrawElements(len) PROVE IInv'
    BY <1>11, DrawElementsStep
  <1>12. CASE DrawElementsFromArray
    <2>1. drawn' \in Drawn
      BY <1>12, NothingDrawnType DEF DrawElementsFromArray
    <2> QED
      BY <1>0, <1>12, <2>1, UnchangedWorldStep DEF DrawElementsFromArray
  <1> QED
    BY <1>1, <1>2, <1>3, <1>4, <1>5, <1>6, <1>7, <1>8, <1>9, <1>10, <1>11, <1>12, Zenon
    DEF Next, Call

-----------------------------------------------------------------------------
(* The theorems.                                                           *)

LEMMA IInvAlways == Spec => []IInv
  <1> QED
    BY IInvInit, StepIInv, PTL DEF Spec

(***************************************************************************)
(* The library never stores a name, a pointer or a binding that is not of  *)
(* its kind, with any number of attributes and buffers: in particular GL   *)
(* always has a name left for an emulation buffer.                         *)
(***************************************************************************)
THEOREM TypeCorrect == Spec => []TypeOK
  <1>1. IInv => TypeOK
    BY DEF IInv
  <1> QED
    BY <1>1, IInvAlways, PTL

(***************************************************************************)
(* Between two calls the bindings the client remembers are those of the    *)
(* server's GL and those that the application asked for, whatever was      *)
(* uploaded in between, and no emulation buffer is one of the              *)
(* application's (gl_client/clientgles.c, buffer_objs).                    *)
(***************************************************************************)
THEOREM MirrorCorrect == Spec => []MirrorAgrees
  <1>1. IInv => MirrorAgrees
    BY DEF IInv
  <1> QED
    BY <1>1, IInvAlways, PTL

-----------------------------------------------------------------------------
(* The library implements VertexArrays: step by step.                      *)

LEMMA AbstractConstants ==
  /\ Abstract!Attrib = Attrib /\ Abstract!Target = Target
  /\ Abstract!VertexCount = VertexCount
  /\ Abstract!Nowhere = Null /\ Abstract!Unused = Unused /\ Abstract!Empty = Nothing
  /\ Abstract!NothingDrawn = NothingDrawn
  /\ \A n : Abstract!InBuffer(n) = InBuffer(n)
  /\ \A i : Abstract!InArray(i) = ArrayOf(i)
  BY DEF Abstract!Attrib, Abstract!Target, Abstract!VertexCount, Abstract!Nowhere,
         Abstract!Unused, Abstract!Empty, Abstract!NothingDrawn, Abstract!InBuffer,
         Abstract!InArray, Attrib, Target, VertexCount, Null, Unused, Nothing, NothingDrawn,
         InBuffer, ArrayOf

(***************************************************************************)
(* What is in the application's buffers.                                   *)
(***************************************************************************)
ContentsOf(g, own) == [n \in Name |-> IF n \in own THEN g.contents[n] ELSE Nothing]

LEMMA ContentsNow ==
  /\ [n \in Name |-> Owned(n)] = ContentsOf(gl, owned)
  /\ [n \in Name |-> Owned(n)]' = ContentsOf(gl', owned')
  BY DEF Owned, ContentsOf

LEMMA InitImplements == Init => Abstract!Init
  <1> SUFFICES ASSUME Init PROVE Abstract!Init
    OBVIOUS
  <1>1. /\ asked = [bound |-> [t \in Target |-> 0], enabled |-> [i \in Attrib |-> FALSE],
                    source |-> [i \in Attrib |-> Null]]
        /\ owned = {} /\ version = 0 /\ drawn = NothingDrawn
    BY DEF Init
  <1>2. [n \in Name |-> Owned(n)] = [n \in Name |-> Nothing]
    BY <1>1 DEF Owned
  <1>3. /\ asked.bound = [t \in Target |-> 0] /\ asked.enabled = [i \in Attrib |-> FALSE]
        /\ asked.source = [i \in Attrib |-> Null]
    BY <1>1
  <1> QED
    BY <1>1, <1>2, <1>3, AbstractConstants DEF Abstract!Init

LEMMA GenBuffersImplements == IInv /\ GenBuffers => Abstract!Next
  <1> SUFFICES ASSUME IInv, GenBuffers PROVE Abstract!Next
    OBVIOUS
  <1> DEFINE n == FreeName(gl)
             C == ContentsOf(gl, owned)
             Cn == ContentsOf(gl', owned')
  <1>1. /\ Cardinality(owned) < MaxOwned /\ owned' = owned \cup {n}
        /\ gl' = GlGenBuffer(gl) /\ drawn' = NothingDrawn /\ asked' = asked
        /\ version' = version
    BY DEF GenBuffers
  <1>2. /\ Now \in World /\ NamesOf(Now, owned) /\ owned \subseteq Name
        /\ Cardinality(owned) <= MaxOwned /\ TypeOK
    BY IInvIs
  <1>3. gl \in Gl
    BY <1>2, TypesNow
  <1>4. EmulationBuffers(Now) \subseteq Name
    BY <1>2, AttributeTypes DEF EmulationBuffers, Emulating
  <1>5. Name \ gl.used # {}
    BY <1>1, <1>2, <1>4, NameIsLeft, NowIs DEF NamesIn
  <1>6. n \in Name /\ n \notin gl.used
    BY <1>5, FreeNameIsFree
  <1>7. gl'.contents = gl.contents
    <2> DEFINE g == GlGenBuffer(gl)
    <2>1. g.contents = gl.contents
      BY <1>3, <1>5, GlGenBufferIs
    <2> HIDE DEF g
    <2>2. gl' = g
      BY <1>1 DEF g
    <2> QED
      BY <2>1, <2>2
  <1>8. n \notin owned /\ gl.contents[n] = Nothing
    BY <1>2, <1>6, NowIs DEF NamesOf
  <1> HIDE DEF n
  <1>9. Cn = [C EXCEPT ![n] = Nothing]
    BY <1>1, <1>6, <1>7, <1>8 DEF ContentsOf
  <1>10. [m \in Name |-> Owned(m)]' = [[m \in Name |-> Owned(m)] EXCEPT ![n] = Nothing]
    BY <1>9, ContentsNow, Zenon
  <1>11. Abstract!GenBuffer
    BY <1>1, <1>6, <1>8, <1>10, AbstractConstants DEF Abstract!GenBuffer
  <1> QED
    BY <1>11 DEF Abstract!Next

LEMMA SameContents ==
  ASSUME owned' = owned, \A n \in owned : gl'.contents[n] = gl.contents[n]
  PROVE  [n \in Name |-> Owned(n)]' = [n \in Name |-> Owned(n)]
  <1>1. ContentsOf(gl', owned') = ContentsOf(gl, owned)
    BY DEF ContentsOf
  <1> QED
    BY <1>1, ContentsNow, Zenon

LEMMA BindBufferImplements ==
  ASSUME IInv, NEW t \in Target, NEW n \in Name \cup {0}, BindBuffer(t, n)
  PROVE  Abstract!Next
  <1> DEFINE v == Bind(Now, t, n)
  <1>1. /\ n \in owned \cup {0} /\ gl' = v.gl
        /\ asked' = [asked EXCEPT !.bound[t] = n] /\ drawn' = NothingDrawn
        /\ owned' = owned /\ version' = version
    BY DEF BindBuffer, Becomes
  <1>2. Now \in World /\ asked \in Asked /\ owned \subseteq Name
    BY IInvIs
  <1>3. v.gl.contents = gl.contents
    BY <1>2, BindIs, NowIs
  <1> HIDE DEF v
  <1>4. /\ asked'.bound = [asked.bound EXCEPT ![t] = n]
        /\ asked'.enabled = asked.enabled /\ asked'.source = asked.source
    BY <1>1, <1>2 DEF Asked
  <1>5. [m \in Name |-> Owned(m)]' = [m \in Name |-> Owned(m)]
    BY <1>1, <1>3, SameContents
  <1>6. Abstract!BindBuffer(t, n)
    BY <1>1, <1>4, <1>5, AbstractConstants DEF Abstract!BindBuffer
  <1> QED
    BY <1>6, AbstractConstants DEF Abstract!Next

LEMMA BufferDataImplements ==
  ASSUME IInv, NEW t \in Target, BufferData(t)
  PROVE  Abstract!Next
  <1> DEFINE c == Copy(ForBuffers, MaxLen)
             b == gl.bound[t]
  <1>1. /\ b # 0 /\ gl' = GlBufferData(gl, t, c) /\ asked' = asked /\ drawn' = NothingDrawn
        /\ owned' = owned /\ version' = version
    BY DEF BufferData
  <1>2. /\ MirrorIn(Now, asked) /\ \A u \in Target : asked.bound[u] \in owned \cup {0}
        /\ owned \subseteq Name /\ version \in 0 .. MaxVersion /\ TypeOK
    BY IInvIs
  <1>3. gl \in Gl /\ gl.contents \in [Name -> Content]
    BY <1>2, TypesNow
  <1>4. c \in Content
    <2>1. ForBuffers \in Memory /\ MaxLen \in 0 .. MaxLen
      BY ClientArraysAssumption DEF Memory
    <2> QED
      BY <1>2, <2>1, CopyType
  <1>5. c = [of |-> Abstract!InBuffer(0), version |-> version, len |-> MaxLen]
    BY AbstractConstants DEF Copy, ForBuffers, InBuffer
  <1> HIDE DEF c
  <1>6. gl'.contents = [gl.contents EXCEPT ![b] = c]
    <2> DEFINE g == GlBufferData(gl, t, c)
    <2>1. g.contents = [gl.contents EXCEPT ![b] = c]
      BY <1>1, <1>3, <1>4, GlBufferDataIs
    <2> HIDE DEF g
    <2>2. gl' = g
      BY <1>1 DEF g
    <2> QED
      BY <2>1, <2>2
  <1>7. b = asked.bound[t] /\ b \in owned /\ b \in Name
    BY <1>1, <1>2, NowIs DEF MirrorIn
  <1> HIDE DEF b
  <1>8. ContentsOf(gl', owned') = [ContentsOf(gl, owned) EXCEPT ![b] = c]
    BY <1>1, <1>3, <1>6, <1>7 DEF ContentsOf
  <1>9. [m \in Name |-> Owned(m)]' = [[m \in Name |-> Owned(m)] EXCEPT ![b] = c]
    BY <1>8, ContentsNow, Zenon
  <1>10. Abstract!BufferData(t)
    <2>1. [m \in Name |-> Owned(m)]' =
            [[m \in Name |-> Owned(m)] EXCEPT ![asked.bound[t]] =
               [of |-> Abstract!InBuffer(0), version |-> version, len |-> MaxLen]]
      BY <1>5, <1>7, <1>9, Zenon
    <2> QED
      BY <1>1, <1>7, <2>1, AbstractConstants DEF Abstract!BufferData
  <1> QED
    BY <1>10, AbstractConstants DEF Abstract!Next

LEMMA DeleteBuffersImplements ==
  ASSUME IInv, NEW n \in Name, DeleteBuffers(n)
  PROVE  Abstract!Next
  <1> DEFINE b == [t \in Target |-> IF asked.bound[t] = n THEN 0 ELSE asked.bound[t]]
             s == [i \in Attrib |-> IF asked.source[i] = InBuffer(n) THEN Null
                                    ELSE asked.source[i]]
  <1>1. /\ n \in owned /\ owned' = owned \ {n} /\ gl' = GlDeleteBuffer(gl, n)
        /\ asked' = Forgotten(n) /\ drawn' = NothingDrawn /\ version' = version
    BY DEF DeleteBuffers
  <1>2. asked \in Asked /\ gl \in Gl
    BY IInvIs, TypesNow
  <1>3. asked'.bound = b /\ asked'.source = s /\ asked'.enabled = asked.enabled
    BY <1>1, <1>2 DEF Forgotten, Asked
  <1>4. gl'.contents = [gl.contents EXCEPT ![n] = Nothing] /\ gl.contents \in [Name -> Content]
    BY <1>1, <1>2 DEF GlDeleteBuffer, Gl
  <1>5. ContentsOf(gl', owned') = [ContentsOf(gl, owned) EXCEPT ![n] = Nothing]
    BY <1>1, <1>4 DEF ContentsOf
  <1>6. [m \in Name |-> Owned(m)]' = [[m \in Name |-> Owned(m)] EXCEPT ![n] = Nothing]
    BY <1>5, ContentsNow, Zenon
  <1>7. b = [t \in Abstract!Target |-> IF asked.bound[t] = n THEN 0 ELSE asked.bound[t]]
    BY AbstractConstants, Zenon
  <1>8. s = [i \in Abstract!Attrib |-> IF asked.source[i] = Abstract!InBuffer(n)
                                       THEN Abstract!Nowhere ELSE asked.source[i]]
    BY AbstractConstants, Zenon
  <1> HIDE DEF b, s
  <1>9. Abstract!DeleteBuffer(n)
    BY <1>1, <1>3, <1>6, <1>7, <1>8, AbstractConstants DEF Abstract!DeleteBuffer
  <1> QED
    BY <1>9 DEF Abstract!Next

LEMMA SetEnabledImplements ==
  ASSUME IInv, NEW i \in Attrib, NEW on \in BOOLEAN, SetEnabled(i, on)
  PROVE  Abstract!Next
  <1>1. /\ gl' = [gl EXCEPT !.attrib[i].enabled = on]
        /\ asked' = [asked EXCEPT !.enabled[i] = on]
        /\ drawn' = NothingDrawn /\ owned' = owned /\ version' = version
    BY DEF SetEnabled
  <1>2. asked \in Asked /\ gl \in Gl
    BY IInvIs, TypesNow
  <1>3. /\ asked'.enabled = [asked.enabled EXCEPT ![i] = on]
        /\ asked'.bound = asked.bound /\ asked'.source = asked.source
    BY <1>1, <1>2 DEF Asked
  <1>4. gl'.contents = gl.contents
    BY <1>1, <1>2 DEF Gl
  <1>5. [m \in Name |-> Owned(m)]' = [m \in Name |-> Owned(m)]
    BY <1>1, <1>4, SameContents
  <1>6. Abstract!SetEnabled(i, on)
    BY <1>1, <1>3, <1>5, AbstractConstants DEF Abstract!SetEnabled
  <1> QED
    BY <1>6, AbstractConstants DEF Abstract!Next

LEMMA PointImplements ==
  ASSUME IInv, NEW i \in Attrib, asked' = AskedPointer(i), drawn' = NothingDrawn,
         owned' = owned, version' = version, gl'.contents = gl.contents
  PROVE  Abstract!Next
  <1> DEFINE x == IF asked.bound["array"] # 0 THEN InBuffer(asked.bound["array"]) ELSE ArrayOf(i)
  <1>1. asked \in Asked
    BY IInvIs
  <1>2. /\ asked'.source = [asked.source EXCEPT ![i] = x]
        /\ asked'.bound = asked.bound /\ asked'.enabled = asked.enabled
    BY <1>1 DEF AskedPointer, Asked
  <1>3. x = IF asked.bound["array"] # 0 THEN Abstract!InBuffer(asked.bound["array"])
            ELSE Abstract!InArray(i)
    BY AbstractConstants, Zenon
  <1> HIDE DEF x
  <1>4. [m \in Name |-> Owned(m)]' = [m \in Name |-> Owned(m)]
    BY SameContents
  <1>5. Abstract!VertexAttribPointer(i)
    BY <1>2, <1>3, <1>4, AbstractConstants DEF Abstract!VertexAttribPointer
  <1> QED
    BY <1>5, AbstractConstants DEF Abstract!Next

(***************************************************************************)
(* An attribute is fetched as the application's own GL would do it: from   *)
(* what was uploaded of its array now, or from the buffer it chose.  No    *)
(* vertex of an array is missing, if as many are uploaded as are drawn.    *)
(***************************************************************************)
LEMMA FetchImplements ==
  ASSUME IInv, NEW len \in 0 .. MaxLen, NEW uploaded \in 0 .. MaxLen, MayDraw(len),
         uploaded >= len \/ \A i \in Attrib : ~HeldBack(Now, i),
         NEW w, w = RestoreVbo(UploadAll(Now, uploaded))
  PROVE  GlFetchVertices(w.gl, len) = [i \in Attrib |-> Abstract!Fetched(i)]
  <1>1. /\ Now \in World /\ MirrorIn(Now, asked)
        /\ \A j \in Attrib : SourceIn(Now, asked, owned, j)
        /\ owned \subseteq Name
    BY IInvIs
  <1>2. UploadsDone(NAttribs, Now, w, uploaded)
    BY DrawingIs
  <1>3. /\ w \in World /\ SameUse(Now, w)
        /\ \A i \in Attrib : HeldBack(Now, i) => Uploaded(Now, w, i, uploaded)
        /\ \A i \in Attrib : ~HeldBack(Now, i) =>
             w.gl.attrib[i].buffer = Now.gl.attrib[i].buffer
    <2>1. \A i \in Attrib : i < NAttribs
      BY ClientArraysAssumption DEF Attrib
    <2> QED
      BY <1>2, <2>1 DEF UploadsDone
  <1>4. ASSUME NEW i \in Attrib
        PROVE  (IF w.gl.attrib[i].enabled THEN GlFetch(w.gl, w.gl.attrib[i].buffer, len)
                ELSE Unused) = Abstract!Fetched(i)
    <2>1. /\ w.gl.attrib[i].enabled = asked.enabled[i]
          /\ Now.lib.attrib_pointer[i].isenabled = asked.enabled[i]
      BY <1>1, <1>3 DEF MirrorIn, SameUse
    <2>2. CASE ~ asked.enabled[i]
      BY <2>1, <2>2, AbstractConstants DEF Abstract!Fetched
    <2>3. CASE asked.enabled[i]
      <3>1. asked.source[i] # Null
        BY <2>3 DEF MayDraw
      <3>2. CASE /\ asked.source[i] = ArrayOf(i)
                 /\ Now.lib.attrib_pointer[i].vbo_id = 0
                 /\ Now.lib.attrib_pointer[i].ptr = ArrayOf(i)
        <4>1. HeldBack(Now, i)
          BY <2>1, <2>3, <3>2 DEF HeldBack
        <4>2. /\ w.gl.attrib[i].buffer # 0
              /\ w.gl.contents[w.gl.attrib[i].buffer] = Copy(ArrayOf(i), uploaded)
          BY <1>3, <3>2, <4>1 DEF Uploaded
        <4>3. /\ w.gl.contents[w.gl.attrib[i].buffer].len = uploaded
              /\ w.gl.contents[w.gl.attrib[i].buffer].of = ArrayOf(i)
              /\ w.gl.contents[w.gl.attrib[i].buffer].version = version
          BY <4>2 DEF Copy
        <4>4. ~ (uploaded < len)
          BY <4>1, ClientArraysAssumption
        <4>5. GlFetch(w.gl, w.gl.attrib[i].buffer, len) = <<ArrayOf(i), version>>
          BY <4>2, <4>3, <4>4 DEF GlFetch
        <4>6. ~ Abstract!UsesBuffer(i)
          BY <3>2 DEF Abstract!UsesBuffer, ArrayOf
        <4>7. Abstract!Fetched(i) = <<ArrayOf(i), version>>
          BY <2>3, <3>2, <4>6 DEF Abstract!Fetched
        <4> QED
          BY <2>1, <2>3, <4>5, <4>7
      <3>3. ASSUME NEW n \in owned, asked.source[i] = InBuffer(n),
                   Now.lib.attrib_pointer[i].vbo_id = n, Now.gl.attrib[i].buffer = n
            PROVE  GlFetch(w.gl, w.gl.attrib[i].buffer, len) = Abstract!Fetched(i)
        <4>1. n \in Name /\ n # 0
          BY <1>1, NameNat
        <4>2. w.gl.attrib[i].buffer = n
          BY <1>3, <3>3, <4>1 DEF HeldBack
        <4>3. w.gl.contents[n] = gl.contents[n]
          BY <1>3, NowIs DEF SameUse
        <4>4. asked.source[i][2] = n /\ asked.source[i] # ArrayOf(i) /\ asked.source[i][1] = "buffer"
          BY <3>3 DEF InBuffer, ArrayOf
        <4>5. gl.contents[n].len >= len
          BY <2>3, <4>4 DEF MayDraw
        <4>6. gl.contents[n].len \in Nat /\ len \in Nat
          <5>1. gl.contents \in [Name -> Content]
            BY TypesNow DEF IInv
          <5>2. gl.contents[n] \in Content
            BY <4>1, <5>1
          <5> QED
            BY <5>2, ClientArraysAssumption DEF Content
        <4>7. ~ (gl.contents[n].len < len)
          BY <4>5, <4>6
        <4>8. GlFetch(w.gl, n, len) = <<gl.contents[n].of, gl.contents[n].version>>
          BY <4>1, <4>3, <4>7 DEF GlFetch
        <4>9. Abstract!Fetched(i) = Abstract!Contents(n)
          BY <2>3, <4>4 DEF Abstract!Fetched, Abstract!UsesBuffer
        <4>10. Abstract!Contents(n) = <<gl.contents[n].of, gl.contents[n].version>>
          BY <4>1 DEF Abstract!Contents, Owned
        <4> QED
          BY <4>2, <4>8, <4>9, <4>10
      <3>4. SourceIn(Now, asked, owned, i)
        BY <1>1
      <3>5. CASE \E n \in owned : /\ asked.source[i] = InBuffer(n)
                                  /\ Now.lib.attrib_pointer[i].vbo_id = n
                                  /\ Now.gl.attrib[i].buffer = n
        BY <2>1, <2>3, <3>3, <3>5
      <3> QED
        BY <3>1, <3>2, <3>4, <3>5 DEF SourceIn
    <2> QED
      BY <2>2, <2>3
  <1> QED
    BY <1>4, Zenon DEF GlFetchVertices

LEMMA MayDrawImplements ==
  ASSUME IInv, NEW len, MayDraw(len)
  PROVE  Abstract!MayDraw(len)
  <1>1. /\ \A j \in Attrib : SourceIn(Now, asked, owned, j) /\ owned \subseteq Name
    BY IInvIs
  <1>2. ASSUME NEW i \in Attrib, asked.enabled[i]
        PROVE  /\ asked.source[i] # Abstract!Nowhere
               /\ Abstract!UsesBuffer(i) =>
                    [n \in Name |-> Owned(n)][asked.source[i][2]].len >= len
    <2>1. asked.source[i] # Null /\ SourceIn(Now, asked, owned, i)
      BY <1>1, <1>2 DEF MayDraw
    <2>2. asked.source[i] # Abstract!Nowhere
      BY <2>1, AbstractConstants
    <2>3. ASSUME Abstract!UsesBuffer(i)
          PROVE  [n \in Name |-> Owned(n)][asked.source[i][2]].len >= len
      <3>1. asked.source[i] # ArrayOf(i)
        BY <2>3 DEF Abstract!UsesBuffer, ArrayOf
      <3>2. PICK n \in owned : asked.source[i] = InBuffer(n)
        BY <2>1, <3>1 DEF SourceIn
      <3>3. asked.source[i][2] = n /\ n \in Name
        BY <1>1, <3>2 DEF InBuffer
      <3>4. gl.contents[n].len >= len
        BY <1>2, <3>1, <3>3 DEF MayDraw
      <3>5. [m \in Name |-> Owned(m)][n] = gl.contents[n]
        BY <3>3 DEF Owned
      <3> QED
        BY <3>3, <3>4, <3>5
    <2> QED
      BY <2>2, <2>3
  <1> QED
    BY <1>2, AbstractConstants DEF Abstract!MayDraw

LEMMA DrawArraysImplements ==
  ASSUME IInv, NEW first \in 0 .. MaxLen, NEW count \in VertexCount, first + count <= MaxLen,
         DrawArrays(first, count)
  PROVE  Abstract!Next
  <1> DEFINE len == first + count
             w == RestoreVbo(UploadAll(Now, len))
  <1>1. /\ MayDraw(len) /\ gl' = w.gl /\ asked' = asked /\ owned' = owned /\ version' = version
        /\ drawn' = [vertices |-> GlFetchVertices(w.gl, len), indices |-> Unused]
    BY DEF DrawArrays, Becomes, Drawing
  <1>2. len \in 0 .. MaxLen /\ len >= len
    BY ClientArraysAssumption DEF VertexCount
  <1>3. UploadsDone(NAttribs, Now, w, len)
    BY <1>2, DrawingIs
  <1>4. Abstract!MayDraw(len)
    BY <1>1, MayDrawImplements
  <1> HIDE DEF len
  <1>5. GlFetchVertices(w.gl, len) = [i \in Attrib |-> Abstract!Fetched(i)]
    BY <1>1, <1>2, FetchImplements
  <1> HIDE DEF w
  <1>6. [m \in Name |-> Owned(m)]' = [m \in Name |-> Owned(m)]
    BY <1>1, <1>3, SameContents, NowIs DEF UploadsDone, SameUse
  <1>7. drawn' = [vertices |-> [i \in Abstract!Attrib |-> Abstract!Fetched(i)],
                  indices |-> Abstract!Unused]
    BY <1>1, <1>5, AbstractConstants, Zenon
  <1>8. Abstract!DrawArrays(first, count)
    BY <1>1, <1>4, <1>6, <1>7 DEF Abstract!DrawArrays, len
  <1> QED
    BY <1>8, AbstractConstants DEF Abstract!Next

LEMMA DrawElementsImplements ==
  ASSUME IInv, NEW len \in VertexCount, DrawElements(len)
  PROVE  Abstract!Next
  <1> DEFINE w == RestoreVbo(UploadAll(Now, 0))
             e == gl.bound["element"]
             x == GlFetch(w.gl, w.gl.bound["element"], 1)
  <1>1. /\ MayDraw(len) /\ gl' = w.gl /\ asked' = asked /\ owned' = owned /\ version' = version
        /\ \A i \in Attrib : ~HeldBack(Now, i)
        /\ lib.ibo # 0 /\ gl.contents[e].len > 0
        /\ drawn' = [vertices |-> GlFetchVertices(w.gl, len), indices |-> x]
    BY DEF DrawElements, Becomes, Drawing
  <1>2. 0 \in 0 .. MaxLen /\ len \in 0 .. MaxLen
    BY ClientArraysAssumption DEF VertexCount
  <1>3. UploadsDone(NAttribs, Now, w, 0) /\ w.gl.bound = gl.bound
    BY <1>2, DrawingIs
  <1>4. Abstract!MayDraw(len)
    BY <1>1, MayDrawImplements
  <1>5. GlFetchVertices(w.gl, len) = [i \in Attrib |-> Abstract!Fetched(i)]
    BY <1>1, <1>2, FetchImplements
  <1>6. /\ MirrorIn(Now, asked) /\ \A t \in Target : asked.bound[t] \in owned \cup {0}
        /\ owned \subseteq Name
    BY IInvIs
  <1>7. e = asked.bound["element"] /\ e # 0 /\ e \in owned /\ e \in Name
    BY <1>1, <1>6, NowIs DEF MirrorIn, BoundIn, Target
  <1> HIDE DEF w
  <1>8. /\ w.gl.contents[e] = gl.contents[e]
        /\ \A n \in owned : w.gl.contents[n] = gl.contents[n]
    BY <1>3, <1>7, NowIs DEF UploadsDone, SameUse
  <1>9. x = <<gl.contents[e].of, gl.contents[e].version>>
    <2>1. gl.contents \in [Name -> Content]
      BY TypesNow DEF IInv
    <2>2. gl.contents[e] \in Content
      BY <1>7, <2>1
    <2>3. gl.contents[e].len \in Nat
      BY <2>2, ClientArraysAssumption DEF Content
    <2>4. ~ (gl.contents[e].len < 1)
      BY <1>1, <2>3
    <2>5. w.gl.bound["element"] = e
      BY <1>3
    <2> HIDE DEF e
    <2>6. x = GlFetch(w.gl, e, 1)
      BY <2>5
    <2> QED
      BY <1>7, <1>8, <2>4, <2>6 DEF GlFetch
  <1>10. Abstract!Contents(e) = <<gl.contents[e].of, gl.contents[e].version>>
    <2> HIDE DEF e
    <2> QED
      BY <1>7 DEF Abstract!Contents, Owned
  <1>11. [m \in Name |-> Owned(m)][asked.bound["element"]].len > 0
    <2> HIDE DEF e
    <2> QED
      BY <1>1, <1>7 DEF Owned
  <1>12. [m \in Name |-> Owned(m)]' = [m \in Name |-> Owned(m)]
    BY <1>1, <1>8, SameContents
  <1>13. x = Abstract!Contents(asked.bound["element"])
    BY <1>7, <1>9, <1>10, Zenon
  <1> HIDE DEF x, e
  <1>14. drawn' = [vertices |-> [i \in Abstract!Attrib |-> Abstract!Fetched(i)],
                   indices |-> Abstract!Contents(asked.bound["element"])]
    BY <1>1, <1>5, <1>13, AbstractConstants, Zenon
  <1>15. Abstract!DrawElements(len)
    BY <1>1, <1>4, <1>7, <1>11, <1>12, <1>14 DEF Abstract!DrawElements
  <1> QED
    BY <1>15, AbstractConstants DEF Abstract!Next

LEMMA StepImplements == IInv /\ [Next]_vars => [Abstract!Next]_(Abstract!vars)
  <1> SUFFICES ASSUME IInv, [Next]_vars
               PROVE  Abstract!Next \/ UNCHANGED Abstract!vars
    OBVIOUS
  <1>1. CASE UNCHANGED vars
    <2>1. [m \in Name |-> Owned(m)]' = [m \in Name |-> Owned(m)]
      BY <1>1, SameContents DEF vars
    <2>2. UNCHANGED Abstract!vars
      BY <1>1, <2>1 DEF vars, Abstract!vars
    <2> QED
      BY <2>2
  <1>2. CASE GenBuffers
    BY <1>2, GenBuffersImplements
  <1>3. ASSUME NEW n \in Name, DeleteBuffers(n) PROVE Abstract!Next
    BY <1>3, DeleteBuffersImplements
  <1>4. ASSUME NEW t \in Target, NEW n \in Name \cup {0}, BindBuffer(t, n) PROVE Abstract!Next
    BY <1>4, BindBufferImplements
  <1>5. ASSUME NEW t \in Target, BufferData(t) PROVE Abstract!Next
    BY <1>5, BufferDataImplements
  <1>6. ASSUME NEW i \in Attrib, NEW on \in BOOLEAN, SetEnabled(i, on) PROVE Abstract!Next
    BY <1>6, SetEnabledImplements
  <1>7. ASSUME NEW i \in Attrib, PointIntoBuffer(i) PROVE Abstract!Next
    <2> DEFINE g == GlVertexAttribPointer(gl, i)
    <2>1. g.contents = gl.contents
      BY GlVertexAttribPointerIs, IInvIs, TypesNow
    <2> HIDE DEF g
    <2>2. gl' = g
      BY <1>7 DEF PointIntoBuffer, g
    <2>3. gl'.contents = gl.contents
      BY <2>1, <2>2
    <2> QED
      BY <1>7, <2>3, PointImplements DEF PointIntoBuffer
  <1>8. ASSUME NEW i \in Attrib, PointIntoArray(i) PROVE Abstract!Next
    BY <1>8, PointImplements DEF PointIntoArray
  <1>9. CASE WriteMemory
    <2>1. [m \in Name |-> Owned(m)]' = [m \in Name |-> Owned(m)]
      BY <1>9, SameContents DEF WriteMemory
    <2>2. Abstract!WriteMemory
      BY <1>9, <2>1, AbstractConstants DEF WriteMemory, Abstract!WriteMemory
    <2> QED
      BY <2>2 DEF Abstract!Next
  <1>10. ASSUME NEW first \in 0 .. MaxLen, NEW count \in VertexCount, first + count <= MaxLen,
                DrawArrays(first, count)
         PROVE  Abstract!Next
    BY <1>10, DrawArraysImplements
  <1>11. ASSUME NEW len \in VertexCount, DrawElements(len) PROVE Abstract!Next
    BY <1>11, DrawElementsImplements
  <1>12. CASE DrawElementsFromArray
    <2>1. [m \in Name |-> Owned(m)]' = [m \in Name |-> Owned(m)]
      BY <1>12, SameContents DEF DrawElementsFromArray
    <2>2. asked.enabled \in [Attrib -> BOOLEAN] /\ 0 \in Attrib
      <3>1. asked.enabled \in [Attrib -> BOOLEAN]
        BY TypesNow DEF IInv
      <3>2. 0 \in Attrib
        BY ClientArraysAssumption DEF Attrib
      <3> QED
        BY <3>1, <3>2
    <2>3. asked.enabled = [asked.enabled EXCEPT ![0] = asked.enabled[0]]
      BY <2>2
    <2>4. asked.enabled[0] \in BOOLEAN
      BY <2>2
    <2>5. Abstract!SetEnabled(0, asked.enabled[0])
      BY <1>12, <2>1, <2>3, AbstractConstants DEF DrawElementsFromArray, Abstract!SetEnabled
    <2> QED
      BY <2>2, <2>4, <2>5, AbstractConstants DEF Abstract!Next
  <1> QED
    BY <1>1, <1>2, <1>3, <1>4, <1>5, <1>6, <1>7, <1>8, <1>9, <1>10, <1>11, <1>12, Zenon
    DEF Next, Call

(***************************************************************************)
(* What the server draws is what the application's own GL would have       *)
(* drawn, with any number of attributes and buffers and any drawings in    *)
(* between: each array as it is at the time of the call and as far as it   *)
(* is drawn, each buffer with what was last put into it (the uploads of    *)
(* gl_client/clientgles.c, defered_vertex_attrib_pointer).                 *)
(***************************************************************************)
THEOREM LibraryImplementsVertexArrays == Spec => RefinesVertexArrays
  BY InitImplements, StepImplements, IInvAlways, PTL
  DEF Spec, RefinesVertexArrays, Abstract!Spec
=============================================================================
