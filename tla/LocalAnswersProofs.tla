-------------------------- MODULE LocalAnswersProofs --------------------------
(***************************************************************************)
(* Proofs about module LocalAnswers, for strings and storage of any size:  *)
(* the strings of a cache are inside its storage and apart, no failure of  *)
(* a call is hidden from GetError, and no leftover of the server's tmp_buf *)
(* ends the program.                                                       *)
(***************************************************************************)
EXTENDS LocalAnswers, WellFoundedInduction, TLAPS

-----------------------------------------------------------------------------
(* Induction, and functions defined by it.                                 *)

LEMMA Least ==
  ASSUME NEW T, T \subseteq Nat, T # {}
  PROVE  \E x \in T : \A y \in T : x <= y
<1>1. PICK x \in T : \A y \in T : <<y, x>> \notin OpToRel(<, Nat)
  BY WFMin, NatLessThanWellFounded, Zenon
<1>2. ASSUME NEW y \in T
      PROVE  x <= y
  <2>1. x \in Nat /\ y \in Nat
    OBVIOUS
  <2>2. ~(y < x)
    BY <1>1, <2>1 DEF OpToRel
  <2> QED BY <2>1, <2>2
<1> QED BY <1>2

LEMMA Induction ==
  ASSUME NEW S, 0 \in S, \A n \in Nat : n \in S => n + 1 \in S
  PROVE  Nat \subseteq S
<1> SUFFICES ASSUME Nat \ S # {}
             PROVE  FALSE
  OBVIOUS
<1>1. Nat \ S \subseteq Nat
  OBVIOUS
<1>2. PICK x \in Nat \ S : \A y \in Nat \ S : x <= y
  BY <1>1, Least, Zenon
<1>3. x \in Nat /\ x # 0 /\ x - 1 \in Nat
  BY <1>2
<1>4. x - 1 \in S
  BY <1>2, <1>3
<1>5. (x - 1) + 1 \in S
  BY <1>3, <1>4
<1> QED BY <1>3, <1>5

(***************************************************************************)
(* There is the function that starts with e and goes on with F.            *)
(***************************************************************************)
Follows(g, n, e, F) == g[0] = e /\ \A i \in 1 .. n : g[i] = F[<<i, g[i - 1]>>]

LEMMA Recursion ==
  ASSUME NEW n \in Nat, NEW S, NEW e \in S, NEW F,
         \A i \in 1 .. n, x \in S : F[<<i, x>>] \in S
  PROVE  \E g \in [0 .. n -> S] : Follows(g, n, e, F)
<1> DEFINE T == {m \in Nat : m <= n => \E g \in [0 .. m -> S] : Follows(g, m, e, F)}
<1>1. 0 \in T
  <2> DEFINE g == [i \in 0 .. 0 |-> e]
  <2>1. g \in [0 .. 0 -> S] /\ Follows(g, 0, e, F)
    BY DEF Follows
  <2> QED BY <2>1
<1>2. ASSUME NEW m \in Nat, m \in T
      PROVE  m + 1 \in T
  <2> SUFFICES ASSUME m + 1 <= n
               PROVE  \E g \in [0 .. m + 1 -> S] : Follows(g, m + 1, e, F)
    OBVIOUS
  <2>1. PICK h \in [0 .. m -> S] : Follows(h, m, e, F)
    BY <1>2
  <2> DEFINE g == [i \in 0 .. m + 1 |-> IF i = m + 1 THEN F[<<m + 1, h[m]>>] ELSE h[i]]
  <2>2. h[m] \in S /\ m + 1 \in 1 .. n
    OBVIOUS
  <2>3. F[<<m + 1, h[m]>>] \in S
    BY <2>2
  <2>4. \A i \in 0 .. m + 1 : i # m + 1 => i \in 0 .. m
    OBVIOUS
  <2>5. g \in [0 .. m + 1 -> S]
    BY <2>3, <2>4
  <2>6. g[m + 1] = F[<<m + 1, h[m]>>] /\ \A i \in 0 .. m : g[i] = h[i]
    OBVIOUS
  <2> HIDE DEF g
  <2>7. g[0] = e
    BY <2>1, <2>6 DEF Follows
  <2>8. ASSUME NEW i \in 1 .. m + 1
        PROVE  g[i] = F[<<i, g[i - 1]>>]
    <3>1. i - 1 \in 0 .. m
      OBVIOUS
    <3>2. g[i - 1] = h[i - 1]
      BY <3>1, <2>6
    <3>3. CASE i = m + 1
      <4>1. i - 1 = m
        BY <3>3
      <4> QED BY <3>2, <3>3, <4>1, <2>6
    <3>4. CASE i # m + 1
      <4>1. i \in 0 .. m /\ i \in 1 .. m
        BY <3>4
      <4> QED BY <4>1, <3>2, <2>1, <2>6 DEF Follows
    <3> QED BY <3>3, <3>4
  <2> QED BY <2>5, <2>7, <2>8 DEF Follows
<1> HIDE DEF T
<1>3. Nat \subseteq T
  BY <1>1, <1>2, Induction
<1> QED BY <1>3 DEF T

-----------------------------------------------------------------------------
(* Doubling.                                                               *)

LEMMA GrownFits ==
  ASSUME NEW a \in Nat, a > 0, NEW needed \in Nat
  PROVE  Grown(a, needed) \in Nat /\ Grown(a, needed) >= needed /\ Grown(a, needed) > 0
<1> DEFINE D == CHOOSE g : g = [k \in 0 .. needed |-> IF k = 0 THEN a ELSE 2 * g[k - 1]]
           F == [q \in Nat \X Nat |-> 2 * q[2]]
           fits == {k \in 0 .. needed : D[k] >= needed}
           least == CHOOSE k \in fits : \A j \in fits : k <= j
<1>1. D = [k \in 0 .. needed |-> IF k = 0 THEN a ELSE 2 * D[k - 1]]
  <2>1. \A i \in 1 .. needed, x \in Nat : F[<<i, x>>] = 2 * x /\ F[<<i, x>>] \in Nat
    OBVIOUS
  <2> HIDE DEF F
  <2>2. PICK g \in [0 .. needed -> Nat] : Follows(g, needed, a, F)
    BY <2>1, Recursion
  <2>3. ASSUME NEW k \in 0 .. needed
        PROVE  g[k] = IF k = 0 THEN a ELSE 2 * g[k - 1]
    <3>1. CASE k = 0
      BY <3>1, <2>2 DEF Follows
    <3>2. CASE k # 0
      <4>1. k \in 1 .. needed /\ k - 1 \in 0 .. needed
        BY <3>2
      <4>2. g[k] = F[<<k, g[k - 1]>>] /\ g[k - 1] \in Nat
        BY <4>1, <2>2 DEF Follows
      <4> QED BY <4>1, <4>2, <3>2, <2>1
    <3> QED BY <3>1, <3>2
  <2>4. g = [k \in 0 .. needed |-> IF k = 0 THEN a ELSE 2 * g[k - 1]]
    BY <2>2, <2>3
  <2> QED BY <2>4
<1> HIDE DEF D
<1>2. ASSUME NEW k \in 0 .. needed
      PROVE  D[k] = IF k = 0 THEN a ELSE 2 * D[k - 1]
  BY <1>1
<1>3. \A k \in 0 .. needed : D[k] \in Nat /\ D[k] > k
  <2> DEFINE T == {k \in Nat : k <= needed => D[k] \in Nat /\ D[k] > k}
  <2>1. 0 \in T
    <3>1. D[0] = a
      BY <1>2
    <3> QED BY <3>1
  <2>2. ASSUME NEW k \in Nat, k \in T
        PROVE  k + 1 \in T
    <3> SUFFICES ASSUME k + 1 <= needed
                 PROVE  D[k + 1] \in Nat /\ D[k + 1] > k + 1
      OBVIOUS
    <3>1. k + 1 \in 0 .. needed /\ k + 1 # 0 /\ (k + 1) - 1 = k
      OBVIOUS
    <3>2. D[k + 1] = 2 * D[k]
      BY <3>1, <1>2
    <3>3. D[k] \in Nat /\ D[k] > k
      BY <2>2
    <3> QED BY <3>2, <3>3
  <2> HIDE DEF T
  <2>3. Nat \subseteq T
    BY <2>1, <2>2, Induction
  <2> QED BY <2>3 DEF T
<1>4. needed \in fits
  BY <1>3
<1>5. fits \subseteq Nat /\ \A k \in fits : k \in 0 .. needed /\ D[k] >= needed
  OBVIOUS
<1> HIDE DEF fits
<1>6. \E k \in fits : \A j \in fits : k <= j
  BY <1>4, <1>5, Least, Zenon
<1>7. least \in fits
  BY <1>6, Zenon
<1> HIDE DEF least
<1>8. D[least] \in Nat /\ D[least] >= needed /\ D[least] > 0
  BY <1>3, <1>5, <1>7
<1>9. Grown(a, needed) = D[least]
  BY DEF Grown, D, least, fits
<1> QED BY <1>8, <1>9

-----------------------------------------------------------------------------
(* Filling a cache.                                                        *)

LEMMA ItemsFacts ==
  ASSUME NEW p \in Protocol
  PROVE  /\ Len(Items(p)) \in Nat
         /\ \A i \in 1 .. Len(Items(p)) : Items(p)[i] \in Item(p)
         /\ \A f \in Item(p) : \E i \in 1 .. Len(Items(p)) : Items(p)[i] = f
         /\ \A i, j \in 1 .. Len(Items(p)) : Items(p)[i] = Items(p)[j] => i = j
<1>1. CASE p = "egl"
  <2>1. Items(p) = <<"CLIENT_APIS", "VENDOR", "VERSION", "EXTENSIONS">>
    BY <1>1 DEF Items
  <2>2. Len(Items(p)) = 4
    BY <2>1
  <2>3. \A i \in 1 .. 4 : i = 1 \/ i = 2 \/ i = 3 \/ i = 4
    OBVIOUS
  <2>4. /\ Items(p)[1] = "CLIENT_APIS" /\ Items(p)[2] = "VENDOR" /\ Items(p)[3] = "VERSION"
        /\ Items(p)[4] = "EXTENSIONS"
    BY <2>1
  <2>5. \A i, j \in 1 .. Len(Items(p)) : Items(p)[i] = Items(p)[j] => i = j
    BY <2>2, <2>3, <2>4
  <2> QED BY <2>2, <2>5 DEF Item
<1>2. CASE p = "gles"
  <2>1. Items(p) = <<"VENDOR", "RENDERER", "VERSION", "SHADING_LANGUAGE_VERSION", "EXTENSIONS">>
    BY <1>2 DEF Items
  <2>2. Len(Items(p)) = 5
    BY <2>1
  <2>3. \A i \in 1 .. 5 : i = 1 \/ i = 2 \/ i = 3 \/ i = 4 \/ i = 5
    OBVIOUS
  <2>4. /\ Items(p)[1] = "VENDOR" /\ Items(p)[2] = "RENDERER" /\ Items(p)[3] = "VERSION"
        /\ Items(p)[4] = "SHADING_LANGUAGE_VERSION" /\ Items(p)[5] = "EXTENSIONS"
    BY <2>1
  <2>5. \A i, j \in 1 .. Len(Items(p)) : Items(p)[i] = Items(p)[j] => i = j
    BY <2>2, <2>3, <2>4
  <2> QED BY <2>2, <2>5 DEF Item
<1> QED BY <1>1, <1>2 DEF Protocol

Storage(p) == [dpy : Display \cup {0}, block : Nat, allocated : Nat, nfilled : Nat,
               at : [Item(p) -> Pointer]]

End(a) == a.from + a.size

(***************************************************************************)
(* The first i strings lie one behind the other, each within its block.    *)
(***************************************************************************)
Filled(s, items, i) ==
  /\ s.nfilled <= s.allocated
  /\ s.allocated > 0
  /\ \A j \in 1 .. i : /\ End(s.at[items[j]]) <= s.nfilled
                        /\ End(s.at[items[j]]) <= s.at[items[j]].room
  /\ \A j, l \in 1 .. i : j < l => End(s.at[items[j]]) <= s.at[items[l]].from

LEMMA Sizes ==
  ASSUME NEW a \in Pointer
  PROVE  a.from \in Nat /\ a.size \in Nat /\ End(a) \in Nat
BY LocalAnswersAssumption DEF Pointer, End

LEMMA Registered ==
  ASSUME NEW p, NEW s \in Storage(p), s.allocated > 0, NEW f \in Item(p),
         NEW size \in {1, LongSize}, NEW moves
  PROVE  LET r == Register(s, f, size, moves)
         IN  /\ r \in Storage(p) /\ r.allocated > 0
             /\ r.nfilled = s.nfilled + size /\ r.nfilled <= r.allocated
             /\ r.at[f].from = s.nfilled /\ r.at[f].size = size /\ r.at[f].room = r.allocated
             /\ \A g \in Item(p) : g # f => r.at[g] = s.at[g]
<1> DEFINE a == Grown(s.allocated, s.nfilled + size)
           b == IF a # s.allocated /\ moves THEN s.block + 1 ELSE s.block
           q == [block |-> b, room |-> a, from |-> s.nfilled, size |-> size]
           r == Register(s, f, size, moves)
<1>1. /\ s.allocated \in Nat /\ s.nfilled \in Nat /\ s.block \in Nat /\ s.dpy \in Display \cup {0}
      /\ s.at \in [Item(p) -> Pointer]
  BY DEF Storage
<1>2. size \in Nat /\ size \in {0, 1, LongSize} /\ s.nfilled + size \in Nat
  BY <1>1, LocalAnswersAssumption
<1>3. a \in Nat /\ a >= s.nfilled + size /\ a > 0
  BY <1>1, <1>2, GrownFits
<1> HIDE DEF a
<1>4. b \in Nat
  BY <1>1
<1> HIDE DEF b
<1>5. q \in Pointer /\ q.from = s.nfilled /\ q.size = size /\ q.room = a
  BY <1>1, <1>2, <1>3, <1>4 DEF Pointer
<1> HIDE DEF q
<1>6. r = [s EXCEPT !.allocated = a, !.block = b, !.nfilled = @ + size, !.at[f] = q]
  BY DEF Register, a, b, q
<1>7. r = [dpy |-> s.dpy, block |-> b, allocated |-> a, nfilled |-> s.nfilled + size,
           at |-> [s.at EXCEPT ![f] = q]]
  BY <1>6 DEF Storage
<1> HIDE DEF r
<1>8. [s.at EXCEPT ![f] = q] \in [Item(p) -> Pointer]
  BY <1>1, <1>5
<1>9. r \in Storage(p)
  BY <1>1, <1>2, <1>3, <1>4, <1>7, <1>8 DEF Storage
<1>10. r.at = [s.at EXCEPT ![f] = q] /\ r.allocated = a /\ r.nfilled = s.nfilled + size
  BY <1>7
<1>11. r.at[f] = q /\ \A g \in Item(p) : g # f => r.at[g] = s.at[g]
  BY <1>1, <1>10
<1> QED BY <1>1, <1>2, <1>3, <1>5, <1>9, <1>10, <1>11 DEF r

LEMMA RegisteredNext ==
  ASSUME NEW p \in Protocol, NEW s \in Storage(p), NEW i \in Nat, i < Len(Items(p)),
         Filled(s, Items(p), i), NEW size \in {1, LongSize}, NEW moves
  PROVE  Filled(Register(s, Items(p)[i + 1], size, moves), Items(p), i + 1)
<1> DEFINE items == Items(p)
           r == Register(s, items[i + 1], size, moves)
<1>1. /\ Len(items) \in Nat
      /\ \A k \in 1 .. Len(items) : items[k] \in Item(p)
      /\ \A k, j \in 1 .. Len(items) : items[k] = items[j] => k = j
  BY ItemsFacts
<1> HIDE DEF items
<1>2. i + 1 \in 1 .. Len(items) /\ \A j \in 1 .. i : j \in 1 .. Len(items) /\ j # i + 1
  BY <1>1 DEF items
<1>3. items[i + 1] \in Item(p)
  BY <1>1, <1>2
<1>4. /\ r \in Storage(p) /\ r.allocated > 0
      /\ r.nfilled = s.nfilled + size /\ r.nfilled <= r.allocated
      /\ r.at[items[i + 1]].from = s.nfilled /\ r.at[items[i + 1]].size = size
      /\ r.at[items[i + 1]].room = r.allocated
      /\ \A g \in Item(p) : g # items[i + 1] => r.at[g] = s.at[g]
  BY <1>3, Registered DEF Filled
<1> HIDE DEF r
<1>5. s.nfilled \in Nat /\ size \in Nat
  BY LocalAnswersAssumption DEF Storage
<1>6. \A j \in 1 .. i : r.at[items[j]] = s.at[items[j]]
  BY <1>1, <1>2, <1>4
<1>7. End(r.at[items[i + 1]]) = s.nfilled + size
  BY <1>4 DEF End
<1>8. \A j \in 1 .. i : End(r.at[items[j]]) \in Nat /\ End(r.at[items[j]]) <= s.nfilled
  <2>1. \A j \in 1 .. i : s.at[items[j]] \in Pointer
    BY <1>1, <1>2 DEF Storage
  <2> QED BY <2>1, <1>6, Sizes DEF Filled, items
<1>9. \A j \in 1 .. i + 1 : j \in 1 .. i \/ j = i + 1
  OBVIOUS
<1>10. \A j \in 1 .. i + 1 : End(r.at[items[j]]) <= r.nfilled
  <2>1. \A j \in 1 .. i : End(r.at[items[j]]) <= r.nfilled
    BY <1>4, <1>5, <1>8
  <2> QED BY <2>1, <1>4, <1>5, <1>7, <1>9
<1>11. ASSUME NEW j \in 1 .. i + 1, NEW l \in 1 .. i + 1, j < l
       PROVE  End(r.at[items[j]]) <= r.at[items[l]].from
  <2>1. j \in 1 .. i
    BY <1>11
  <2>2. CASE l \in 1 .. i
    BY <2>1, <2>2, <1>6, <1>11 DEF Filled, items
  <2>3. CASE l = i + 1
    BY <2>1, <2>3, <1>4, <1>8
  <2> QED BY <2>2, <2>3, <1>9
<1>12. r.nfilled <= r.allocated /\ r.allocated > 0
  BY <1>4
<1>13. \A j \in 1 .. i + 1 : End(r.at[items[j]]) <= r.at[items[j]].room
  <2>1. \A j \in 1 .. i : End(r.at[items[j]]) <= r.at[items[j]].room
    BY <1>6 DEF Filled, items
  <2> QED BY <2>1, <1>4, <1>7, <1>9
<1>14. Filled(r, items, i + 1)
  BY <1>10, <1>11, <1>12, <1>13 DEF Filled
<1> QED BY <1>14 DEF r, items

Allocated(p, dpy) == [NoStorage(p) EXCEPT !.dpy = dpy, !.block = 1, !.allocated = InitialSize]

LEMMA AllocatedFilled ==
  ASSUME NEW p, NEW dpy \in Display
  PROVE  /\ Allocated(p, dpy) \in Storage(p) /\ Allocated(p, dpy).allocated > 0
         /\ Allocated(p, dpy).nfilled = 0 /\ Allocated(p, dpy).nfilled <= Allocated(p, dpy).allocated
<1> DEFINE at == [f \in Item(p) |-> NoPointer]  s == NoStorage(p)
           r == [dpy |-> dpy, block |-> 1, allocated |-> InitialSize, nfilled |-> 0, at |-> at]
<1>1. NoPointer \in Pointer
  BY DEF NoPointer, Pointer
<1>2. at \in [Item(p) -> Pointer]
  BY <1>1
<1>3. s = [dpy |-> 0, block |-> 0, allocated |-> 0, nfilled |-> 0, at |-> at]
  BY DEF NoStorage
<1>9. s \in Storage(p) /\ s.nfilled = 0 /\ s.at = at
  BY <1>2, <1>3 DEF Storage
<1> HIDE DEF at, s
<1> DEFINE q == [s EXCEPT !.dpy = dpy, !.block = 1, !.allocated = InitialSize]
<1>10. q = [s EXCEPT !.dpy = dpy, !.block = 1, !.allocated = InitialSize]
  OBVIOUS
<1> HIDE DEF q
<1>4. q = [dpy |-> dpy, block |-> 1, allocated |-> InitialSize, nfilled |-> s.nfilled, at |-> s.at]
  BY <1>9, <1>10 DEF Storage
<1>5. Allocated(p, dpy) = r
  BY <1>4, <1>9 DEF Allocated, s, q
<1>6. InitialSize \in Nat /\ InitialSize > 0
  BY LocalAnswersAssumption
<1>7. r \in Storage(p)
  BY <1>2, <1>6 DEF Storage
<1>8. r.allocated = InitialSize /\ r.nfilled = 0
  OBVIOUS
<1> QED BY <1>5, <1>6, <1>7, <1>8

LEMMA PopulatedFilled ==
  ASSUME NEW p \in Protocol, NEW dpy \in Display, NEW long, NEW moves
  PROVE  /\ Populated(p, dpy, long, moves) \in Storage(p)
         /\ Filled(Populated(p, dpy, long, moves), Items(p), Len(Items(p)))
<1> DEFINE empty == Allocated(p, dpy)
           items == Items(p)
           n == Len(items)
           size(i) == IF items[i] \in long THEN LongSize ELSE 1
           S == {s \in Storage(p) : s.allocated > 0}
           F == [q \in (1 .. n) \X S |-> Register(q[2], items[q[1]], size(q[1]), moves)]
           D == CHOOSE g : g = [i \in 0 .. n |->
                  IF i = 0 THEN empty
                  ELSE Register(g[i - 1], items[i], IF items[i] \in long THEN LongSize ELSE 1, moves)]
<1>1. n \in Nat /\ \A i \in 1 .. n : items[i] \in Item(p)
  BY ItemsFacts
<1>3. empty \in Storage(p) /\ empty.allocated > 0 /\ empty.nfilled = 0 /\ empty.nfilled <= empty.allocated
  BY AllocatedFilled
<1>4. \A i \in 1 .. n : size(i) \in {1, LongSize}
  OBVIOUS
<1>5. ASSUME NEW i \in 1 .. n, NEW s \in S
      PROVE  F[<<i, s>>] = Register(s, items[i], size(i), moves) /\ F[<<i, s>>] \in S
  <2>1. <<i, s>> \in (1 .. n) \X S
    OBVIOUS
  <2>2. F[<<i, s>>] = Register(s, items[i], size(i), moves)
    BY <2>1
  <2>3. s \in Storage(p) /\ s.allocated > 0 /\ items[i] \in Item(p) /\ size(i) \in {1, LongSize}
    BY <1>1, <1>4
  <2> HIDE DEF size, items
  <2>4. Register(s, items[i], size(i), moves) \in S
    BY <2>3, Registered
  <2> QED BY <2>2, <2>4
<1> HIDE DEF empty, F
<1>6. D = [i \in 0 .. n |-> IF i = 0 THEN empty ELSE Register(D[i - 1], items[i], size(i), moves)]
  <2>1. empty \in S
    BY <1>3
  <2> HIDE DEF S, n, items
  <2>2. PICK g \in [0 .. n -> S] : Follows(g, n, empty, F)
    BY <2>1, <1>1, <1>5, Recursion
  <2>3. ASSUME NEW i \in 0 .. n
        PROVE  g[i] = IF i = 0 THEN empty ELSE Register(g[i - 1], items[i], size(i), moves)
    <3>1. CASE i = 0
      BY <3>1, <2>2 DEF Follows
    <3>2. CASE i # 0
      <4>1. i \in 1 .. n /\ i - 1 \in 0 .. n
        BY <3>2, <1>1
      <4>2. g[i] = F[<<i, g[i - 1]>>] /\ g[i - 1] \in S
        BY <4>1, <2>2 DEF Follows
      <4> QED BY <4>1, <4>2, <3>2, <1>5
    <3> QED BY <3>1, <3>2
  <2>4. g = [i \in 0 .. n |-> IF i = 0 THEN empty ELSE Register(g[i - 1], items[i], size(i), moves)]
    BY <2>2, <2>3
  <2> QED BY <2>4
<1> HIDE DEF D
<1>7. \A i \in 0 .. n : D[i] = IF i = 0 THEN empty ELSE Register(D[i - 1], items[i], size(i), moves)
  BY <1>6
<1>8. \A i \in 0 .. n : D[i] \in Storage(p) /\ Filled(D[i], items, i)
  <2> DEFINE T == {i \in Nat : i <= n => D[i] \in Storage(p) /\ Filled(D[i], items, i)}
  <2>1. 0 \in T
    <3>1. D[0] = empty
      BY <1>1, <1>7
    <3>2. Filled(empty, items, 0)
      BY <1>3 DEF Filled
    <3> QED BY <3>1, <3>2, <1>3
  <2>2. ASSUME NEW i \in Nat, i \in T
        PROVE  i + 1 \in T
    <3> SUFFICES ASSUME i + 1 <= n
                 PROVE  D[i + 1] \in Storage(p) /\ Filled(D[i + 1], items, i + 1)
      OBVIOUS
    <3>1. i + 1 \in 0 .. n /\ i + 1 \in 1 .. n /\ i + 1 # 0 /\ (i + 1) - 1 = i /\ i < n
      BY <1>1
    <3>2. D[i + 1] = Register(D[i], items[i + 1], size(i + 1), moves)
      BY <3>1, <1>7
    <3>3. D[i] \in Storage(p) /\ Filled(D[i], items, i)
      BY <2>2, <3>1
    <3>4. size(i + 1) \in {1, LongSize} /\ items[i + 1] \in Item(p) /\ D[i].allocated > 0
      BY <3>1, <3>3, <1>1, <1>4 DEF Filled
    <3> HIDE DEF size
    <3>5. Filled(Register(D[i], items[i + 1], size(i + 1), moves), items, i + 1)
      BY <3>1, <3>3, <3>4, RegisteredNext
    <3>6. Register(D[i], items[i + 1], size(i + 1), moves) \in Storage(p)
      BY <3>3, <3>4, Registered
    <3> QED BY <3>2, <3>5, <3>6
  <2> HIDE DEF T
  <2>3. Nat \subseteq T
    BY <2>1, <2>2, Induction
  <2> QED BY <2>3, <1>1 DEF T
<1>9. Populated(p, dpy, long, moves) = D[n]
  BY DEF Populated, D, empty, Allocated
<1>10. D[n] \in Storage(p) /\ Filled(D[n], items, n)
  BY <1>1, <1>8
<1> QED BY <1>9, <1>10

(***************************************************************************)
(* When the server knows every name, no word of "success" is 0.            *)
(***************************************************************************)
LEMMA AllKnown ==
  ASSUME NEW p \in Protocol, success \in BOOLEAN
  PROVE  AllSucceed(p, Item(p))
<1> DEFINE items == Items(p)
           n == Len(items)
           known == Item(p)
           keeps(i) == p = "egl" /\ items[i] = "EXTENSIONS"
           answers(i) == (p = "egl" /\ items[i] # "VENDOR") \/ items[i] \in known
           F == [q \in (1 .. n) \X BOOLEAN |-> IF keeps(q[1]) THEN q[2] ELSE answers(q[1])]
           W == CHOOSE w : w = [i \in 0 .. n |->
                  IF i = 0 THEN success
                  ELSE IF p = "egl" /\ items[i] = "EXTENSIONS" THEN w[i - 1]
                  ELSE (p = "egl" /\ items[i] # "VENDOR") \/ items[i] \in known]
<1>1. n \in Nat /\ \A i \in 1 .. n : items[i] \in known
  BY ItemsFacts
<1>2. \A i \in 1 .. n : keeps(i) => i - 1 \in 1 .. n /\ ~keeps(i - 1)
  <2>1. CASE p = "egl"
    <3>1. items = <<"CLIENT_APIS", "VENDOR", "VERSION", "EXTENSIONS">>
      BY <2>1 DEF Items
    <3>2. n = 4 /\ items[1] = "CLIENT_APIS" /\ items[2] = "VENDOR" /\ items[3] = "VERSION"
      BY <3>1
    <3> HIDE DEF items
    <3>3. \A i \in 1 .. 4 : i = 1 \/ i = 2 \/ i = 3 \/ i = 4
      OBVIOUS
    <3>4. \A i \in 1 .. n : keeps(i) => i = 4
      BY <3>2, <3>3
    <3>5. 4 - 1 = 3 /\ 3 \in 1 .. n
      BY <3>2
    <3>6. ~keeps(3)
      BY <3>2
    <3> QED BY <3>4, <3>5, <3>6
  <2>2. CASE p # "egl"
    BY <2>2
  <2> QED BY <2>1, <2>2
<1>3. \A i \in 1 .. n : keeps(i) \in BOOLEAN /\ answers(i) \in BOOLEAN
  OBVIOUS
<1>4. \A i \in 1 .. n : answers(i) = TRUE
  BY <1>1
<1> HIDE DEF keeps, answers, items, n
<1>5. ASSUME NEW i \in 1 .. n, NEW x \in BOOLEAN
      PROVE  F[<<i, x>>] = (IF keeps(i) THEN x ELSE answers(i)) /\ F[<<i, x>>] \in BOOLEAN
  <2>1. <<i, x>> \in (1 .. n) \X BOOLEAN
    OBVIOUS
  <2>2. F[<<i, x>>] = IF keeps(i) THEN x ELSE answers(i)
    BY <2>1
  <2>3. (IF keeps(i) THEN x ELSE answers(i)) \in BOOLEAN
    BY <1>3
  <2> QED BY <2>2, <2>3
<1> HIDE DEF F
<1>6. PICK g \in [0 .. n -> BOOLEAN] : Follows(g, n, success, F)
  BY <1>1, <1>5, Recursion
<1>7. ASSUME NEW i \in 0 .. n
      PROVE  g[i] = IF i = 0 THEN success ELSE IF keeps(i) THEN g[i - 1] ELSE answers(i)
  <2>1. CASE i = 0
    BY <2>1, <1>6 DEF Follows
  <2>2. CASE i # 0
    <3>1. i \in 1 .. n /\ i - 1 \in 0 .. n
      BY <2>2, <1>1
    <3>2. g[i] = F[<<i, g[i - 1]>>] /\ g[i - 1] \in BOOLEAN
      BY <3>1, <1>6 DEF Follows
    <3>3. F[<<i, g[i - 1]>>] = IF keeps(i) THEN g[i - 1] ELSE answers(i)
      BY <3>1, <3>2, <1>5
    <3> QED BY <3>2, <3>3, <2>2
  <2> QED BY <2>1, <2>2
<1>8. g = [i \in 0 .. n |-> IF i = 0 THEN success ELSE IF keeps(i) THEN g[i - 1] ELSE answers(i)]
  BY <1>6, <1>7
<1>9. W = [i \in 0 .. n |-> IF i = 0 THEN success ELSE IF keeps(i) THEN W[i - 1] ELSE answers(i)]
  BY <1>8 DEF keeps, answers
<1> HIDE DEF W
<1>10. ASSUME NEW i \in 1 .. n
       PROVE  W[i] = TRUE
  <2>1. \A j \in 1 .. n : ~keeps(j) => W[j] = TRUE
    <3>1. \A j \in 1 .. n : j \in 0 .. n /\ j # 0
      BY <1>1
    <3> QED BY <3>1, <1>4, <1>9
  <2>2. CASE keeps(i)
    <3>1. i \in 0 .. n /\ i # 0
      BY <1>1
    <3>2. W[i] = W[i - 1]
      BY <3>1, <2>2, <1>9
    <3> QED BY <3>2, <2>1, <2>2, <1>2
  <2> QED BY <2>1, <2>2
<1>11. Successes(p, known) = [i \in 1 .. n |-> W[i]]
  BY DEF Successes, W, n, items
<1>12. \A i \in 1 .. n : Successes(p, known)[i]
  BY <1>10, <1>11
<1> QED BY <1>12 DEF AllSucceed, n, items

-----------------------------------------------------------------------------
(* The inductive invariant.                                                *)

(***************************************************************************)
(* Where the error of a protocol's last call is, to be asked for.  Only a  *)
(* failed write puts another error over it, and no write succeeds then.    *)
(***************************************************************************)
ErrorsInv ==
  \A p \in Protocol :
    /\ last[p] = "local" => own[p] = "local" \/ (own[p] = "write" /\ ~connected)
    /\ last[p] = "remote" =>
         server[p] = "remote" /\ (own[p] = "none" \/ (own[p] = "write" /\ ~connected))
    /\ last[p] = "write" => own[p] = "write" /\ ~connected

CachesInv == strings = [p \in Protocol |-> strings[p]] /\ CopiesIntact

IInv == TypeOK /\ ErrorsInv /\ LastErrorReported /\ CachesInv /\ NotEndedByStaleWord

LEMMA PopulatedIntact ==
  ASSUME NEW p \in Protocol, NEW dpy \in Display, NEW long, NEW moves
  PROVE  LET s == Populated(p, dpy, long, moves)
         IN  /\ s \in Storage(p) /\ s.nfilled <= s.allocated
             /\ \A f, g \in Item(p) :
                  /\ s.at[f].from + s.at[f].size <= s.at[f].room
                  /\ f # g => Apart(s.at[f], s.at[g])
<1> DEFINE s == Populated(p, dpy, long, moves)
           items == Items(p)
           n == Len(items)
<1>1. s \in Storage(p) /\ Filled(s, items, n)
  BY PopulatedFilled
<1>2. /\ n \in Nat
      /\ \A f \in Item(p) : \E i \in 1 .. n : items[i] = f
  BY ItemsFacts
<1> HIDE DEF s, items, n
<1>3. s.nfilled \in Nat /\ s.allocated \in Nat /\ \A f \in Item(p) : s.at[f] \in Pointer
  BY <1>1 DEF Storage
<1>4. ASSUME NEW f \in Item(p)
      PROVE  s.at[f].from + s.at[f].size <= s.at[f].room
  BY <1>1, <1>2 DEF Filled, End
<1>5. ASSUME NEW f \in Item(p), NEW g \in Item(p), f # g
      PROVE  Apart(s.at[f], s.at[g])
  <2>1. PICK i \in 1 .. n : items[i] = f
    BY <1>2
  <2>2. PICK j \in 1 .. n : items[j] = g
    BY <1>2
  <2>3. i < j \/ j < i
    BY <2>1, <2>2, <1>2, <1>5
  <2>4. CASE i < j
    BY <2>1, <2>2, <2>4, <1>1 DEF Filled, Apart, End
  <2>5. CASE j < i
    BY <2>1, <2>2, <2>5, <1>1 DEF Filled, Apart, End
  <2> QED BY <2>3, <2>4, <2>5
<1>6. s.nfilled <= s.allocated
  BY <1>1 DEF Filled
<1> QED BY <1>1, <1>4, <1>5, <1>6 DEF s

-----------------------------------------------------------------------------
(* The steps.                                                              *)

(***************************************************************************)
(* A result leaves nothing reported, and is what the protocol reports.     *)
(***************************************************************************)
LEMMA ResultFacts ==
  ASSUME TypeOK, NEW p \in Protocol, NEW e \in Error \cup {"unexplained"}, Result(p, e)
  PROVE  /\ last' \in [Protocol -> Error \cup {"unexplained"}]
         /\ \A q \in Protocol : last'[q] = IF q = p THEN e ELSE last[q]
         /\ reported' \in [p : Protocol, error : Error, of : Error \cup {"unexplained"}]
         /\ LastErrorReported'
<1>1. last' = Put(last, p, e) /\ reported' = Nothing
  BY DEF Result
<1>2. last \in [Protocol -> Error \cup {"unexplained"}]
  BY DEF TypeOK
<1>3. /\ last' \in [Protocol -> Error \cup {"unexplained"}]
      /\ \A q \in Protocol : last'[q] = IF q = p THEN e ELSE last[q]
  BY <1>1, <1>2 DEF Put
<1>4. reported' \in [p : Protocol, error : Error, of : Error \cup {"unexplained"}] /\ reported'.of = "none"
  BY <1>1 DEF Nothing, Protocol, Error
<1> QED BY <1>3, <1>4 DEF LastErrorReported

(***************************************************************************)
(* Calls that do not touch the caches.                                     *)
(***************************************************************************)
LEMMA CachesKept ==
  ASSUME TypeOK, CachesInv, UNCHANGED strings
  PROVE  /\ CachesInv'
         /\ \A p \in Protocol :
              strings'[p] \in [dpy : Display \cup {0}, block : Nat, allocated : Nat,
                               nfilled : Nat, at : [Item(p) -> Pointer]]
              /\ strings'[p].nfilled <= strings'[p].allocated
BY DEF CachesInv, CopiesIntact, TypeOK

LEMMA ForwardStep ==
  ASSUME IInv, ended = "no", NEW p \in Protocol, NEW uses_tmp_buf \in BOOLEAN,
         NEW e \in {"none", "remote"}, Forward(p, uses_tmp_buf, e)
  PROVE  IInv'
<1>1. TypeOK /\ ErrorsInv /\ CachesInv
  BY DEF IInv
<1>2. /\ connected /\ own' = Put(own, p, "none") /\ server' = Put(server, p, ServerError(p, e))
      /\ success' \in (IF uses_tmp_buf THEN BOOLEAN ELSE {success})
      /\ Result(p, e) /\ UNCHANGED <<connected, strings, client_ext, ended>>
  BY DEF Forward
<1>3. own \in [Protocol -> Error] /\ server \in [Protocol -> {"none", "remote"}]
  BY <1>1 DEF TypeOK
<1>4. ServerError(p, e) \in {"none", "remote"} /\ (e = "remote" => ServerError(p, e) = "remote")
  BY <1>3 DEF ServerError
<1>5. /\ own' \in [Protocol -> Error]
      /\ \A q \in Protocol : own'[q] = IF q = p THEN "none" ELSE own[q]
  BY <1>2, <1>3 DEF Put, Error
<1>6. /\ server' \in [Protocol -> {"none", "remote"}]
      /\ \A q \in Protocol : server'[q] = IF q = p THEN ServerError(p, e) ELSE server[q]
  BY <1>2, <1>3, <1>4 DEF Put
<1>7. /\ last' \in [Protocol -> Error \cup {"unexplained"}]
      /\ \A q \in Protocol : last'[q] = IF q = p THEN e ELSE last[q]
      /\ reported' \in [p : Protocol, error : Error, of : Error \cup {"unexplained"}]
      /\ LastErrorReported'
  BY <1>1, <1>2, ResultFacts DEF Error
<1>8. success' \in BOOLEAN
  BY <1>1, <1>2 DEF TypeOK
<1>9. TypeOK' /\ CachesInv'
  BY <1>1, <1>2, <1>5, <1>6, <1>7, <1>8, CachesKept DEF TypeOK
<1>10. ErrorsInv'
  BY <1>1, <1>2, <1>4, <1>5, <1>6, <1>7 DEF ErrorsInv
<1>11. NotEndedByStaleWord'
  BY <1>2 DEF NotEndedByStaleWord
<1> QED BY <1>7, <1>9, <1>10, <1>11 DEF IInv

LEMMA ForwardFailsStep ==
  ASSUME IInv, ended = "no", NEW p \in Protocol, NEW replies \in BOOLEAN, NEW data \in BOOLEAN,
         ForwardFails(p, replies, data)
  PROVE  IInv'
<1>1. TypeOK /\ ErrorsInv /\ CachesInv
  BY DEF IInv
<1>2. /\ ~connected
      /\ own' = [q \in Protocol |-> IF q = p \/ (data /\ q = "egl") THEN "write" ELSE own[q]]
      /\ Result(p, "write") /\ UNCHANGED <<server, success, connected, strings, client_ext, ended>>
  BY DEF ForwardFails
<1>3. own \in [Protocol -> Error]
  BY <1>1 DEF TypeOK
<1>4. own' \in [Protocol -> Error] /\ own'[p] = "write"
      /\ \A q \in Protocol : own'[q] = own[q] \/ own'[q] = "write"
  BY <1>2, <1>3 DEF Error
<1>5. /\ last' \in [Protocol -> Error \cup {"unexplained"}]
      /\ \A q \in Protocol : last'[q] = IF q = p THEN "write" ELSE last[q]
      /\ reported' \in [p : Protocol, error : Error, of : Error \cup {"unexplained"}]
      /\ LastErrorReported'
  BY <1>1, <1>2, ResultFacts DEF Error
<1>6. TypeOK' /\ CachesInv'
  BY <1>1, <1>2, <1>4, <1>5, CachesKept DEF TypeOK
<1>7. ErrorsInv'
  BY <1>1, <1>2, <1>4, <1>5 DEF ErrorsInv
<1>8. NotEndedByStaleWord'
  BY <1>2 DEF NotEndedByStaleWord
<1> QED BY <1>5, <1>6, <1>7, <1>8 DEF IInv

(***************************************************************************)
(* The library's own refusals, with or without a reply.                    *)
(***************************************************************************)
LEMMA RefuseStep ==
  ASSUME IInv, ended = "no", NEW p \in Protocol, Refuse(p) \/ (p = "gles" /\ RefuseReply)
  PROVE  IInv'
<1>1. TypeOK /\ ErrorsInv /\ CachesInv
  BY DEF IInv
<1>2. /\ own' = Put(own, p, "local") /\ Result(p, "local")
      /\ success' \in {success} \cup BOOLEAN
      /\ UNCHANGED <<server, connected, strings, client_ext, ended>>
  BY DEF Refuse, RefuseReply
<1>3. own \in [Protocol -> Error]
  BY <1>1 DEF TypeOK
<1>4. /\ own' \in [Protocol -> Error]
      /\ \A q \in Protocol : own'[q] = IF q = p THEN "local" ELSE own[q]
  BY <1>2, <1>3 DEF Put, Error
<1>5. /\ last' \in [Protocol -> Error \cup {"unexplained"}]
      /\ \A q \in Protocol : last'[q] = IF q = p THEN "local" ELSE last[q]
      /\ reported' \in [p : Protocol, error : Error, of : Error \cup {"unexplained"}]
      /\ LastErrorReported'
  BY <1>1, <1>2, ResultFacts DEF Error
<1>6. success' \in BOOLEAN
  BY <1>1, <1>2 DEF TypeOK
<1>7. TypeOK' /\ CachesInv'
  BY <1>1, <1>2, <1>4, <1>5, <1>6, CachesKept DEF TypeOK
<1>8. ErrorsInv'
  BY <1>1, <1>2, <1>4, <1>5 DEF ErrorsInv
<1>9. NotEndedByStaleWord'
  BY <1>2 DEF NotEndedByStaleWord
<1> QED BY <1>5, <1>7, <1>8, <1>9 DEF IInv

LEMMA DropStep ==
  ASSUME IInv, ended = "no", NEW p \in Protocol, DropCall(p)
  PROVE  IInv'
<1>1. TypeOK /\ ErrorsInv /\ CachesInv
  BY DEF IInv
<1>2. Result(p, "none") /\ UNCHANGED <<own, server, success, connected, strings, client_ext, ended>>
  BY DEF DropCall
<1>3. /\ last' \in [Protocol -> Error \cup {"unexplained"}]
      /\ \A q \in Protocol : last'[q] = IF q = p THEN "none" ELSE last[q]
      /\ reported' \in [p : Protocol, error : Error, of : Error \cup {"unexplained"}]
      /\ LastErrorReported'
  BY <1>1, <1>2, ResultFacts DEF Error
<1>4. TypeOK' /\ CachesInv'
  BY <1>1, <1>2, <1>3, CachesKept DEF TypeOK
<1>5. ErrorsInv'
  BY <1>1, <1>2, <1>3 DEF ErrorsInv
<1>6. NotEndedByStaleWord'
  BY <1>2 DEF NotEndedByStaleWord
<1> QED BY <1>3, <1>4, <1>5, <1>6 DEF IInv

(***************************************************************************)
(* What a GetError finds.                                                  *)
(***************************************************************************)
LEMMA ReportFacts ==
  ASSUME TypeOK, ErrorsInv, NEW p \in Protocol, NEW e \in Error, Report(p, e),
         UNCHANGED connected,
         last[p] \notin {"none", "unexplained"} =>
           e # "none" /\ (p = "egl" /\ connected => e = last[p])
  PROVE  /\ last' \in [Protocol -> Error \cup {"unexplained"}]
         /\ \A q \in Protocol : last'[q] = IF q = p THEN "none" ELSE last[q]
         /\ reported' \in [p : Protocol, error : Error, of : Error \cup {"unexplained"}]
         /\ LastErrorReported'
<1>1. reported' = [p |-> p, error |-> e, of |-> last[p]] /\ last' = Put(last, p, "none")
  BY DEF Report
<1>2. last \in [Protocol -> Error \cup {"unexplained"}]
  BY DEF TypeOK
<1>3. /\ last' \in [Protocol -> Error \cup {"unexplained"}]
      /\ \A q \in Protocol : last'[q] = IF q = p THEN "none" ELSE last[q]
  BY <1>1, <1>2 DEF Put, Error
<1>4. reported' \in [p : Protocol, error : Error, of : Error \cup {"unexplained"}]
  BY <1>1, <1>2
<1>5. reported'.p = p /\ reported'.error = e /\ reported'.of = last[p]
  BY <1>1
<1>6. LastErrorReported'
  BY <1>5 DEF LastErrorReported
<1> QED BY <1>3, <1>4, <1>6

LEMMA GetOwnStep ==
  ASSUME IInv, ended = "no", NEW p \in Protocol, GetOwnError(p)
  PROVE  IInv'
<1>1. TypeOK /\ ErrorsInv /\ CachesInv
  BY DEF IInv
<1>2. /\ own[p] # "none" /\ Report(p, own[p])
      /\ UNCHANGED <<own, server, success, connected, strings, client_ext, ended>>
  BY DEF GetOwnError
<1>3. own[p] \in Error /\ last[p] \in Error \cup {"unexplained"}
  BY <1>1 DEF TypeOK
<1>4. last[p] \notin {"none", "unexplained"} => (p = "egl" /\ connected => own[p] = last[p])
  BY <1>1, <1>2, <1>3 DEF ErrorsInv, Error
<1>5. /\ last' \in [Protocol -> Error \cup {"unexplained"}]
      /\ \A q \in Protocol : last'[q] = IF q = p THEN "none" ELSE last[q]
      /\ reported' \in [p : Protocol, error : Error, of : Error \cup {"unexplained"}]
      /\ LastErrorReported'
  BY <1>1, <1>2, <1>3, <1>4, ReportFacts
<1>6. TypeOK' /\ CachesInv'
  BY <1>1, <1>2, <1>5, CachesKept DEF TypeOK
<1>7. ErrorsInv'
  BY <1>1, <1>2, <1>5 DEF ErrorsInv
<1>8. NotEndedByStaleWord'
  BY <1>2 DEF NotEndedByStaleWord
<1> QED BY <1>5, <1>6, <1>7, <1>8 DEF IInv

LEMMA GetServerStep ==
  ASSUME IInv, ended = "no", NEW p \in Protocol, GetServerError(p)
  PROVE  IInv'
<1>1. TypeOK /\ ErrorsInv /\ CachesInv
  BY DEF IInv
<1>2. /\ own[p] = "none" /\ connected /\ Report(p, server[p]) /\ server' = Put(server, p, "none")
      /\ success' \in BOOLEAN /\ UNCHANGED <<own, connected, strings, client_ext, ended>>
  BY DEF GetServerError
<1>3. /\ server \in [Protocol -> {"none", "remote"}] /\ server[p] \in Error
      /\ last[p] \in Error \cup {"unexplained"}
  BY <1>1 DEF TypeOK, Error
<1>4. last[p] \notin {"none", "unexplained"} => server[p] # "none" /\ server[p] = last[p]
  BY <1>1, <1>2, <1>3 DEF ErrorsInv, Error
<1>5. /\ last' \in [Protocol -> Error \cup {"unexplained"}]
      /\ \A q \in Protocol : last'[q] = IF q = p THEN "none" ELSE last[q]
      /\ reported' \in [p : Protocol, error : Error, of : Error \cup {"unexplained"}]
      /\ LastErrorReported'
  BY <1>1, <1>2, <1>3, <1>4, ReportFacts
<1>6. /\ server' \in [Protocol -> {"none", "remote"}]
      /\ \A q \in Protocol : server'[q] = IF q = p THEN "none" ELSE server[q]
  BY <1>2, <1>3 DEF Put
<1>7. TypeOK' /\ CachesInv'
  BY <1>1, <1>2, <1>5, <1>6, CachesKept DEF TypeOK
<1>8. ErrorsInv'
  BY <1>1, <1>2, <1>5, <1>6 DEF ErrorsInv
<1>9. NotEndedByStaleWord'
  BY <1>2 DEF NotEndedByStaleWord
<1> QED BY <1>5, <1>7, <1>8, <1>9 DEF IInv

(***************************************************************************)
(* The end of the program.                                                 *)
(***************************************************************************)
LEMMA EndsStep ==
  ASSUME IInv, NEW why \in Reasons \ {"stale"}, Ends(why)
  PROVE  IInv'
<1>1. /\ ended' = why /\ why # "stale"
      /\ UNCHANGED <<own, server, success, connected, strings, client_ext, last, reported>>
  BY DEF Ends
<1>2. TypeOK'
  BY <1>1 DEF IInv, TypeOK
<1>3. ErrorsInv'
  BY <1>1 DEF IInv, ErrorsInv
<1>4. LastErrorReported'
  BY <1>1 DEF IInv, LastErrorReported
<1>5. CachesInv'
  BY <1>1 DEF IInv, CachesInv, CopiesIntact
<1>6. NotEndedByStaleWord'
  BY <1>1 DEF NotEndedByStaleWord
<1> QED BY <1>2, <1>3, <1>4, <1>5, <1>6 DEF IInv

LEMMA PopulateFailsStep ==
  ASSUME IInv, NEW p \in Protocol, PopulateFails(p)
  PROVE  IInv'
<1>1. success \in BOOLEAN
  BY DEF IInv, TypeOK
<1>2. AllSucceed(p, Item(p))
  BY <1>1, AllKnown
<1>3. Ends("lost") \/ Ends("refused") \/ Ends("memory")
  BY <1>2 DEF PopulateFails
<1>4. {"lost", "refused", "memory"} \subseteq Reasons \ {"stale"}
  BY DEF Reasons
<1> QED BY <1>3, <1>4, EndsStep

(***************************************************************************)
(* A cache that is there stays; one that is filled is intact.  The other   *)
(* protocol's errors are left alone.                                       *)
(***************************************************************************)
LEMMA AnswerFacts ==
  ASSUME TypeOK, CachesInv, NEW p \in Protocol, NEW dpy \in Display,
         Cached(p) \/ Populate(p, dpy)
  PROVE  /\ CachesInv'
         /\ \A q \in Protocol :
              strings'[q] \in [dpy : Display \cup {0}, block : Nat, allocated : Nat,
                               nfilled : Nat, at : [Item(q) -> Pointer]]
              /\ strings'[q].nfilled <= strings'[q].allocated
         /\ success' \in BOOLEAN /\ server' \in [Protocol -> {"none", "remote"}]
         /\ \A q \in Protocol : q # p => server'[q] = server[q]
<1>1. CASE Cached(p)
  <2>1. UNCHANGED <<strings, server, success>>
    BY <1>1 DEF Cached
  <2>2. success' \in BOOLEAN /\ server' \in [Protocol -> {"none", "remote"}]
    BY <2>1 DEF TypeOK
  <2> QED BY <2>1, <2>2, CachesKept
<1>2. CASE Populate(p, dpy)
  <2>1. PICK long, moves : strings' = Put(strings, p, Populated(p, dpy, long, moves))
    BY <1>2 DEF Populate
  <2>2. success' = TRUE /\ server' = Put(server, p, ServerError(p, "none"))
    BY <1>2 DEF Populate
  <2> DEFINE s == Populated(p, dpy, long, moves)
  <2>3. /\ s \in Storage(p) /\ s.nfilled <= s.allocated
        /\ \A f, g \in Item(p) :
             /\ s.at[f].from + s.at[f].size <= s.at[f].room
             /\ f # g => Apart(s.at[f], s.at[g])
    BY PopulatedIntact
  <2> HIDE DEF s
  <2>4. strings' = [q \in Protocol |-> IF q = p THEN s ELSE strings[q]]
    <3>1. strings' = [strings EXCEPT ![p] = s]
      BY <2>1 DEF Put, s
    <3>2. DOMAIN strings = Protocol
      BY DEF CachesInv
    <3> QED BY <3>1, <3>2
  <2>5. \A q \in Protocol : strings'[q] = IF q = p THEN s ELSE strings[q]
    BY <2>4
  <2>6. strings' = [q \in Protocol |-> strings'[q]]
    BY <2>4
  <2>7. ASSUME NEW q \in Protocol
        PROVE  /\ strings'[q] \in Storage(q) /\ strings'[q].nfilled <= strings'[q].allocated
               /\ strings'[q].block # 0 =>
                    \A f, g \in Item(q) :
                      /\ strings'[q].at[f].from + strings'[q].at[f].size <= strings'[q].at[f].room
                      /\ f # g => Apart(strings'[q].at[f], strings'[q].at[g])
    <3>1. CASE q = p
      <4>1. strings'[q] = s
        BY <3>1, <2>5
      <4> QED BY <3>1, <4>1, <2>3
    <3>2. CASE q # p
      <4>1. strings'[q] = strings[q]
        BY <3>2, <2>5
      <4>2. /\ strings[q] \in Storage(q) /\ strings[q].nfilled <= strings[q].allocated
            /\ strings[q].block # 0 =>
                 \A f, g \in Item(q) :
                   /\ strings[q].at[f].from + strings[q].at[f].size <= strings[q].at[f].room
                   /\ f # g => Apart(strings[q].at[f], strings[q].at[g])
        BY DEF TypeOK, CachesInv, CopiesIntact, Storage
      <4> QED BY <4>1, <4>2
    <3> QED BY <3>1, <3>2
  <2>8. CachesInv'
    BY <2>6, <2>7 DEF CachesInv, CopiesIntact, Apart
  <2>9. /\ server \in [Protocol -> {"none", "remote"}]
        /\ ServerError(p, "none") \in {"none", "remote"}
    BY DEF TypeOK, ServerError
  <2>10. /\ server' \in [Protocol -> {"none", "remote"}]
         /\ \A q \in Protocol : q # p => server'[q] = server[q]
    BY <2>2, <2>9 DEF Put
  <2> QED BY <2>2, <2>7, <2>8, <2>10 DEF Storage
<1> QED BY <1>1, <1>2

LEMMA QueryStep ==
  ASSUME IInv, NEW p \in Protocol, NEW dpy \in Display,
         QueryString(p, dpy) \/ QueryUnknown(p, dpy)
  PROVE  IInv'
<1>1. TypeOK /\ ErrorsInv /\ CachesInv /\ NotEndedByStaleWord
  BY DEF IInv
<1>2. PICK e \in {"none", "local"} :
        /\ Cached(p) \/ Populate(p, dpy)
        /\ own' = Put(own, p, e) /\ Result(p, e) /\ UNCHANGED <<connected, client_ext, ended>>
  BY DEF QueryString, QueryUnknown
<1>3. own \in [Protocol -> Error] /\ e \in Error
  BY <1>1 DEF TypeOK, Error
<1>4. /\ own' \in [Protocol -> Error]
      /\ \A q \in Protocol : own'[q] = IF q = p THEN e ELSE own[q]
  BY <1>2, <1>3 DEF Put
<1>5. /\ last' \in [Protocol -> Error \cup {"unexplained"}]
      /\ \A q \in Protocol : last'[q] = IF q = p THEN e ELSE last[q]
      /\ reported' \in [p : Protocol, error : Error, of : Error \cup {"unexplained"}]
      /\ LastErrorReported'
  BY <1>1, <1>2, <1>3, ResultFacts
<1>6. /\ CachesInv'
      /\ \A q \in Protocol :
           strings'[q] \in [dpy : Display \cup {0}, block : Nat, allocated : Nat,
                            nfilled : Nat, at : [Item(q) -> Pointer]]
           /\ strings'[q].nfilled <= strings'[q].allocated
      /\ success' \in BOOLEAN /\ server' \in [Protocol -> {"none", "remote"}]
      /\ \A q \in Protocol : q # p => server'[q] = server[q]
  BY <1>1, <1>2, AnswerFacts
<1>7. TypeOK'
  BY <1>1, <1>2, <1>4, <1>5, <1>6 DEF TypeOK
<1>8. ErrorsInv'
  BY <1>1, <1>2, <1>4, <1>5, <1>6 DEF ErrorsInv
<1>9. NotEndedByStaleWord'
  BY <1>1, <1>2 DEF NotEndedByStaleWord
<1> QED BY <1>5, <1>6, <1>7, <1>8, <1>9 DEF IInv

LEMMA QueryClientStep ==
  ASSUME IInv, QueryClientExtensions
  PROVE  IInv'
<1>1. TypeOK /\ ErrorsInv /\ CachesInv /\ NotEndedByStaleWord
  BY DEF IInv
<1>2. PICK e \in {"none", "unexplained"} : Result("egl", e)
  BY DEF QueryClientExtensions
<1>3. /\ own' = Put(own, "egl", "none") /\ client_ext' = (client_ext \/ success)
      /\ server' = IF client_ext THEN server ELSE Put(server, "egl", "none")
      /\ UNCHANGED <<success, connected, strings, ended>>
  BY DEF QueryClientExtensions
<1>4. "egl" \in Protocol
  BY DEF Protocol
<1>5. /\ own \in [Protocol -> Error] /\ server \in [Protocol -> {"none", "remote"}]
      /\ client_ext \in BOOLEAN /\ success \in BOOLEAN
  BY <1>1 DEF TypeOK
<1>6. /\ own' \in [Protocol -> Error]
      /\ \A q \in Protocol : own'[q] = IF q = "egl" THEN "none" ELSE own[q]
  BY <1>3, <1>4, <1>5 DEF Put, Error
<1>7. /\ server' \in [Protocol -> {"none", "remote"}]
      /\ \A q \in Protocol : q # "egl" => server'[q] = server[q]
  BY <1>3, <1>4, <1>5 DEF Put
<1>8. client_ext' \in BOOLEAN
  BY <1>3, <1>5
<1>9. /\ last' \in [Protocol -> Error \cup {"unexplained"}]
      /\ \A q \in Protocol : last'[q] = IF q = "egl" THEN e ELSE last[q]
      /\ reported' \in [p : Protocol, error : Error, of : Error \cup {"unexplained"}]
      /\ LastErrorReported'
  <2>1. e \in Error \cup {"unexplained"}
    BY DEF Error
  <2> QED BY <2>1, <1>1, <1>2, <1>4, ResultFacts
<1>10. TypeOK' /\ CachesInv'
  BY <1>1, <1>3, <1>6, <1>7, <1>8, <1>9, CachesKept DEF TypeOK
<1>11. ErrorsInv'
  BY <1>1, <1>3, <1>6, <1>7, <1>9 DEF ErrorsInv
<1>12. NotEndedByStaleWord'
  BY <1>1, <1>3 DEF NotEndedByStaleWord
<1> QED BY <1>9, <1>10, <1>11, <1>12 DEF IInv

LEMMA LoseStep ==
  ASSUME IInv, LoseConnection
  PROVE  IInv'
<1>1. TypeOK /\ ErrorsInv /\ CachesInv /\ NotEndedByStaleWord
  BY DEF IInv
<1>2. /\ connected' = FALSE /\ reported' = Nothing
      /\ UNCHANGED <<own, server, success, strings, client_ext, last, ended>>
  BY DEF LoseConnection
<1>3. reported' \in [p : Protocol, error : Error, of : Error \cup {"unexplained"}] /\ reported'.of = "none"
  BY <1>2 DEF Nothing, Protocol, Error
<1>4. TypeOK' /\ CachesInv'
  BY <1>1, <1>2, <1>3, CachesKept DEF TypeOK
<1>5. ErrorsInv'
  BY <1>1, <1>2 DEF ErrorsInv
<1>6. LastErrorReported'
  BY <1>3 DEF LastErrorReported
<1>7. NotEndedByStaleWord'
  BY <1>1, <1>2 DEF NotEndedByStaleWord
<1> QED BY <1>4, <1>5, <1>6, <1>7 DEF IInv

LEMMA Starts ==
  ASSUME Init
  PROVE  IInv
<1>1. /\ own = [p \in Protocol |-> "none"] /\ server = [p \in Protocol |-> "none"]
      /\ success \in BOOLEAN /\ connected = TRUE
      /\ strings = [p \in Protocol |-> NoStorage(p)] /\ client_ext = FALSE
      /\ last = [p \in Protocol |-> "none"] /\ reported = Nothing /\ ended = "no"
  BY DEF Init
<1>2. ASSUME NEW p \in Protocol
      PROVE  /\ strings[p] \in Storage(p) /\ strings[p].nfilled = 0
             /\ strings[p].allocated = 0 /\ strings[p].block = 0
  <2>1. NoPointer \in Pointer
    BY DEF NoPointer, Pointer
  <2>2. strings[p] = [dpy |-> 0, block |-> 0, allocated |-> 0, nfilled |-> 0,
                      at |-> [f \in Item(p) |-> NoPointer]]
    BY <1>1 DEF NoStorage
  <2> QED BY <2>1, <2>2 DEF Storage
<1>3. reported \in [p : Protocol, error : Error, of : Error \cup {"unexplained"}] /\ reported.of = "none"
  BY <1>1 DEF Nothing, Protocol, Error
<1>4. \A p \in Protocol : strings[p].nfilled <= strings[p].allocated
  BY <1>2
<1>5. TypeOK
  BY <1>1, <1>2, <1>3, <1>4 DEF TypeOK, Storage, Error, Reasons
<1>6. CachesInv
  BY <1>1, <1>2 DEF CachesInv, CopiesIntact
<1>7. ErrorsInv
  BY <1>1 DEF ErrorsInv
<1> QED BY <1>1, <1>3, <1>5, <1>6, <1>7 DEF IInv, LastErrorReported, NotEndedByStaleWord

LEMMA Steps ==
  ASSUME IInv, [Next]_vars
  PROVE  IInv'
<1>1. CASE UNCHANGED vars
  <2>1. UNCHANGED vars
    BY <1>1
  <2>2. UNCHANGED <<own, server, success, connected, strings, client_ext, last, reported, ended>>
    BY <2>1 DEF vars
  <2>3. TypeOK'
    BY <2>2 DEF IInv, TypeOK
  <2>4. ErrorsInv'
    BY <2>2 DEF IInv, ErrorsInv
  <2>5. LastErrorReported'
    BY <2>2 DEF IInv, LastErrorReported
  <2>6. CachesInv'
    BY <2>2 DEF IInv, CachesInv, CopiesIntact
  <2>7. NotEndedByStaleWord'
    BY <2>2 DEF IInv, NotEndedByStaleWord
  <2> QED BY <2>3, <2>4, <2>5, <2>6, <2>7 DEF IInv
<1>2. CASE ended = "no" /\ LoseConnection
  BY <1>2, LoseStep
<1>3. CASE ended = "no" /\ Call
  <2>1. CASE \E p \in Protocol, uses_tmp_buf \in BOOLEAN, e \in {"none", "remote"} :
               (p = "egl" => uses_tmp_buf) /\ Forward(p, uses_tmp_buf, e)
    BY <1>3, <2>1, ForwardStep
  <2>2. CASE \E p \in Protocol, replies, data \in BOOLEAN :
               (p = "egl" => replies) /\ ForwardFails(p, replies, data)
    BY <1>3, <2>2, ForwardFailsStep
  <2>3. CASE WaitFails
    BY <2>3, EndsStep DEF WaitFails, Reasons
  <2>4. CASE \E p \in Protocol : Refuse(p)
    BY <1>3, <2>4, RefuseStep
  <2>5. CASE RefuseReply
    <3>1. "gles" \in Protocol
      BY DEF Protocol
    <3> QED BY <1>3, <2>5, <3>1, RefuseStep
  <2>6. CASE \E p \in Protocol : DropCall(p)
    BY <1>3, <2>6, DropStep
  <2>7. CASE \E p \in Protocol : GetOwnError(p)
    BY <1>3, <2>7, GetOwnStep
  <2>8. CASE \E p \in Protocol : GetServerError(p)
    BY <1>3, <2>8, GetServerStep
  <2>9. CASE \E p \in Protocol, dpy \in Display : QueryString(p, dpy)
    BY <2>9, QueryStep
  <2>10. CASE \E p \in Protocol, dpy \in Display : QueryUnknown(p, dpy)
    BY <2>10, QueryStep
  <2>11. CASE \E p \in Protocol : PopulateFails(p)
    BY <2>11, PopulateFailsStep
  <2>12. CASE \E dpy \in Display : SecondDisplay(dpy)
    BY <2>12, EndsStep DEF SecondDisplay, Reasons
  <2>13. CASE QueryClientExtensions
    BY <2>13, QueryClientStep
  <2> QED BY <1>3, <2>1, <2>2, <2>3, <2>4, <2>5, <2>6, <2>7, <2>8, <2>9, <2>10, <2>11, <2>12, <2>13
          DEF Call
<1> QED BY <1>1, <1>2, <1>3 DEF Next

-----------------------------------------------------------------------------
(* The theorems.                                                           *)

(***************************************************************************)
(* The library's errors, its caches and the history have their types, and  *)
(* no cache is filled beyond its storage.                                  *)
(***************************************************************************)
THEOREM TypeCorrect == Spec => []TypeOK
<1>1. IInv => TypeOK
  BY DEF IInv
<1> QED BY <1>1, Starts, Steps, PTL DEF Spec

(***************************************************************************)
(* No failure of a call is hidden from a GetError right after it, whatever *)
(* failed before it and whether the connection is still there: send_packet *)
(* resets the own error and GetError looks at the own error first.         *)
(***************************************************************************)
THEOREM FailuresAreReported == Spec => []LastErrorReported
<1>1. IInv => LastErrorReported
  BY DEF IInv
<1> QED BY <1>1, Starts, Steps, PTL DEF Spec

(***************************************************************************)
(* Each string was copied within the block its pointer points into, which  *)
(* realloc may have given up since, and over no other string, whatever the *)
(* length of a long string and the size of the first allocation            *)
(* (_registerEglString, _registerGlesString).                              *)
(***************************************************************************)
THEOREM CopiesAreIntact == Spec => []CopiesIntact
<1>1. IInv => CopiesIntact
  BY DEF IInv, CachesInv
<1> QED BY <1>1, Starts, Steps, PTL DEF Spec

(***************************************************************************)
(* The word that the handler of eglQueryString leaves in tmp_buf for the   *)
(* extensions never ends the program: the string before them has set it.   *)
(***************************************************************************)
THEOREM NoStaleWord == Spec => []NotEndedByStaleWord
<1>1. IInv => NotEndedByStaleWord
  BY DEF IInv
<1> QED BY <1>1, Starts, Steps, PTL DEF Spec
=============================================================================
