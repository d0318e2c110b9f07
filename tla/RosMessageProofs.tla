-------------------------- MODULE RosMessageProofs --------------------------
(***************************************************************************)
(* Proofs about RosMessage, for every catalogue of layouts, every set of   *)
(* messages that programs fill in and any number of them.                  *)
(***************************************************************************)
EXTENDS RosMessage, SequenceTheorems, TLAPS

(***************************************************************************)
(* Places. Around(t, q) are the slices around q, Outer(t, q) the innermost *)
(* of them.                                                                *)
(***************************************************************************)
Place(t, q) ==
    q \in [slot : DOMAIN t, at : Seq(Nat)] /\ Len(q.at) = Len(t[q.slot].around)

Around(t, q) == {Enclosing(t, q, k) : k \in DOMAIN q.at}

Outer(t, q) == Enclosing(t, q, Len(q.at))

(***************************************************************************)
(* The inductive invariant. A conversion or a clone of message m has       *)
(* reached what is in no slice still to be done.                           *)
(***************************************************************************)
Reached(t, m, S) == {q \in DOMAIN m : Around(t, q) \cap S = {}}

\* The copy c of message m in C, but for the slices in S: these are still to
\* be written.
CopyInC(t, c, m, S) ==
    /\ DOMAIN c = Reached(t, m, S)
    /\ S \subseteq Slices(t, DOMAIN c)
    /\ \A q \in DOMAIN c :
         /\ Leaf(t, q) => c[q] = m[q]
         /\ Sliced(t, q) /\ q \notin S =>
              c[q] = [data |-> IF m[q].n = 0 THEN "null" ELSE "malloc",
                      n |-> m[q].n]

\* The clone c of message m, but for the slices in S: these are still nil.
CloneOf(t, c, m, S) ==
    /\ c = [q \in DOMAIN c |-> c[q]]
    /\ DOMAIN c = Reached(t, m, S)
    /\ S \subseteq Slices(t, DOMAIN c)
    /\ \A q \in DOMAIN c :
         /\ Leaf(t, q) => c[q] = m[q]
         /\ Sliced(t, q) =>
              IF q \in S \/ m[q].own = 0 THEN c[q] = NilSlice
              ELSE c[q] = [own |-> Clone, n |-> m[q].n]

\* What a take of message m has not touched: what is, or is in, a slice
\* outside others that is to be done or was sent empty.
Stays(t, m, S, q) == Root(t, q) \in S \/ InEmpty(t, m, q)

\* Message o, which was old, after a take of m but for the slices in S.
TakeOf(t, o, m, old, S, owner) ==
    /\ S \subseteq Slices(t, Reached(t, m, S))
    /\ DOMAIN o = {q \in Reached(t, m, S) : ~Stays(t, m, S, q)}
                  \cup {q \in DOMAIN old : Stays(t, m, S, q)}
    /\ \A q \in DOMAIN o :
         IF Stays(t, m, S, q) THEN o[q] = old[q]
         ELSE /\ Leaf(t, q) => o[q] = m[q]
              /\ Sliced(t, q) => /\ q \in S => o[q] = NilSlice
                                 /\ q \notin S => o[q].n = m[q].n
                                 /\ o[q].own \in {0, owner}
                                 /\ o[q].own = 0 => o[q].n = 0

\* A complete message, no slice of two contents, none of a clone's memory.
Sound(t, m) ==
    /\ Complete(t, m)
    /\ Unmixed(t, m)
    /\ \A q \in Slices(t, DOMAIN m) : m[q].own # Clone

\* Every element of the kept clone is in memory of the clone's own.
Detached(t, c) ==
    /\ c = [q \in DOMAIN c |-> c[q]]
    /\ \A q \in DOMAIN c : q.at # <<>> => c[Outer(t, q)].own = Clone

IInv ==
    /\ layout \in Catalogue
    /\ TypeOK
    /\ pc \in {"composed", "converting", "sent", "taking"} => composed # 0
    /\ Complete(layout, msg) /\ Unmixed(layout, msg)
    /\ pc = "converting" => CopyInC(layout, cmem, msg, todo)
    /\ pc \in {"sent", "taking"} => CopyInC(layout, cmem, msg, {})
    /\ pc # "taking" => Sound(layout, out)
    /\ pc = "taking" => /\ Sound(layout, before)
                        /\ TakeOf(layout, out, msg, before, todo, Taker(composed))
                        /\ taken = "callback" =>
                             before = ZeroValue(layout, Tops(layout))
    /\ pc = "cloning" => CloneOf(layout, kept, out, todo)
    /\ pc # "cloning" => Detached(layout, kept)
-----------------------------------------------------------------------------
LEMMA Prefix ==
    ASSUME NEW S, NEW s, NEW k \in Nat \ {0}, \A i \in 1..(k - 1) : s[i] \in S
    PROVE  /\ SubSeq(s, 1, k - 1) \in Seq(S)
           /\ Len(SubSeq(s, 1, k - 1)) = k - 1
           /\ \A i \in 1..(k - 1) : SubSeq(s, 1, k - 1)[i] = s[i]
BY SubSeqProperties

LEMMA TopPlaces ==
    ASSUME NEW t \in Catalogue, NEW q
    PROVE  q \in Tops(t) <=> Place(t, q) /\ q.at = <<>>
<1>1. \A s \in DOMAIN t : t[s].around \in Seq(DOMAIN t)
  BY CatalogueAssumption
<1>2. <<>> \in Seq(Nat) /\ Len(<<>>) = 0
  BY EmptySeq
<1>3. ASSUME q \in Tops(t) PROVE Place(t, q) /\ q.at = <<>>
  <2>1. PICK s \in DOMAIN t : t[s].around = <<>> /\ q = [slot |-> s, at |-> <<>>]
    BY <1>3 DEF Tops
  <2> QED
    BY <1>2, <2>1 DEF Place
<1>4. ASSUME Place(t, q), q.at = <<>> PROVE q \in Tops(t)
  <2>1. q.slot \in DOMAIN t /\ Len(t[q.slot].around) = 0
    BY <1>2, <1>4 DEF Place
  <2>2. t[q.slot].around = <<>>
    BY <1>1, <2>1
  <2>3. q = [slot |-> q.slot, at |-> <<>>]
    BY <1>4 DEF Place
  <2> QED
    BY <2>1, <2>2, <2>3 DEF Tops
<1> QED
  BY <1>3, <1>4

(* What is around a place: slices, each at the start of its indices.       *)
LEMMA EnclosingPlace ==
    ASSUME NEW t \in Catalogue, NEW q, Place(t, q), NEW k \in DOMAIN q.at
    PROVE  /\ Place(t, Enclosing(t, q, k))
           /\ Sliced(t, Enclosing(t, q, k))
           /\ Len(Enclosing(t, q, k).at) = k - 1
           /\ \A j \in 1..(k - 1) : Enclosing(t, q, k).at[j] = q.at[j]
           /\ t[Enclosing(t, q, k).slot].around = SubSeq(t[q.slot].around, 1, k - 1)
<1> DEFINE p == Enclosing(t, q, k)
           a == t[q.slot].around
<1>1. /\ q.slot \in DOMAIN t /\ q.at \in Seq(Nat) /\ a \in Seq(DOMAIN t)
      /\ Len(q.at) = Len(a) /\ k \in 1..Len(a) /\ k \in Nat /\ k >= 1
      /\ k \in DOMAIN a
  BY CatalogueAssumption DEF Place
<1>2. p.slot = a[k] /\ a[k] \in DOMAIN t /\ p.at = SubSeq(q.at, 1, k - 1)
  BY <1>1, ElementOfSeq DEF Enclosing
<1>3. t[a[k]].kind = "slice" /\ t[a[k]].around = SubSeq(a, 1, k - 1)
  BY <1>1, CatalogueAssumption
<1>4. /\ SubSeq(q.at, 1, k - 1) \in Seq(Nat)
      /\ Len(SubSeq(q.at, 1, k - 1)) = k - 1
      /\ \A j \in 1..(k - 1) : SubSeq(q.at, 1, k - 1)[j] = q.at[j]
  <2>1. \A i \in 1..(k - 1) : q.at[i] \in Nat
    BY <1>1
  <2> QED
    BY <1>1, <2>1, SubSeqProperties
<1>5. Len(SubSeq(a, 1, k - 1)) = k - 1
  <2>1. \A i \in 1..(k - 1) : a[i] \in DOMAIN t
    BY <1>1
  <2> QED
    BY <1>1, <2>1, SubSeqProperties
<1> QED
  BY <1>2, <1>3, <1>4, <1>5 DEF Place, Sliced, Enclosing

LEMMA EnclosingTwice ==
    ASSUME NEW t \in Catalogue, NEW q, Place(t, q),
           NEW k \in DOMAIN q.at, NEW j \in 1..(k - 1)
    PROVE  /\ j \in DOMAIN Enclosing(t, q, k).at /\ j \in DOMAIN q.at
           /\ Enclosing(t, Enclosing(t, q, k), j) = Enclosing(t, q, j)
<1> DEFINE p == Enclosing(t, q, k)
           a == t[q.slot].around
<1>1. /\ q.at \in Seq(Nat) /\ a \in Seq(DOMAIN t) /\ Len(q.at) = Len(a)
      /\ k \in 1..Len(a) /\ k \in Nat /\ j \in Nat /\ j <= k - 1
  BY CatalogueAssumption DEF Place
<1>2. /\ Place(t, p) /\ Len(p.at) = k - 1 /\ t[p.slot].around = SubSeq(a, 1, k - 1)
      /\ p.at = SubSeq(q.at, 1, k - 1)
  BY EnclosingPlace DEF Enclosing
<1>3. j \in DOMAIN p.at /\ j \in DOMAIN q.at
  <2>1. p.at \in Seq(Nat)
    BY <1>2 DEF Place
  <2>2. DOMAIN p.at = 1..(k - 1) /\ DOMAIN q.at = 1..Len(q.at)
    BY <1>1, <1>2, <2>1, LenProperties
  <2> QED
    BY <1>1, <2>2
<1>4. t[p.slot].around[j] = a[j]
  <2>1. \A i \in 1..(k - 1) : a[i] \in DOMAIN t
    BY <1>1
  <2>2. SubSeq(a, 1, k - 1)[j] = a[j]
    BY <1>1, <2>1, SubSeqProperties
  <2> QED
    BY <1>2, <2>2
<1>5. SubSeq(p.at, 1, j - 1) = SubSeq(q.at, 1, j - 1)
  <2>1. \A i \in 1..(j - 1) : p.at[i] = q.at[i] /\ q.at[i] \in Nat /\ p.at[i] \in Nat
    <3>1. \A i \in 1..(k - 1) : p.at[i] = q.at[i]
      BY EnclosingPlace
    <3>2. \A i \in 1..(j - 1) : i \in 1..(k - 1) /\ i \in 1..Len(q.at)
      BY <1>1
    <3>3. \A i \in 1..Len(q.at) : q.at[i] \in Nat
      BY <1>1, ElementOfSeq
    <3> QED
      BY <3>1, <3>2, <3>3
  <2>2. j \in Nat \ {0}
    BY <1>1
  <2>3. /\ SubSeq(p.at, 1, j - 1) \in Seq(Nat)
        /\ Len(SubSeq(p.at, 1, j - 1)) = j - 1
        /\ \A i \in 1..(j - 1) : SubSeq(p.at, 1, j - 1)[i] = p.at[i]
    <3> HIDE DEF p
    <3> QED
      BY <2>1, <2>2, Prefix
  <2>4. /\ SubSeq(q.at, 1, j - 1) \in Seq(Nat)
        /\ Len(SubSeq(q.at, 1, j - 1)) = j - 1
        /\ \A i \in 1..(j - 1) : SubSeq(q.at, 1, j - 1)[i] = q.at[i]
    BY <2>1, <2>2, Prefix
  <2> QED
    BY <2>1, <2>3, <2>4, SeqEqual
<1> QED
  BY <1>3, <1>4, <1>5 DEF Enclosing

(***************************************************************************)
(* The slices around a place: those around an inner one are around it, it  *)
(* is next inside one of them, and they all have the same root.            *)
(***************************************************************************)
LEMMA AroundPlaces ==
    ASSUME NEW t \in Catalogue, NEW q, Place(t, q), q.at # <<>>
    PROVE  /\ Outer(t, q) \in Around(t, q)
           /\ Place(t, Outer(t, q)) /\ Sliced(t, Outer(t, q))
           /\ Around(t, q) = {Outer(t, q)} \cup Around(t, Outer(t, q))
<1>1. q.at \in Seq(Nat) /\ Len(q.at) \in Nat \ {0} /\ DOMAIN q.at = 1..Len(q.at)
  BY EmptySeq DEF Place
<1>2. Len(q.at) \in DOMAIN q.at
  BY <1>1
<1> DEFINE p == Outer(t, q)
<1>3. /\ Place(t, p) /\ Sliced(t, p) /\ Len(p.at) = Len(q.at) - 1
      /\ DOMAIN p.at = 1..(Len(q.at) - 1)
  BY <1>2, EnclosingPlace DEF Outer, Place
<1>4. DOMAIN q.at = {Len(q.at)} \cup DOMAIN p.at
  BY <1>1, <1>3
<1>5. \A j \in DOMAIN p.at : Enclosing(t, p, j) = Enclosing(t, q, j)
  BY <1>2, <1>3, EnclosingTwice DEF Outer
<1> QED
  BY <1>2, <1>3, <1>4, <1>5 DEF Around, Outer

LEMMA AroundTop ==
    ASSUME NEW t \in Catalogue, NEW q, q.at = <<>>
    PROVE  Around(t, q) = {} /\ Root(t, q) = q
BY EmptySeq DEF Around, Root

LEMMA AroundInner ==
    ASSUME NEW t \in Catalogue, NEW q, Place(t, q), NEW p \in Around(t, q)
    PROVE  /\ q.at # <<>>
           /\ Place(t, p) /\ Sliced(t, p)
           /\ Around(t, p) \subseteq Around(t, q)
           /\ Root(t, p) = Root(t, q)
           /\ p \notin Around(t, p)
           /\ \/ p = Outer(t, q)
              \/ \E r \in Around(t, q) : r.at # <<>> /\ Outer(t, r) = p
<1>1. PICK k \in DOMAIN q.at : p = Enclosing(t, q, k)
  BY DEF Around
<1>2. /\ q.at \in Seq(Nat) /\ DOMAIN q.at = 1..Len(q.at) /\ Len(q.at) \in Nat
      /\ k \in Nat /\ 1 <= k /\ k <= Len(q.at)
  BY <1>1, LenProperties DEF Place
<1>3. q.at # <<>>
  BY <1>2, EmptySeq
<1>4. /\ Place(t, p) /\ Sliced(t, p) /\ Len(p.at) = k - 1
      /\ DOMAIN p.at = 1..(k - 1)
  BY <1>1, EnclosingPlace, LenProperties DEF Place
<1>5. \A j \in 1..(k - 1) : Enclosing(t, p, j) = Enclosing(t, q, j)
  BY <1>1, EnclosingTwice
<1>6. Around(t, p) \subseteq Around(t, q)
  BY <1>2, <1>4, <1>5 DEF Around
<1>7. Root(t, p) = Root(t, q)
  <2>1. CASE k = 1
    BY <1>1, <1>3, <1>4, <2>1, EmptySeq DEF Root, Place
  <2>2. CASE k # 1
    BY <1>2, <1>3, <1>4, <1>5, <2>2, EmptySeq DEF Root
  <2> QED
    BY <2>1, <2>2
<1>8. p \notin Around(t, p)
  <2>1. \A j \in DOMAIN p.at : Len(Enclosing(t, p, j).at) = j - 1
    BY <1>4, EnclosingPlace
  <2> QED
    BY <1>2, <1>4, <2>1 DEF Around
<1>9. ASSUME k # Len(q.at)
      PROVE  \E r \in Around(t, q) : r.at # <<>> /\ Outer(t, r) = p
  <2> DEFINE r == Enclosing(t, q, k + 1)
  <2>1. k + 1 \in DOMAIN q.at /\ k \in 1..(k + 1 - 1)
    BY <1>2, <1>9
  <2>2. Place(t, r) /\ Len(r.at) = k
    <3>1. Place(t, r) /\ Len(r.at) = k + 1 - 1
      BY <2>1, EnclosingPlace
    <3> QED
      BY <1>2, <3>1
  <2>3. Enclosing(t, r, k) = p
    BY <1>1, <2>1, EnclosingTwice
  <2>4. r \in Around(t, q)
    BY <2>1 DEF Around
  <2>5. r.at # <<>> /\ Outer(t, r) = p
    BY <1>2, <2>2, <2>3, EmptySeq DEF Outer
  <2> QED
    BY <2>4, <2>5
<1> QED
  BY <1>1, <1>3, <1>4, <1>6, <1>7, <1>8, <1>9 DEF Outer

(* The places of the first n elements of slice p are those of which p is   *)
(* the innermost slice and whose last index is at most n.                  *)
LEMMA ElementPlaces ==
    ASSUME NEW t \in Catalogue, NEW p, Place(t, p), Sliced(t, p), NEW n \in Nat,
           NEW q
    PROVE  q \in Elements(t, p, n) <=> /\ Place(t, q)
                                       /\ q.at # <<>>
                                       /\ Outer(t, q) = p
                                       /\ q.at[Len(q.at)] \in 1..n
<1>1. /\ p.slot \in DOMAIN t /\ p.at \in Seq(Nat) /\ Len(p.at) \in Nat
      /\ Len(p.at) = Len(t[p.slot].around)
      /\ p = [slot |-> p.slot, at |-> p.at]
  BY LenProperties DEF Place
<1>2. ASSUME NEW s \in DOMAIN t, t[s].around # <<>>,
             t[s].around[Len(t[s].around)] = p.slot
      PROVE  Len(t[s].around) = Len(p.at) + 1
  <2> DEFINE a == t[s].around
  <2>1. a \in Seq(DOMAIN t) /\ Len(a) \in Nat \ {0} /\ DOMAIN a = 1..Len(a)
    BY CatalogueAssumption, <1>2, EmptySeq, LenProperties
  <2>2. Len(a) \in DOMAIN a /\ \A i \in 1..(Len(a) - 1) : a[i] \in DOMAIN t
    BY <2>1
  <2>3. t[a[Len(a)]].around = SubSeq(a, 1, Len(a) - 1)
    BY <2>2, CatalogueAssumption
  <2>4. Len(SubSeq(a, 1, Len(a) - 1)) = Len(a) - 1
    <3> HIDE DEF a
    <3> QED
      BY <2>1, <2>2, Prefix
  <2> QED
    BY <1>1, <1>2, <2>1, <2>3, <2>4
<1>3. t[p.slot].inside = {r \in DOMAIN t : /\ t[r].around # <<>>
                                           /\ t[r].around[Len(t[r].around)] = p.slot}
  BY <1>1, CatalogueAssumption
<1>4. ASSUME q \in Elements(t, p, n)
      PROVE  /\ Place(t, q) /\ q.at # <<>>
             /\ Outer(t, q) = p /\ q.at[Len(q.at)] \in 1..n
  <2>1. PICK i \in 1..n : /\ q = [slot |-> q.slot, at |-> q.at]
                          /\ q.slot \in t[p.slot].inside
                          /\ q.at = Append(p.at, i)
    BY <1>4 DEF Elements
  <2>2. /\ q.slot \in DOMAIN t /\ t[q.slot].around # <<>>
        /\ t[q.slot].around[Len(t[q.slot].around)] = p.slot
    BY <1>3, <2>1
  <2>3. /\ q.at \in Seq(Nat) /\ q.at # <<>> /\ Len(q.at) = Len(p.at) + 1
        /\ \A j \in 1..Len(p.at) : q.at[j] = p.at[j]
        /\ q.at[Len(p.at) + 1] = i
    BY <1>1, <2>1, AppendProperties
  <2>4. Len(t[q.slot].around) = Len(q.at)
    BY <1>2, <2>2, <2>3
  <2>5. SubSeq(q.at, 1, Len(q.at) - 1) = p.at
    <3>1. Len(q.at) \in Nat \ {0} /\ \A j \in 1..(Len(q.at) - 1) : q.at[j] \in Nat
      BY <1>1, <2>3, ElementOfSeq
    <3>2. /\ SubSeq(q.at, 1, Len(q.at) - 1) \in Seq(Nat)
          /\ Len(SubSeq(q.at, 1, Len(q.at) - 1)) = Len(q.at) - 1
          /\ \A j \in 1..(Len(q.at) - 1) : SubSeq(q.at, 1, Len(q.at) - 1)[j] = q.at[j]
      BY <3>1, Prefix
    <3>3. Len(q.at) - 1 = Len(p.at)
      BY <1>1, <2>3
    <3> QED
      BY <1>1, <2>3, <3>2, <3>3, SeqEqual
  <2>6. Outer(t, q) = p
    BY <1>1, <2>2, <2>4, <2>5 DEF Outer, Enclosing
  <2> QED
    BY <2>1, <2>2, <2>3, <2>4, <2>6 DEF Place
<1>5. ASSUME Place(t, q), q.at # <<>>, Outer(t, q) = p, q.at[Len(q.at)] \in 1..n
      PROVE  q \in Elements(t, p, n)
  <2>1. /\ q.slot \in DOMAIN t /\ q.at \in Seq(Nat) /\ Len(q.at) \in Nat \ {0}
        /\ Len(t[q.slot].around) = Len(q.at)
        /\ q = [slot |-> q.slot, at |-> q.at]
    BY <1>5, EmptySeq DEF Place
  <2>2. /\ t[q.slot].around # <<>>
        /\ t[q.slot].around[Len(t[q.slot].around)] = p.slot
    BY <1>5, <2>1, EmptySeq DEF Outer, Enclosing
  <2>3. q.slot \in t[p.slot].inside
    BY <1>3, <2>1, <2>2
  <2>4. Len(p.at) + 1 = Len(q.at)
    BY <1>2, <2>1, <2>2
  <2>5. p.at = SubSeq(q.at, 1, Len(q.at) - 1)
    BY <1>5 DEF Outer, Enclosing
  <2>6. \A j \in 1..Len(p.at) : p.at[j] = q.at[j]
    <3>1. \A j \in 1..(Len(q.at) - 1) : q.at[j] \in Nat
      BY <2>1, ElementOfSeq
    <3>2. \A j \in 1..(Len(q.at) - 1) : SubSeq(q.at, 1, Len(q.at) - 1)[j] = q.at[j]
      BY <2>1, <3>1, Prefix
    <3> QED
      BY <1>1, <2>4, <2>5, <3>2
  <2>7. q.at = Append(p.at, q.at[Len(q.at)])
    <3> DEFINE last == q.at[Len(q.at)]
    <3>1. last \in Nat
      BY <1>5
    <3>2. /\ Append(p.at, last) \in Seq(Nat)
          /\ Len(Append(p.at, last)) = Len(p.at) + 1
          /\ \A j \in 1..Len(p.at) : Append(p.at, last)[j] = p.at[j]
          /\ Append(p.at, last)[Len(p.at) + 1] = last
      BY <1>1, <3>1, AppendProperties
    <3>3. \A j \in 1..Len(q.at) : q.at[j] = Append(p.at, last)[j]
      <4>1. \A j \in 1..Len(q.at) : j \in 1..Len(p.at) \/ j = Len(q.at)
        BY <1>1, <2>4
      <4> HIDE DEF last
      <4> QED
        BY <2>4, <2>6, <3>2, <4>1 DEF last
    <3> QED
      BY <2>1, <2>4, <3>2, <3>3, SeqEqual
  <2> QED
    BY <1>5, <2>1, <2>3, <2>7 DEF Elements
<1> QED
  BY <1>4, <1>5

(***************************************************************************)
(* Complete messages.                                                      *)
(***************************************************************************)
LEMMA CompletePlaces ==
    ASSUME NEW t \in Catalogue, NEW m, Complete(t, m), NEW q \in DOMAIN m
    PROVE  /\ Place(t, q)
           /\ Around(t, q) \subseteq Slices(t, DOMAIN m)
           /\ Sliced(t, q) => /\ m[q].n \in Nat
                              /\ Elements(t, q, m[q].n) \subseteq DOMAIN m
           /\ q.at # <<>> => /\ Outer(t, q) \in Slices(t, DOMAIN m)
                             /\ m[Outer(t, q)].n \in Nat \ {0}
                             /\ q \in Elements(t, Outer(t, q), m[Outer(t, q)].n)
<1>1. Place(t, q)
  BY DEF Complete, Place
<1>2. Sliced(t, q) => /\ m[q].n \in Nat
                      /\ Elements(t, q, m[q].n) \subseteq DOMAIN m
  BY DEF Complete
<1>3. Around(t, q) \subseteq Slices(t, DOMAIN m)
  <2>1. Around(t, q) \subseteq DOMAIN m
    BY DEF Complete, Around
  <2> QED
    BY <1>1, <2>1, AroundInner DEF Slices
<1>4. ASSUME q.at # <<>>
      PROVE  /\ Outer(t, q) \in Slices(t, DOMAIN m)
             /\ m[Outer(t, q)].n \in Nat \ {0}
             /\ q \in Elements(t, Outer(t, q), m[Outer(t, q)].n)
  <2> DEFINE p == Outer(t, q)
  <2>1. p \in Slices(t, DOMAIN m) /\ Place(t, p) /\ Sliced(t, p)
    BY <1>1, <1>3, <1>4, AroundPlaces
  <2>2. m[p].n \in Nat
    BY <2>1 DEF Complete, Slices
  <2>3. Len(q.at) \in DOMAIN q.at
    BY <1>1, <1>4, EmptySeq, LenProperties DEF Place
  <2>4. q.at[Len(q.at)] \in 1..m[p].n
    BY <2>3 DEF Complete, Outer
  <2>5. q \in Elements(t, p, m[p].n)
    BY <1>1, <1>4, <2>1, <2>2, <2>4, ElementPlaces
  <2> QED
    BY <2>1, <2>2, <2>4, <2>5
<1> QED
  BY <1>1, <1>2, <1>3, <1>4

LEMMA ReachedFirst ==
    ASSUME NEW t \in Catalogue, NEW m, Complete(t, m)
    PROVE  /\ Reached(t, m, Slices(t, Tops(t))) = Tops(t)
           /\ Reached(t, m, {}) = DOMAIN m
<1>1. ASSUME NEW q \in Tops(t) PROVE q \in Reached(t, m, Slices(t, Tops(t)))
  <2>1. q \in DOMAIN m /\ Around(t, q) = {}
    BY <1>1, TopPlaces, AroundTop DEF Complete
  <2> QED
    BY <2>1 DEF Reached
<1>2. ASSUME NEW q \in Reached(t, m, Slices(t, Tops(t))) PROVE q \in Tops(t)
  <2>1. q \in DOMAIN m /\ Place(t, q) /\ Around(t, q) \cap Slices(t, Tops(t)) = {}
    BY <1>2, CompletePlaces DEF Reached
  <2>2. ASSUME q.at # <<>> PROVE FALSE
    <3>1. 1 \in DOMAIN q.at
      BY <2>1, <2>2, EmptySeq, LenProperties DEF Place
    <3>2. Enclosing(t, q, 1) \in Around(t, q)
      BY <3>1 DEF Around
    <3>3. /\ Place(t, Enclosing(t, q, 1)) /\ Sliced(t, Enclosing(t, q, 1))
          /\ Len(Enclosing(t, q, 1).at) = 0
      BY <2>1, <3>1, EnclosingPlace
    <3>4. Enclosing(t, q, 1) \in Tops(t)
      BY <3>3, TopPlaces, EmptySeq DEF Place
    <3> QED
      BY <2>1, <3>2, <3>3, <3>4 DEF Slices
  <2> QED
    BY <2>1, <2>2, TopPlaces
<1> QED
  BY <1>1, <1>2 DEF Reached

(* One round of calls: the elements of the slices done are reached, and    *)
(* the slices among them are what is left to be done.                      *)
LEMMA ReachedNext ==
    ASSUME NEW t \in Catalogue, NEW m, Complete(t, m),
           NEW S, S \subseteq Slices(t, Reached(t, m, S))
    PROVE  LET new == AllElements(t, S, m)
           IN  /\ new \cap Reached(t, m, S) = {}
               /\ Reached(t, m, Slices(t, new)) = Reached(t, m, S) \cup new
               /\ \A q : q \in new <=> /\ q \in DOMAIN m /\ q.at # <<>>
                                       /\ Outer(t, q) \in S
<1> DEFINE new == AllElements(t, S, m)
           R == Reached(t, m, S)
<1>1. \A p \in S : /\ p \in DOMAIN m /\ Sliced(t, p) /\ Place(t, p) /\ m[p].n \in Nat
                   /\ Around(t, p) \cap S = {}
                   /\ Elements(t, p, m[p].n) \subseteq DOMAIN m
  BY CompletePlaces DEF Reached, Slices
<1>2. ASSUME NEW q PROVE q \in new <=> /\ q \in DOMAIN m /\ q.at # <<>>
                                       /\ Outer(t, q) \in S
  <2>1. q \in new <=> \E p \in S : q \in Elements(t, p, m[p].n)
    BY DEF AllElements
  <2>2. ASSUME q \in new PROVE q \in DOMAIN m /\ q.at # <<>> /\ Outer(t, q) \in S
    BY <1>1, <2>1, <2>2, ElementPlaces
  <2>3. ASSUME q \in DOMAIN m, q.at # <<>>, Outer(t, q) \in S PROVE q \in new
    BY <2>1, <2>3, CompletePlaces
  <2> QED
    BY <2>2, <2>3
<1> HIDE DEF new
<1>3. new \cap R = {}
  <2>1. ASSUME NEW q \in new PROVE Outer(t, q) \in Around(t, q) \cap S
    BY <1>2, CompletePlaces, AroundPlaces
  <2> QED
    BY <2>1 DEF Reached
<1>4. ASSUME NEW q \in R \cup new PROVE q \in Reached(t, m, Slices(t, new))
  <2>1. q \in DOMAIN m /\ Place(t, q)
    BY <1>2, CompletePlaces DEF Reached
  <2>2. ASSUME NEW r \in Around(t, q), r \in new PROVE FALSE
    <3>1. Place(t, r) /\ Around(t, r) \subseteq Around(t, q) /\ r \notin S
      <4>1. r \notin S
        BY <1>3, <2>2 DEF Slices
      <4> QED
        BY <2>1, <4>1, AroundInner
    <3>2. Outer(t, r) \in S /\ Outer(t, r) \in Around(t, r)
      BY <1>2, <2>2, <3>1, AroundPlaces
    <3>3. q \notin R
      BY <3>1, <3>2 DEF Reached
    <3>4. q.at # <<>> /\ Outer(t, q) \in S
      BY <1>2, <3>3
    <3>5. r \in Around(t, Outer(t, q))
      BY <2>1, <3>1, <3>4, AroundPlaces
    <3>6. Outer(t, r) \in Around(t, Outer(t, q))
      BY <1>1, <3>2, <3>4, <3>5, AroundInner
    <3> QED
      BY <1>1, <3>2, <3>4, <3>6
  <2> QED
    BY <2>1, <2>2 DEF Reached, Slices
<1>5. ASSUME NEW q \in Reached(t, m, Slices(t, new)), q \notin R PROVE q \in new
  <2>1. q \in DOMAIN m /\ Place(t, q) /\ Around(t, q) \cap Slices(t, new) = {}
    BY <1>5, CompletePlaces DEF Reached
  <2>2. PICK p \in Around(t, q) : p \in S
    BY <1>5, <2>1 DEF Reached
  <2>3. q.at # <<>>
    BY <2>1, AroundInner
  <2>4. CASE p = Outer(t, q)
    BY <1>2, <2>1, <2>2, <2>3, <2>4
  <2>5. CASE p # Outer(t, q)
    <3>1. PICK r \in Around(t, q) : r.at # <<>> /\ Outer(t, r) = p
      BY <2>1, <2>5, AroundInner
    <3>2. r \in Slices(t, DOMAIN m)
      BY <2>1, CompletePlaces
    <3>3. r \in Slices(t, new)
      BY <1>2, <2>2, <3>1, <3>2 DEF Slices
    <3> QED
      BY <2>1, <3>1, <3>3
  <2> QED
    BY <2>4, <2>5
<1> QED
  BY <1>2, <1>3, <1>4, <1>5 DEF new

LEMMA Roots ==
    ASSUME NEW t \in Catalogue, NEW q, Place(t, q)
    PROVE  /\ Root(t, q) \in Tops(t)
           /\ q.at = <<>> => Root(t, q) = q
           /\ q.at # <<>> => /\ Root(t, q) \in Around(t, q)
                             /\ Sliced(t, Root(t, q))
<1>1. CASE q.at = <<>>
  BY <1>1, TopPlaces, AroundTop
<1>2. CASE q.at # <<>>
  <2> DEFINE p == Enclosing(t, q, 1)
  <2>1. 1 \in DOMAIN q.at
    BY <1>2, EmptySeq, LenProperties DEF Place
  <2>2. Place(t, p) /\ Sliced(t, p) /\ Len(p.at) = 0
    BY <2>1, EnclosingPlace
  <2>3. p \in Tops(t)
    BY <2>2, TopPlaces, EmptySeq DEF Place
  <2>4. p \in Around(t, q) /\ Root(t, q) = p
    BY <1>2, <2>1 DEF Around, Root
  <2> QED
    BY <1>2, <2>2, <2>3, <2>4
<1> QED
  BY <1>1, <1>2

(* Nothing of a complete message is in one of its empty slices.            *)
LEMMA NoneInEmpty ==
    ASSUME NEW t \in Catalogue, NEW m, Complete(t, m), NEW q \in DOMAIN m
    PROVE  /\ Root(t, q) \in DOMAIN m
           /\ InEmpty(t, m, q) => q.at = <<>> /\ Root(t, q) = q
<1>1. Place(t, q) /\ Around(t, q) \subseteq Slices(t, DOMAIN m)
  BY CompletePlaces
<1>2. Root(t, q) \in DOMAIN m
  BY <1>1, Roots DEF Complete
<1>3. ASSUME q.at # <<>> PROVE m[Root(t, q)].n # 0
  <2>1. 1 \in DOMAIN q.at /\ Root(t, q) = Enclosing(t, q, 1)
    BY <1>1, <1>3, EmptySeq, LenProperties DEF Place, Root
  <2>2. m[Root(t, q)].n \in Nat
    BY <1>1, <1>3, Roots, CompletePlaces DEF Slices
  <2>3. q.at[1] \in 1..m[Root(t, q)].n
    BY <2>1 DEF Complete
  <2> QED
    BY <2>2, <2>3
<1> QED
  BY <1>1, <1>2, <1>3, Roots DEF InEmpty

(* The shape of a message decides whether it is complete.                  *)
LEMMA SameShape ==
    ASSUME NEW t \in Catalogue, NEW m, Complete(t, m), NEW c, DOMAIN c = DOMAIN m,
           \A q \in Slices(t, DOMAIN m) : c[q].n = m[q].n /\ (c[q].own = 0 => c[q].n = 0),
           \A q \in DOMAIN m : Leaf(t, q) => c[q] # "garbage"
    PROVE  Complete(t, c)
<1>1. Tops(t) \subseteq DOMAIN c
  BY DEF Complete
<1>2. ASSUME NEW q \in DOMAIN c
      PROVE  /\ q \in [slot : DOMAIN t, at : Seq(Nat)]
             /\ Len(q.at) = Len(t[q.slot].around)
             /\ \A k \in DOMAIN q.at : LET p == Enclosing(t, q, k)
                                       IN  p \in DOMAIN c /\ q.at[k] \in 1..c[p].n
             /\ Sliced(t, q) => /\ c[q].n \in Nat
                                /\ c[q].own = 0 => c[q].n = 0
                                /\ Elements(t, q, c[q].n) \subseteq DOMAIN c
             /\ Leaf(t, q) => c[q] # "garbage"
  <2>1. Place(t, q) /\ Around(t, q) \subseteq Slices(t, DOMAIN m)
    BY CompletePlaces
  <2>2. ASSUME NEW k \in DOMAIN q.at
        PROVE  /\ Enclosing(t, q, k) \in DOMAIN c
               /\ q.at[k] \in 1..c[Enclosing(t, q, k)].n
    <3>1. Enclosing(t, q, k) \in Slices(t, DOMAIN m)
      BY <2>1 DEF Around
    <3>2. Enclosing(t, q, k) \in DOMAIN m /\ q.at[k] \in 1..m[Enclosing(t, q, k)].n
      BY DEF Complete
    <3> QED
      BY <3>1, <3>2
  <2>3. Sliced(t, q) => /\ c[q].n \in Nat
                        /\ c[q].own = 0 => c[q].n = 0
                        /\ Elements(t, q, c[q].n) \subseteq DOMAIN c
    BY CompletePlaces DEF Slices
  <2> QED
    BY <2>1, <2>2, <2>3 DEF Place
<1> QED
  BY <1>1, <1>2 DEF Complete

(* A kind is one thing only.                                               *)
LEMMA Kinds == \A t, q : ~(Leaf(t, q) /\ Sliced(t, q))
BY DEF Leaf, Sliced

(***************************************************************************)
(* The values a message starts from are sound.                             *)
(***************************************************************************)
LEMMA ZeroIsSound ==
    ASSUME NEW t \in Catalogue
    PROVE  Sound(t, ZeroValue(t, Tops(t)))
<1> DEFINE z == ZeroValue(t, Tops(t))
<1>1. DOMAIN z = Tops(t) /\ \A q \in Tops(t) : z[q] = IF Sliced(t, q) THEN NilSlice ELSE "zero"
  BY DEF ZeroValue
<1>2. \A q \in Tops(t) : Place(t, q) /\ q.at = <<>> /\ DOMAIN q.at = {}
  BY TopPlaces, EmptySeq, LenProperties
<1>3. \A q \in Tops(t) : Sliced(t, q) => z[q].n = 0 /\ z[q].own = 0
  BY <1>1 DEF NilSlice
<1>4. \A q : Elements(t, q, 0) = {}
  BY DEF Elements
<1> HIDE DEF z
<1>5. Complete(t, z)
  <2>1. \A q \in Tops(t) : Leaf(t, q) => z[q] # "garbage"
    BY <1>1, Kinds
  <2> QED
    BY <1>1, <1>2, <1>3, <1>4, <2>1 DEF Complete, Place
<1>6. Unmixed(t, z)
  BY <1>1, <1>2 DEF Unmixed, Contents
<1>7. \A q \in Slices(t, DOMAIN z) : z[q].own # Clone
  BY <1>1, <1>3 DEF Slices, Clone
<1> QED
  BY <1>5, <1>6, <1>7 DEF Sound, z

LEMMA DefaultsAreSound ==
    ASSUME NEW t \in Catalogue
    PROVE  Sound(t, SetDefaults(t))
<1> DEFINE z == SetDefaults(t)
           full == {p \in Slices(t, Tops(t)) : t[p.slot].default}
           inner == UNION {Elements(t, p, 2) : p \in full}
<1>1. /\ DOMAIN z = Tops(t) \cup inner
      /\ \A q \in Tops(t) \cup inner :
           z[q] = IF Sliced(t, q)
                  THEN IF q \in full THEN [own |-> Sender, n |-> 2] ELSE NilSlice
                  ELSE IF q.at # <<>> \/ t[q.slot].default THEN "default"
                  ELSE "zero"
  BY DEF SetDefaults
<1>2. \A q \in Tops(t) : Place(t, q) /\ q.at = <<>> /\ DOMAIN q.at = {}
  BY TopPlaces, EmptySeq, LenProperties
<1>3. ASSUME NEW q \in inner
      PROVE  /\ Place(t, q) /\ q.at # <<>> /\ DOMAIN q.at = {1}
             /\ Enclosing(t, q, 1) \in full
             /\ q.at[1] \in 1..2
  <2>1. PICK p \in full : q \in Elements(t, p, 2)
    OBVIOUS
  <2>2. Place(t, p) /\ Sliced(t, p) /\ p.at = <<>>
    BY <1>2 DEF Slices
  <2>3. Place(t, q) /\ q.at # <<>> /\ Outer(t, q) = p /\ q.at[Len(q.at)] \in 1..2
    BY <2>1, <2>2, ElementPlaces
  <2>4. q.at \in Seq(Nat) /\ Len(q.at) \in Nat \ {0} /\ DOMAIN q.at = 1..Len(q.at)
    BY <2>3, EmptySeq, LenProperties DEF Place
  <2>5. Len(q.at) = 1
    <3>1. Len(q.at) \in DOMAIN q.at
      BY <2>4
    <3>2. Len(Outer(t, q).at) = Len(q.at) - 1
      BY <2>3, <3>1, EnclosingPlace DEF Outer
    <3>3. Len(Outer(t, q).at) = 0
      BY <2>2, <2>3, EmptySeq
    <3>4. \A k \in Nat : 0 = k - 1 => k = 1
      OBVIOUS
    <3> QED
      BY <2>4, <3>2, <3>3, <3>4
  <2>6. DOMAIN q.at = {1}
    BY <2>4, <2>5
  <2>7. Enclosing(t, q, 1) = p
    BY <2>3, <2>5 DEF Outer
  <2> QED
    BY <2>3, <2>5, <2>6, <2>7
<1>4. \A q : Elements(t, q, 0) = {}
  BY DEF Elements
<1>5. \A q \in full : q \in Tops(t) /\ Sliced(t, q) /\ Elements(t, q, 2) \subseteq inner
  BY DEF Slices
<1> HIDE DEF z, full, inner
<1>6. ASSUME NEW q \in DOMAIN z, Sliced(t, q)
      PROVE  \/ q \in full /\ z[q] = [own |-> 1, n |-> 2]
             \/ q \notin full /\ z[q] = [own |-> 0, n |-> 0]
  BY <1>1, <1>6 DEF NilSlice, Sender
<1>7. ASSUME NEW q \in DOMAIN z, Leaf(t, q)
      PROVE  z[q] # "garbage" /\ (q.at # <<>> => z[q] = "default")
  BY <1>1, <1>7, Kinds
<1>8. Complete(t, z)
  <2>1. ASSUME NEW q \in DOMAIN z
        PROVE  /\ Place(t, q)
               /\ \A k \in DOMAIN q.at : LET p == Enclosing(t, q, k)
                                         IN  p \in DOMAIN z /\ q.at[k] \in 1..z[p].n
    <3>1. CASE q \in Tops(t)
      BY <1>2, <3>1
    <3>2. CASE q \in inner
      <4>1. Enclosing(t, q, 1) \in DOMAIN z /\ z[Enclosing(t, q, 1)].n = 2
        BY <1>1, <1>3, <1>5, <1>6, <3>2
      <4> QED
        BY <1>3, <3>2, <4>1
    <3> QED
      BY <1>1, <3>1, <3>2
  <2>2. ASSUME NEW q \in DOMAIN z, Sliced(t, q)
        PROVE  /\ z[q].n \in Nat
               /\ z[q].own = 0 => z[q].n = 0
               /\ Elements(t, q, z[q].n) \subseteq DOMAIN z
    <3>1. CASE q \in full /\ z[q] = [own |-> 1, n |-> 2]
      BY <1>1, <1>5, <3>1
    <3>2. CASE q \notin full /\ z[q] = [own |-> 0, n |-> 0]
      BY <1>4, <3>2
    <3> QED
      BY <1>6, <2>2, <3>1, <3>2
  <2>3. Tops(t) \subseteq DOMAIN z
    BY <1>1
  <2> QED
    BY <1>7, <2>1, <2>2, <2>3 DEF Complete, Place
<1>9. Unmixed(t, z)
  BY <1>7 DEF Unmixed, Contents
<1>10. \A q \in Slices(t, DOMAIN z) : z[q].own # Clone
  BY <1>6 DEF Slices, Clone
<1> QED
  BY <1>8, <1>9, <1>10 DEF Sound, z

-----------------------------------------------------------------------------
(***************************************************************************)
(* Publishing: one round of T__Sequence_to_C.                              *)
(***************************************************************************)
LEMMA PublishStarts ==
    ASSUME NEW t \in Catalogue, NEW m, Complete(t, m)
    PROVE  CopyInC(t, Assigned(t, Tops(t), PrepareMemory(t), m), m,
                   Slices(t, Tops(t)))
<1> DEFINE c == Assigned(t, Tops(t), PrepareMemory(t), m)
<1>1. DOMAIN c = Tops(t)
  BY DEF Assigned, PrepareMemory
<1>2. \A q \in Tops(t) : Leaf(t, q) => c[q] = m[q]
  BY DEF Assigned, PrepareMemory
<1> QED
  BY <1>1, <1>2, ReachedFirst DEF CopyInC, Slices

LEMMA RoundToC ==
    ASSUME NEW t \in Catalogue, NEW m, Complete(t, m),
           NEW S, NEW c, CopyInC(t, c, m, S)
    PROVE  LET new == AllElements(t, S, m)
               headers == [p \in S |->
                             [data |-> IF m[p].n = 0 THEN "null" ELSE "malloc",
                              n |-> m[p].n]]
           IN  CopyInC(t, Assigned(t, new, Grown(c, headers, Malloced(t, new)), m),
                       m, Slices(t, new))
<1> DEFINE new == AllElements(t, S, m)
           h == [p \in S |-> [data |-> IF m[p].n = 0 THEN "null" ELSE "malloc",
                              n |-> m[p].n]]
           e == Malloced(t, new)
           g == Assigned(t, new, Grown(c, h, e), m)
<1>1. /\ DOMAIN c = Reached(t, m, S) /\ S \subseteq Slices(t, DOMAIN c)
      /\ new \cap DOMAIN c = {}
      /\ Reached(t, m, Slices(t, new)) = DOMAIN c \cup new
  BY ReachedNext DEF CopyInC
<1>2. DOMAIN e = new /\ DOMAIN h = S /\ S \subseteq DOMAIN c
  BY <1>1 DEF Malloced, Slices
<1>3. \A p \in S : h[p] = [data |-> IF m[p].n = 0 THEN "null" ELSE "malloc",
                            n |-> m[p].n]
  OBVIOUS
<1> HIDE DEF h, e, new
<1>4. /\ DOMAIN g = DOMAIN c \cup new
      /\ \A q \in DOMAIN g :
           g[q] = IF q \in new /\ Leaf(t, q) THEN m[q]
                  ELSE IF q \in new THEN e[q]
                  ELSE IF q \in S THEN h[q] ELSE c[q]
  BY <1>2 DEF Assigned, Grown
<1> HIDE DEF g
<1>5. ASSUME NEW q \in DOMAIN g, Leaf(t, q)
      PROVE  g[q] = m[q]
  BY <1>1, <1>2, <1>4, <1>5, Kinds DEF CopyInC, Slices
<1>6. ASSUME NEW q \in DOMAIN g, Sliced(t, q), q \notin Slices(t, new)
      PROVE  g[q] = [data |-> IF m[q].n = 0 THEN "null" ELSE "malloc",
                     n |-> m[q].n]
  <2>1. q \notin new /\ q \in DOMAIN c
    BY <1>4, <1>6 DEF Slices
  <2> QED
    BY <1>2, <1>3, <1>4, <1>6, <2>1 DEF CopyInC
<1>7. Slices(t, new) \subseteq Slices(t, DOMAIN g)
  BY <1>4 DEF Slices
<1> QED
  BY <1>1, <1>4, <1>5, <1>6, <1>7 DEF CopyInC, g, h, e, new

(* A conversion that is done has written everything.                       *)
LEMMA CopiedIsWritten ==
    ASSUME NEW t \in Catalogue, NEW m, Complete(t, m),
           NEW c, CopyInC(t, c, m, {})
    PROVE  Written(t, c)
<1>1. DOMAIN c = DOMAIN m
  BY ReachedFirst DEF CopyInC
<1>2. ASSUME NEW q \in DOMAIN c, Leaf(t, q) PROVE c[q] # "garbage"
  BY <1>1, <1>2 DEF CopyInC, Complete
<1>3. ASSUME NEW q \in DOMAIN c, Sliced(t, q)
      PROVE  /\ c[q].data = IF c[q].n = 0 THEN "null" ELSE "malloc"
             /\ Elements(t, q, c[q].n) \subseteq DOMAIN c
  <2>1. c[q] = [data |-> IF m[q].n = 0 THEN "null" ELSE "malloc", n |-> m[q].n]
    BY <1>3 DEF CopyInC
  <2> QED
    BY <1>1, <1>3, <2>1, CompletePlaces
<1> QED
  BY <1>2, <1>3 DEF Written

-----------------------------------------------------------------------------
(***************************************************************************)
(* Taking: one round of T__Sequence_to_Go.                                 *)
(***************************************************************************)
LEMMA TakeStarts ==
    ASSUME NEW t \in Catalogue, NEW m, Complete(t, m),
           NEW c, CopyInC(t, c, m, {}), NEW old, Complete(t, old), NEW owner
    PROVE  TakeOf(t, Assigned(t, Tops(t), old, c), m, old, Slices(t, Tops(t)), owner)
<1> DEFINE S == Slices(t, Tops(t))
           o == Assigned(t, Tops(t), old, c)
<1>1. /\ Reached(t, m, S) = Tops(t) /\ Reached(t, m, {}) = DOMAIN m
      /\ DOMAIN c = DOMAIN m /\ Tops(t) \subseteq DOMAIN m /\ Tops(t) \subseteq DOMAIN old
  BY ReachedFirst DEF CopyInC, Complete
<1>2. /\ DOMAIN o = DOMAIN old
      /\ \A q \in DOMAIN o :
           o[q] = IF q \in Tops(t) /\ Leaf(t, q) THEN c[q] ELSE old[q]
  BY DEF Assigned
<1>3. ASSUME NEW q \in DOMAIN old, ~Stays(t, m, S, q)
      PROVE  q \in Tops(t) /\ ~Sliced(t, q)
  <2>1. Place(t, q)
    BY CompletePlaces
  <2>2. Root(t, q) \in Tops(t) /\ ~Sliced(t, Root(t, q))
    BY <1>3, <2>1, Roots DEF Stays, Slices
  <2> QED
    BY <2>1, <2>2, Roots
<1>4. ASSUME NEW q \in Tops(t), Leaf(t, q)
      PROVE  ~Stays(t, m, S, q)
  <2>1. Root(t, q) = q /\ ~Sliced(t, q)
    BY <1>4, TopPlaces, AroundTop, Kinds
  <2> QED
    BY <2>1 DEF Stays, Slices, InEmpty
<1>5. S \subseteq Slices(t, Reached(t, m, S))
  BY <1>1
<1>6. DOMAIN o = {q \in Reached(t, m, S) : ~Stays(t, m, S, q)}
                 \cup {q \in DOMAIN old : Stays(t, m, S, q)}
  BY <1>1, <1>2, <1>3
<1>7. ASSUME NEW q \in DOMAIN o, Stays(t, m, S, q) PROVE o[q] = old[q]
  BY <1>2, <1>4, <1>7
<1>8. ASSUME NEW q \in DOMAIN o, ~Stays(t, m, S, q)
      PROVE  ~Sliced(t, q) /\ (Leaf(t, q) => o[q] = m[q])
  BY <1>1, <1>2, <1>3, <1>8 DEF CopyInC
<1> HIDE DEF o, S
<1> QED
  BY <1>5, <1>6, <1>7, <1>8 DEF TakeOf, o, S

(* Places under one root are in the same empty slice, or in none.          *)
LEMMA InnerInEmpty ==
    ASSUME NEW t \in Catalogue, NEW q, Place(t, q), NEW p \in Around(t, q), NEW m
    PROVE  InEmpty(t, m, p) <=> InEmpty(t, m, q)
BY AroundInner DEF InEmpty

(* A slice to be done is there; only those outside others stay.            *)
LEMMA ToDoInTake ==
    ASSUME NEW t \in Catalogue, NEW m, Complete(t, m), NEW old, Complete(t, old),
           NEW o, NEW S, NEW owner, TakeOf(t, o, m, old, S, owner), NEW p \in S
    PROVE  /\ p \in DOMAIN m /\ p \in DOMAIN o /\ p \in Reached(t, m, S)
           /\ Sliced(t, p) /\ Place(t, p) /\ m[p].n \in Nat
           /\ InEmpty(t, m, p) => m[p].n = 0
<1>1. p \in Reached(t, m, S) /\ Sliced(t, p)
  BY DEF TakeOf, Slices
<1>2. p \in DOMAIN m /\ Around(t, p) \cap S = {}
  BY <1>1 DEF Reached
<1>3. Place(t, p) /\ m[p].n \in Nat
  BY <1>1, <1>2, CompletePlaces
<1>4. InEmpty(t, m, p) => p.at = <<>> /\ Root(t, p) = p
  BY <1>2, NoneInEmpty
<1>5. p \in DOMAIN o
  <2>1. CASE Stays(t, m, S, p)
    <3>1. p.at = <<>>
      BY <1>2, <1>3, <1>4, <2>1, Roots DEF Stays
    <3>2. p \in DOMAIN old
      BY <1>3, <3>1, TopPlaces DEF Complete
    <3> QED
      BY <2>1, <3>2 DEF TakeOf
  <2>2. CASE ~Stays(t, m, S, p)
    BY <1>1, <2>2 DEF TakeOf
  <2> QED
    BY <2>1, <2>2
<1> QED
  BY <1>1, <1>2, <1>3, <1>4, <1>5 DEF InEmpty

LEMMA RoundToGo ==
    ASSUME NEW t \in Catalogue, NEW m, Complete(t, m),
           NEW c, CopyInC(t, c, m, {}), NEW old, Complete(t, old),
           NEW o, NEW S, NEW owner, owner # 0, TakeOf(t, o, m, old, S, owner)
    PROVE  LET sent == {p \in S : c[p].n # 0}
               new == AllElements(t, sent, c)
               headers == [p \in sent |-> [own |-> owner, n |-> c[p].n]]
           IN  TakeOf(t, Assigned(t, new, Grown(Without(t, o, sent), headers,
                                                ZeroValue(t, new)), c),
                      m, old, Slices(t, new), owner)
<1> DEFINE sent == {p \in S : c[p].n # 0}
           new == AllElements(t, sent, c)
           h == [p \in sent |-> [own |-> owner, n |-> c[p].n]]
           w == Without(t, o, sent)
           z == ZeroValue(t, new)
           g == Assigned(t, new, Grown(w, h, z), c)
           R == Reached(t, m, S)
           T == Slices(t, new)
<1>1. /\ DOMAIN c = DOMAIN m
      /\ \A q \in DOMAIN m : /\ Leaf(t, q) => c[q] = m[q]
                             /\ Sliced(t, q) => c[q].n = m[q].n
  BY ReachedFirst DEF CopyInC
<1>2. \A p \in S : c[p].n = m[p].n
  BY <1>1, ToDoInTake
<1>3. new = AllElements(t, S, m)
  <2>1. \A p \in S \ sent : Elements(t, p, m[p].n) = {}
    BY <1>2 DEF Elements
  <2> QED
    BY <1>2, <2>1 DEF AllElements
<1>4. /\ new \cap R = {}
      /\ Reached(t, m, T) = R \cup new
      /\ \A q : q \in new <=> q \in DOMAIN m /\ q.at # <<>> /\ Outer(t, q) \in S
  <2>1. S \subseteq Slices(t, R)
    BY DEF TakeOf
  <2>2. LET next == AllElements(t, S, m)
        IN  /\ next \cap R = {}
            /\ Reached(t, m, Slices(t, next)) = R \cup next
            /\ \A q : q \in next <=> q \in DOMAIN m /\ q.at # <<>> /\ Outer(t, q) \in S
    BY <2>1, ReachedNext
  <2> HIDE DEF new
  <2> QED
    BY <1>3, <2>2
<1>5. \A p \in sent : /\ p \in S /\ p \in DOMAIN m /\ p \in DOMAIN o /\ p \in R
                      /\ Sliced(t, p) /\ m[p].n # 0 /\ ~InEmpty(t, m, p)
  BY <1>2, ToDoInTake
<1>6. /\ DOMAIN w = {q \in DOMAIN o : Around(t, q) \cap sent = {}}
      /\ \A q \in DOMAIN w : w[q] = o[q]
  BY DEF Without, Around
<1>7. /\ DOMAIN g = new \cup sent \cup DOMAIN w
      /\ \A q \in DOMAIN g :
           g[q] = IF q \in new /\ Leaf(t, q) THEN c[q]
                  ELSE IF q \in new THEN IF Sliced(t, q) THEN NilSlice ELSE "zero"
                  ELSE IF q \in sent THEN [own |-> owner, n |-> c[q].n] ELSE w[q]
  BY DEF Assigned, Grown, ZeroValue
<1> HIDE DEF g, w, h, z, new
<1>8. ASSUME NEW q, Place(t, q) PROVE Stays(t, m, T, q) <=> InEmpty(t, m, q)
  <2>1. Root(t, q).at = <<>>
    BY <1>8, Roots, TopPlaces
  <2>2. Root(t, q) \notin T
    BY <1>4, <2>1 DEF Slices
  <2> QED
    BY <2>2 DEF Stays
<1>9. ASSUME NEW q \in R, Place(t, q), Stays(t, m, S, q), ~InEmpty(t, m, q)
      PROVE  q \in sent
  <2>1. Root(t, q) \in S /\ Sliced(t, Root(t, q)) /\ m[Root(t, q)].n # 0
    BY <1>9, ToDoInTake DEF Stays, InEmpty
  <2>2. Around(t, q) \cap S = {}
    BY DEF Reached
  <2>3. Root(t, q) = q
    BY <1>9, <2>1, <2>2, Roots
  <2> QED
    BY <1>2, <2>1, <2>3
<1>10. ASSUME NEW q \in DOMAIN w, Place(t, q), ~InEmpty(t, m, q), Stays(t, m, S, q)
       PROVE  q \in sent /\ q \in R
  <2>1. Root(t, q) \in S /\ Sliced(t, Root(t, q)) /\ m[Root(t, q)].n # 0
    BY <1>10, ToDoInTake DEF Stays, InEmpty
  <2>2. Root(t, q) \in sent
    BY <1>2, <2>1
  <2>3. Root(t, q) = q
    BY <1>6, <1>10, <2>2, Roots
  <2> QED
    BY <1>5, <2>2, <2>3
<1>11. ASSUME NEW q \in DOMAIN old, InEmpty(t, m, q)
       PROVE  q \in DOMAIN w /\ q \notin sent /\ q \notin new /\ o[q] = old[q]
  <2>1. Place(t, q)
    BY CompletePlaces
  <2>2. Stays(t, m, S, q)
    BY <1>11 DEF Stays
  <2>3. q \in DOMAIN o /\ o[q] = old[q]
    BY <2>2 DEF TakeOf
  <2>4. Around(t, q) \cap sent = {}
    BY <1>5, <1>11, <2>1, InnerInEmpty
  <2>5. q \notin new
    BY <1>4, <1>11, NoneInEmpty
  <2> QED
    BY <1>5, <1>6, <1>11, <2>3, <2>4, <2>5
<1>12. \A q \in DOMAIN o : Place(t, q) /\ (Stays(t, m, S, q) => q \in DOMAIN old)
                           /\ (~Stays(t, m, S, q) => q \in R)
  <2>1. \A q \in DOMAIN o : /\ q \in DOMAIN m \/ q \in DOMAIN old
                            /\ Stays(t, m, S, q) => q \in DOMAIN old
                            /\ ~Stays(t, m, S, q) => q \in R
    BY DEF TakeOf, Reached
  <2> QED
    BY <2>1, CompletePlaces
<1>13. \A q \in new : q \in DOMAIN m /\ Place(t, q) /\ ~InEmpty(t, m, q)
  BY <1>4, NoneInEmpty, CompletePlaces
<1>14. \A q \in R : q \in DOMAIN m /\ Place(t, q)
  BY CompletePlaces DEF Reached
<1>15. T \subseteq Slices(t, Reached(t, m, T))
  BY <1>4 DEF Slices
<1>16. ASSUME NEW q \in DOMAIN g
       PROVE  /\ Place(t, q)
              /\ ~InEmpty(t, m, q) => q \in R \cup new
              /\ InEmpty(t, m, q) => q \in DOMAIN old
  <2>1. CASE q \in new
    BY <1>13, <2>1
  <2>2. CASE q \in sent
    BY <1>5, <1>14, <2>2
  <2>3. CASE q \in DOMAIN w
    <3>1. q \in DOMAIN o /\ Place(t, q)
      BY <1>6, <1>12, <2>3
    <3>2. CASE Stays(t, m, S, q)
      BY <1>10, <1>12, <2>3, <3>1, <3>2
    <3>3. CASE ~Stays(t, m, S, q)
      BY <1>12, <3>1, <3>3 DEF Stays
    <3> QED
      BY <3>2, <3>3
  <2> QED
    BY <1>7, <2>1, <2>2, <2>3
<1>17. ASSUME NEW q \in R \cup new, ~InEmpty(t, m, q) PROVE q \in DOMAIN g
  <2>1. CASE q \in new
    BY <1>7, <2>1
  <2>2. CASE q \in R /\ Stays(t, m, S, q)
    BY <1>7, <1>9, <1>14, <1>17, <2>2
  <2>3. CASE q \in R /\ ~Stays(t, m, S, q)
    <3>1. q \in DOMAIN o
      BY <2>3 DEF TakeOf
    <3>2. Around(t, q) \cap sent = {}
      BY <2>3 DEF Reached
    <3> QED
      BY <1>6, <1>7, <3>1, <3>2
  <2> QED
    BY <1>17, <2>1, <2>2, <2>3
<1>18. DOMAIN g = {q \in Reached(t, m, T) : ~Stays(t, m, T, q)}
                  \cup {q \in DOMAIN old : Stays(t, m, T, q)}
  <2>1. \A q \in R \cup new : Place(t, q)
    BY <1>13, <1>14
  <2>2. \A q \in DOMAIN old : Place(t, q)
    BY CompletePlaces
  <2>3. \A q \in DOMAIN old : InEmpty(t, m, q) => q \in DOMAIN g
    BY <1>7, <1>11
  <2> QED
    BY <1>4, <1>8, <1>16, <1>17, <2>1, <2>2, <2>3
<1>19. ASSUME NEW q \in DOMAIN g, InEmpty(t, m, q) PROVE g[q] = old[q]
  BY <1>6, <1>7, <1>11, <1>16, <1>19
<1>20. ASSUME NEW q \in DOMAIN g, ~InEmpty(t, m, q)
       PROVE  /\ Leaf(t, q) => g[q] = m[q]
              /\ Sliced(t, q) => /\ q \in T => g[q] = NilSlice
                                 /\ q \notin T => g[q].n = m[q].n
                                 /\ g[q].own \in {0, owner}
                                 /\ g[q].own = 0 => g[q].n = 0
  <2>1. CASE q \in new
    <3>1. Leaf(t, q) => g[q] = m[q]
      BY <1>1, <1>7, <1>13, <2>1
    <3>2. Sliced(t, q) => g[q] = NilSlice /\ q \in T
      BY <1>7, <2>1, Kinds DEF Slices
    <3>3. NilSlice.own = 0 /\ NilSlice.n = 0
      BY DEF NilSlice
    <3> HIDE DEF T
    <3> QED
      BY <3>1, <3>2, <3>3
  <2>2. CASE q \notin new /\ q \in sent
    <3>1. g[q] = [own |-> owner, n |-> m[q].n]
      BY <1>2, <1>5, <1>7, <2>2
    <3>2. ~Leaf(t, q) /\ q \notin T
      BY <1>5, <2>2, Kinds DEF Slices
    <3> QED
      BY <3>1, <3>2
  <2>3. CASE q \notin new /\ q \notin sent
    <3>1. q \in DOMAIN w /\ g[q] = o[q] /\ q \in DOMAIN o
      BY <1>6, <1>7, <2>3
    <3>2. ~Stays(t, m, S, q)
      BY <1>10, <1>20, <1>16, <2>3, <3>1
    <3>3. q \notin T
      BY <2>3 DEF Slices
    <3>4. q \in S => m[q].n = 0
      BY <1>2, <2>3
    <3>5. /\ Leaf(t, q) => o[q] = m[q]
          /\ Sliced(t, q) => /\ q \in S => o[q] = NilSlice
                             /\ q \notin S => o[q].n = m[q].n
                             /\ o[q].own \in {0, owner}
                             /\ o[q].own = 0 => o[q].n = 0
      BY <3>1, <3>2 DEF TakeOf
    <3> QED
      BY <3>1, <3>3, <3>4, <3>5 DEF NilSlice
  <2> QED
    BY <2>1, <2>2, <2>3
<1> HIDE DEF sent, T, R
<1>21. TakeOf(t, g, m, old, T, owner)
  BY <1>8, <1>15, <1>16, <1>18, <1>19, <1>20 DEF TakeOf
<1> QED
  BY <1>21 DEF g, w, h, z, new, sent, T

(***************************************************************************)
(* What a take that is done has made of a message.                         *)
(***************************************************************************)
LEMMA TakeDone ==
    ASSUME NEW t \in Catalogue, NEW m, Complete(t, m), NEW old, Complete(t, old),
           NEW o, NEW owner, TakeOf(t, o, m, old, {}, owner)
    PROVE  /\ TakenOver(t, o, m, old)
           /\ \A q \in DOMAIN o : Place(t, q)
           /\ \A q \in DOMAIN o : ~InEmpty(t, m, q) =>
                /\ q \in DOMAIN m
                /\ Sliced(t, q) => /\ o[q].own \in {0, owner}
                                   /\ o[q].own = 0 => o[q].n = 0
<1>1. Reached(t, m, {}) = DOMAIN m
  BY ReachedFirst
<1>2. \A q : Stays(t, m, {}, q) <=> InEmpty(t, m, q)
  BY DEF Stays
<1>3. DOMAIN o = {q \in DOMAIN m : ~InEmpty(t, m, q)}
                 \cup {q \in DOMAIN old : InEmpty(t, m, q)}
  BY <1>1, <1>2 DEF TakeOf
<1>4. \A q \in DOMAIN o :
        IF InEmpty(t, m, q) THEN o[q] = old[q]
        ELSE /\ Leaf(t, q) => o[q] = m[q]
             /\ Sliced(t, q) => /\ o[q].n = m[q].n
                                /\ o[q].own \in {0, owner}
                                /\ o[q].own = 0 => o[q].n = 0
  BY <1>2 DEF TakeOf
<1>5. \A q \in DOMAIN o : Place(t, q)
  BY <1>3, CompletePlaces
<1> QED
  BY <1>3, <1>4, <1>5 DEF TakenOver, SameAt

LEMMA CallbackDone ==
    ASSUME NEW t \in Catalogue, NEW m, Complete(t, m), NEW o,
           TakenOver(t, o, m, ZeroValue(t, Tops(t)))
    PROVE  SameContent(t, o, m)
<1> DEFINE z == ZeroValue(t, Tops(t))
<1>1. /\ DOMAIN z = Tops(t) /\ Tops(t) \subseteq DOMAIN m
      /\ \A q \in Tops(t) : Sliced(t, q) => z[q].n = 0
  BY DEF ZeroValue, NilSlice, Complete
<1>2. ASSUME NEW q \in DOMAIN m, InEmpty(t, m, q)
      PROVE  q \in Tops(t) /\ Sliced(t, q) /\ m[q].n = 0
  <2>1. q.at = <<>> /\ Root(t, q) = q /\ Place(t, q)
    BY <1>2, NoneInEmpty, CompletePlaces
  <2> QED
    BY <1>2, <2>1, TopPlaces DEF InEmpty
<1> HIDE DEF z
<1>3. DOMAIN o = DOMAIN m
  BY <1>1, <1>2 DEF TakenOver, z
<1>4. ASSUME NEW q \in DOMAIN m PROVE SameAt(t, o, m, q)
  <2>1. CASE InEmpty(t, m, q)
    <3>1. o[q] = z[q]
      BY <1>3, <2>1 DEF TakenOver, z
    <3> QED
      BY <1>1, <1>2, <2>1, <3>1, Kinds DEF SameAt
  <2>2. CASE ~InEmpty(t, m, q)
    BY <1>3, <2>2 DEF TakenOver
  <2> QED
    BY <2>1, <2>2
<1> QED
  BY <1>3, <1>4 DEF SameContent

(* The elements of a slice have its root.                                  *)
LEMMA ElementsInEmpty ==
    ASSUME NEW t \in Catalogue, NEW p, Place(t, p), Sliced(t, p), NEW n \in Nat,
           NEW q \in Elements(t, p, n), NEW m
    PROVE  InEmpty(t, m, q) <=> InEmpty(t, m, p)
<1>1. Place(t, q) /\ q.at # <<>> /\ Outer(t, q) = p
  BY ElementPlaces
<1>2. p \in Around(t, q)
  BY <1>1, AroundPlaces
<1> QED
  BY <1>1, <1>2, InnerInEmpty

LEMMA TakeIsComplete ==
    ASSUME NEW t \in Catalogue, NEW m, Complete(t, m), NEW old, Complete(t, old),
           NEW o, NEW owner, TakeOf(t, o, m, old, {}, owner)
    PROVE  Complete(t, o)
<1>1. /\ {q \in DOMAIN o : InEmpty(t, m, q)} = {q \in DOMAIN old : InEmpty(t, m, q)}
      /\ {q \in DOMAIN o : ~InEmpty(t, m, q)} = {q \in DOMAIN m : ~InEmpty(t, m, q)}
      /\ \A q \in DOMAIN o : IF InEmpty(t, m, q) THEN o[q] = old[q]
                             ELSE SameAt(t, o, m, q)
  BY TakeDone DEF TakenOver
<1>2. Tops(t) \subseteq DOMAIN o
  BY <1>1 DEF Complete
<1>3. ASSUME NEW q \in DOMAIN o
      PROVE  /\ Place(t, q)
             /\ \A k \in DOMAIN q.at : LET p == Enclosing(t, q, k)
                                       IN  p \in DOMAIN o /\ q.at[k] \in 1..o[p].n
             /\ Sliced(t, q) => /\ o[q].n \in Nat
                                /\ o[q].own = 0 => o[q].n = 0
                                /\ Elements(t, q, o[q].n) \subseteq DOMAIN o
             /\ Leaf(t, q) => o[q] # "garbage"
  <2>1. Place(t, q)
    BY TakeDone
  <2>2. ASSUME NEW k \in DOMAIN q.at
        PROVE  /\ Enclosing(t, q, k) \in DOMAIN o
               /\ q.at[k] \in 1..o[Enclosing(t, q, k)].n
    <3> DEFINE p == Enclosing(t, q, k)
    <3>1. p \in Around(t, q) /\ Sliced(t, p)
      BY <2>1, AroundInner DEF Around
    <3>2. InEmpty(t, m, p) <=> InEmpty(t, m, q)
      BY <2>1, <3>1, InnerInEmpty
    <3>3. CASE InEmpty(t, m, q)
      <4>1. p \in DOMAIN old /\ q.at[k] \in 1..old[p].n
        BY <1>1, <3>3 DEF Complete
      <4> HIDE DEF p
      <4> QED
        BY <1>1, <3>2, <3>3, <4>1 DEF p
    <3>4. CASE ~InEmpty(t, m, q)
      <4>1. p \in DOMAIN m /\ q.at[k] \in 1..m[p].n
        BY <1>1, <3>4 DEF Complete
      <4>2. p \in DOMAIN o /\ o[p].n = m[p].n
        BY <1>1, <3>1, <3>2, <3>4, <4>1 DEF SameAt
      <4> QED
        BY <4>1, <4>2
    <3> QED
      BY <3>3, <3>4
  <2>3. ASSUME Sliced(t, q)
        PROVE  /\ o[q].n \in Nat
               /\ o[q].own = 0 => o[q].n = 0
               /\ Elements(t, q, o[q].n) \subseteq DOMAIN o
    <3>1. CASE InEmpty(t, m, q)
      <4>1. q \in DOMAIN old /\ o[q] = old[q]
        BY <1>1, <3>1
      <4>2. /\ old[q].n \in Nat /\ (old[q].own = 0 => old[q].n = 0)
            /\ Elements(t, q, old[q].n) \subseteq DOMAIN old
        BY <2>3, <4>1 DEF Complete
      <4>3. \A e \in Elements(t, q, old[q].n) : InEmpty(t, m, e)
        BY <2>1, <2>3, <3>1, <4>2, ElementsInEmpty
      <4> QED
        BY <1>1, <4>1, <4>2, <4>3
    <3>2. CASE ~InEmpty(t, m, q)
      <4>1. q \in DOMAIN m /\ o[q].n = m[q].n /\ (o[q].own = 0 => o[q].n = 0)
        BY <1>1, <2>3, <3>2, TakeDone DEF SameAt
      <4>2. m[q].n \in Nat /\ Elements(t, q, m[q].n) \subseteq DOMAIN m
        BY <2>3, <4>1 DEF Complete
      <4>3. \A e \in Elements(t, q, m[q].n) : ~InEmpty(t, m, e)
        BY <2>1, <2>3, <3>2, <4>2, ElementsInEmpty
      <4> QED
        BY <1>1, <4>1, <4>2, <4>3
    <3> QED
      BY <3>1, <3>2
  <2>4. Leaf(t, q) => o[q] # "garbage"
    <3>1. CASE InEmpty(t, m, q)
      BY <1>1, <3>1 DEF Complete
    <3>2. CASE ~InEmpty(t, m, q)
      BY <1>1, <3>2 DEF Complete, SameAt
    <3> QED
      BY <3>1, <3>2
  <2> QED
    BY <2>1, <2>2, <2>3, <2>4
<1> QED
  BY <1>2, <1>3 DEF Complete, Place

LEMMA OneContent ==
    ASSUME NEW t, NEW m, Unmixed(t, m),
           NEW q \in DOMAIN m, Leaf(t, q), q.at # <<>>,
           NEW r \in DOMAIN m, Leaf(t, r), r.at # <<>>,
           Root(t, q) = Root(t, r)
    PROVE  m[q] = m[r]
<1> DEFINE a == [in |-> Root(t, q), content |-> m[q]]
           b == [in |-> Root(t, r), content |-> m[r]]
<1>1. a \in Contents(t, m) /\ b \in Contents(t, m)
  BY DEF Contents
<1>2. a.in = b.in
  OBVIOUS
<1>3. a.content = b.content
  BY <1>1, <1>2 DEF Unmixed
<1> QED
  BY <1>3

LEMMA TakeIsSound ==
    ASSUME NEW t \in Catalogue, NEW m, Complete(t, m), Unmixed(t, m),
           NEW old, Sound(t, old),
           NEW o, NEW owner, owner # Clone, TakeOf(t, o, m, old, {}, owner)
    PROVE  Sound(t, o)
<1>1. /\ {q \in DOMAIN o : InEmpty(t, m, q)} = {q \in DOMAIN old : InEmpty(t, m, q)}
      /\ {q \in DOMAIN o : ~InEmpty(t, m, q)} = {q \in DOMAIN m : ~InEmpty(t, m, q)}
      /\ \A q \in DOMAIN o : IF InEmpty(t, m, q) THEN o[q] = old[q]
                             ELSE SameAt(t, o, m, q)
  BY TakeDone DEF TakenOver, Sound
<1>2. Complete(t, o)
  BY TakeIsComplete DEF Sound
<1>3. Unmixed(t, o)
  <2>1. SUFFICES ASSUME NEW q \in DOMAIN o, Leaf(t, q), q.at # <<>>,
                        NEW r \in DOMAIN o, Leaf(t, r), r.at # <<>>,
                        Root(t, q) = Root(t, r)
                 PROVE  o[q] = o[r]
    BY DEF Unmixed, Contents
  <2>2. InEmpty(t, m, q) <=> InEmpty(t, m, r)
    BY <2>1 DEF InEmpty
  <2>3. CASE InEmpty(t, m, q)
    <3>1. old[q] = old[r]
      <4>1. q \in DOMAIN old /\ r \in DOMAIN old
        BY <1>1, <2>2, <2>3
      <4> QED
        BY <2>1, <4>1, OneContent DEF Sound
    <3> QED
      BY <1>1, <2>2, <2>3, <3>1
  <2>4. CASE ~InEmpty(t, m, q)
    <3>1. m[q] = m[r]
      <4>1. q \in DOMAIN m /\ r \in DOMAIN m
        BY <1>1, <2>2, <2>4
      <4> QED
        BY <2>1, <4>1, OneContent
    <3> QED
      BY <1>1, <2>1, <2>2, <2>4, <3>1 DEF SameAt
  <2> QED
    BY <2>3, <2>4
<1>4. ASSUME NEW q \in Slices(t, DOMAIN o) PROVE o[q].own # Clone
  <2>1. q \in DOMAIN o /\ Sliced(t, q)
    BY DEF Slices
  <2>2. CASE InEmpty(t, m, q)
    BY <1>1, <2>1, <2>2 DEF Sound, Slices
  <2>3. CASE ~InEmpty(t, m, q)
    BY <2>1, <2>3, TakeDone DEF Sound, Clone
  <2> QED
    BY <2>2, <2>3
<1> QED
  BY <1>2, <1>3, <1>4 DEF Sound

-----------------------------------------------------------------------------
(***************************************************************************)
(* Cloning: one round of CloneTSlice.                                      *)
(***************************************************************************)
LEMMA KeepStarts ==
    ASSUME NEW t \in Catalogue, NEW m, Complete(t, m)
    PROVE  CloneOf(t, Assigned(t, Tops(t), ZeroValue(t, Tops(t)), m), m,
                   Slices(t, Tops(t)))
<1> DEFINE c == Assigned(t, Tops(t), ZeroValue(t, Tops(t)), m)
<1>1. /\ c = [q \in DOMAIN c |-> c[q]]
      /\ DOMAIN c = Tops(t)
      /\ \A q \in DOMAIN c : c[q] = IF Leaf(t, q) THEN m[q]
                                    ELSE IF Sliced(t, q) THEN NilSlice ELSE "zero"
  BY DEF Assigned, ZeroValue
<1>2. DOMAIN c = Reached(t, m, Slices(t, Tops(t)))
  BY <1>1, ReachedFirst
<1>3. \A q \in DOMAIN c : /\ Leaf(t, q) => c[q] = m[q]
                          /\ Sliced(t, q) => q \in Slices(t, Tops(t)) /\ c[q] = NilSlice
  BY <1>1, Kinds DEF Slices
<1>4. Slices(t, Tops(t)) = Slices(t, DOMAIN c)
  BY <1>1
<1> HIDE DEF c
<1> QED
  BY <1>1, <1>2, <1>3, <1>4 DEF CloneOf, c

LEMMA RoundOfClone ==
    ASSUME NEW t \in Catalogue, NEW m, Complete(t, m),
           NEW c, NEW S, CloneOf(t, c, m, S)
    PROVE  LET full == {p \in S : m[p].own # 0}
               new == AllElements(t, full, m)
               headers == [p \in full |-> [own |-> Clone, n |-> m[p].n]]
           IN  CloneOf(t, Assigned(t, new, Grown(c, headers, ZeroValue(t, new)), m),
                       m, Slices(t, new))
<1> DEFINE full == {p \in S : m[p].own # 0}
           new == AllElements(t, full, m)
           h == [p \in full |-> [own |-> Clone, n |-> m[p].n]]
           z == ZeroValue(t, new)
           g == Assigned(t, new, Grown(c, h, z), m)
           R == Reached(t, m, S)
           T == Slices(t, new)
<1>1. DOMAIN c = R /\ S \subseteq Slices(t, R)
  BY DEF CloneOf
<1>2. \A p \in S : p \in DOMAIN m /\ Sliced(t, p) /\ (m[p].own = 0 => m[p].n = 0)
  BY <1>1 DEF Reached, Slices, Complete
<1>3. new = AllElements(t, S, m)
  <2>1. \A p \in S \ full : Elements(t, p, m[p].n) = {}
    BY <1>2 DEF Elements
  <2> QED
    BY <2>1 DEF AllElements
<1>4. new \cap R = {} /\ Reached(t, m, T) = R \cup new
  <2>1. LET next == AllElements(t, S, m)
        IN  /\ next \cap R = {}
            /\ Reached(t, m, Slices(t, next)) = R \cup next
    BY <1>1, ReachedNext
  <2> HIDE DEF new
  <2> QED
    BY <1>3, <2>1
<1>5. /\ g = [q \in DOMAIN g |-> g[q]]
      /\ DOMAIN g = new \cup full \cup R
      /\ \A q \in DOMAIN g :
           g[q] = IF q \in new /\ Leaf(t, q) THEN m[q]
                  ELSE IF q \in new THEN IF Sliced(t, q) THEN NilSlice ELSE "zero"
                  ELSE IF q \in full THEN [own |-> Clone, n |-> m[q].n] ELSE c[q]
  BY <1>1 DEF Assigned, Grown, ZeroValue
<1> HIDE DEF g, h, z, new
<1>6. DOMAIN g = Reached(t, m, T) /\ T \subseteq Slices(t, DOMAIN g)
  BY <1>1, <1>4, <1>5 DEF Slices
<1>7. ASSUME NEW q \in DOMAIN g
      PROVE  /\ Leaf(t, q) => g[q] = m[q]
             /\ Sliced(t, q) => IF q \in T \/ m[q].own = 0 THEN g[q] = NilSlice
                                ELSE g[q] = [own |-> Clone, n |-> m[q].n]
  <2>1. CASE q \in new
    BY <1>5, <2>1, Kinds DEF Slices
  <2>2. CASE q \notin new /\ q \in full
    <3>1. Sliced(t, q) /\ ~Leaf(t, q) /\ m[q].own # 0 /\ q \notin T
      BY <1>2, <2>2, Kinds DEF Slices
    <3> QED
      BY <1>5, <2>2, <3>1
  <2>3. CASE q \notin new /\ q \notin full
    <3>1. q \in R /\ g[q] = c[q] /\ q \notin T
      BY <1>5, <2>3 DEF Slices
    <3>2. q \in S => m[q].own = 0
      BY <2>3
    <3>3. /\ Leaf(t, q) => c[q] = m[q]
          /\ Sliced(t, q) => IF q \in S \/ m[q].own = 0 THEN c[q] = NilSlice
                             ELSE c[q] = [own |-> Clone, n |-> m[q].n]
      BY <1>1, <3>1 DEF CloneOf
    <3> QED
      BY <3>1, <3>2, <3>3
  <2> QED
    BY <2>1, <2>2, <2>3
<1> HIDE DEF full, T, R
<1>8. CloneOf(t, g, m, T)
  BY <1>5, <1>6, <1>7 DEF CloneOf
<1> QED
  BY <1>8 DEF g, h, z, new, full, T

(* A clone that is done says what the original says, in its own memory.    *)
LEMMA CloneDone ==
    ASSUME NEW t \in Catalogue, NEW m, Complete(t, m),
           NEW c, CloneOf(t, c, m, {})
    PROVE  /\ SameContent(t, c, m)
           /\ \A q \in Slices(t, DOMAIN m) : c[q].own = 0 <=> m[q].own = 0
           /\ Detached(t, c)
<1>1. DOMAIN c = DOMAIN m
  BY ReachedFirst DEF CloneOf
<1>2. \A q \in DOMAIN m :
        /\ Leaf(t, q) => c[q] = m[q]
        /\ Sliced(t, q) /\ m[q].own = 0 => c[q] = [own |-> 0, n |-> 0]
        /\ Sliced(t, q) /\ m[q].own # 0 => c[q] = [own |-> 2, n |-> m[q].n]
  BY <1>1 DEF CloneOf, NilSlice, Clone
<1>3. \A q \in DOMAIN m : Sliced(t, q) => (m[q].own = 0 => m[q].n = 0)
  BY DEF Complete
<1>4. \A q \in DOMAIN m : Sliced(t, q) => /\ c[q].n = m[q].n
                                          /\ c[q].own = 0 <=> m[q].own = 0
  <2>1. SUFFICES ASSUME NEW q \in DOMAIN m, Sliced(t, q)
                 PROVE  c[q].n = m[q].n /\ (c[q].own = 0 <=> m[q].own = 0)
    OBVIOUS
  <2>2. CASE m[q].own = 0
    <3>1. c[q] = [own |-> 0, n |-> 0]
      BY <1>2, <2>1, <2>2
    <3>2. m[q].n = 0
      BY <1>3, <2>1, <2>2
    <3>3. c[q].own = 0 /\ c[q].n = 0
      BY <3>1
    <3> QED
      BY <2>2, <3>2, <3>3
  <2>3. CASE m[q].own # 0
    <3>1. c[q] = [own |-> 2, n |-> m[q].n]
      BY <1>2, <2>1, <2>3
    <3>2. c[q].own = 2 /\ c[q].n = m[q].n
      BY <3>1
    <3> QED
      BY <2>3, <3>2
  <2> QED
    BY <2>2, <2>3
<1>5. ASSUME NEW q \in DOMAIN c, q.at # <<>> PROVE c[Outer(t, q)].own = Clone
  <2>1. Outer(t, q) \in Slices(t, DOMAIN m) /\ m[Outer(t, q)].n # 0
    BY <1>1, <1>5, CompletePlaces
  <2>2. m[Outer(t, q)].own # 0
    BY <1>3, <2>1 DEF Slices
  <2>3. c[Outer(t, q)] = [own |-> 2, n |-> m[Outer(t, q)].n]
    BY <1>2, <2>1, <2>2 DEF Slices
  <2> QED
    BY <2>3 DEF Clone
<1>6. c = [q \in DOMAIN c |-> c[q]]
  BY DEF CloneOf
<1> QED
  BY <1>1, <1>2, <1>4, <1>5, <1>6 DEF SameContent, SameAt, Detached, Slices

-----------------------------------------------------------------------------
(***************************************************************************)
(* Editing the original.                                                   *)
(***************************************************************************)
LEMMA CloneNotEdited ==
    ASSUME NEW t \in Catalogue, NEW c, Detached(t, c), NEW o, Sound(t, o)
    PROVE  Edited(t, c, Owners(t, o)) = c
<1>1. Clone \notin Owners(t, o)
  BY DEF Owners, Sound
<1>2. \A q \in DOMAIN c : q.at # <<>> => c[Enclosing(t, q, Len(q.at))].own = Clone
  BY DEF Detached, Outer
<1>3. c = [q \in DOMAIN c |-> c[q]]
  BY DEF Detached
<1> HIDE DEF Clone
<1>4. Edited(t, c, Owners(t, o)) = [q \in DOMAIN c |-> c[q]]
  BY <1>1, <1>2 DEF Edited
<1> QED
  BY <1>3, <1>4

LEMMA EditedIsSound ==
    ASSUME NEW t \in Catalogue, NEW o, Sound(t, o)
    PROVE  Sound(t, [q \in DOMAIN o |-> IF Leaf(t, q) THEN "edited" ELSE o[q]])
<1> DEFINE e == [q \in DOMAIN o |-> IF Leaf(t, q) THEN "edited" ELSE o[q]]
<1>1. /\ DOMAIN e = DOMAIN o
      /\ \A q \in DOMAIN o : /\ Leaf(t, q) => e[q] = "edited"
                             /\ Sliced(t, q) => e[q] = o[q]
  BY Kinds
<1> HIDE DEF e
<1>2. \A q \in Slices(t, DOMAIN o) : e[q] = o[q] /\ (o[q].own = 0 => o[q].n = 0)
  BY <1>1 DEF Slices, Sound, Complete
<1>3. Complete(t, e)
  <2>1. Complete(t, o)
    BY DEF Sound
  <2>2. \A q \in DOMAIN o : Leaf(t, q) => e[q] # "garbage"
    BY <1>1
  <2> QED
    BY <1>1, <1>2, <2>1, <2>2, SameShape
<1>4. Unmixed(t, e)
  BY <1>1 DEF Unmixed, Contents
<1>5. \A q \in Slices(t, DOMAIN e) : e[q].own # Clone
  BY <1>1, <1>2 DEF Sound
<1> QED
  BY <1>3, <1>4, <1>5 DEF Sound, e

-----------------------------------------------------------------------------
(***************************************************************************)
(* The inductive invariant: one step per action.                           *)
(***************************************************************************)
LEMMA InitInv == Init => IInv
<1> SUFFICES ASSUME Init PROVE IInv
  OBVIOUS
<1>1. layout \in Catalogue /\ pc = "idle" /\ todo = {} /\ composed = 0 /\ taken = "never"
  BY DEF Init
<1>2. Sound(layout, msg) /\ Sound(layout, out)
  BY <1>1, ZeroIsSound, DefaultsAreSound DEF Init
<1>3. Detached(layout, kept)
  <2>1. kept = <<>> /\ DOMAIN <<>> = {}
    BY EmptySeq, LenProperties DEF Init
  <2>2. <<>> = [q \in {} |-> <<>>[q]]
    OBVIOUS
  <2> QED
    BY <2>1, <2>2 DEF Detached
<1>4. TypeOK
  BY <1>1, <1>2, MaxMessagesAssumption DEF TypeOK, Sound
<1> QED
  BY <1>1, <1>2, <1>3, <1>4 DEF IInv, Sound

LEMMA ComposeInv == IInv /\ Compose => IInv'
<1> SUFFICES ASSUME IInv, Compose PROVE IInv'
  OBVIOUS
<1>1. /\ layout \in Catalogue /\ layout' = layout /\ pc = "idle" /\ pc' = "composed"
      /\ composed \in 0..MaxMessages /\ composed' = composed + 1
      /\ composed + 1 \in 1..MaxMessages
      /\ todo' = todo /\ todo = {} /\ taken' = taken
      /\ taken \in {"never", "callback", "failed", "reused", "edited"}
  BY MaxMessagesAssumption DEF IInv, TypeOK, Compose
<1>2. Complete(layout, msg') /\ Unmixed(layout, msg')
  <2>1. CASE msg' = SetDefaults(layout)
    BY <1>1, <2>1, DefaultsAreSound DEF Sound
  <2>2. CASE msg' \in Compositions[layout][composed + 1]
    BY <1>1, <2>2, CompositionsAssumption
  <2> QED
    BY <2>1, <2>2 DEF Compose
<1>3. TypeOK' /\ composed' # 0
  <2>1. composed' \in 0..MaxMessages /\ composed' # 0
    BY <1>1, MaxMessagesAssumption
  <2> QED
    BY <1>1, <1>2, <2>1 DEF TypeOK
<1>4. Sound(layout, out) /\ Detached(layout, kept) /\ out' = out /\ kept' = kept
  BY <1>1 DEF IInv, Compose
<1> QED
  BY <1>1, <1>2, <1>3, <1>4 DEF IInv

LEMMA PublishInv == IInv /\ (Publish \/ SequenceToC \/ Send) => IInv'
<1> SUFFICES ASSUME IInv, Publish \/ SequenceToC \/ Send PROVE IInv'
  OBVIOUS
<1>1. /\ layout \in Catalogue /\ layout' = layout /\ msg' = msg /\ out' = out
      /\ kept' = kept /\ composed' = composed /\ taken' = taken
      /\ pc \in {"composed", "converting"}
  BY DEF IInv, Publish, SequenceToC, Send, Converted
<1>2. /\ Complete(layout, msg) /\ Unmixed(layout, msg) /\ Sound(layout, out)
      /\ Detached(layout, kept) /\ composed # 0 /\ composed \in 0..MaxMessages
      /\ taken \in {"never", "callback", "failed", "reused", "edited"}
  BY <1>1 DEF IInv, TypeOK
<1>3. CASE Publish
  <2>1. CopyInC(layout, cmem', msg, todo')
    BY <1>1, <1>2, <1>3, PublishStarts DEF Publish
  <2>2. pc' = "converting"
    BY <1>3 DEF Publish
  <2>3. TypeOK'
    BY <1>1, <1>2, <2>2 DEF TypeOK
  <2> QED
    BY <1>1, <1>2, <2>1, <2>2, <2>3 DEF IInv
<1>4. CASE SequenceToC
  <2>1. CopyInC(layout, cmem, msg, todo)
    BY <1>4 DEF IInv, SequenceToC
  <2>2. CopyInC(layout, cmem', msg, todo')
    BY <1>1, <1>2, <1>4, <2>1, RoundToC DEF SequenceToC
  <2>3. pc' = "converting"
    BY <1>4 DEF SequenceToC
  <2>4. TypeOK'
    BY <1>1, <1>2, <2>3 DEF TypeOK
  <2> QED
    BY <1>1, <1>2, <2>2, <2>3, <2>4 DEF IInv
<1>5. CASE Send
  <2>1. CopyInC(layout, cmem, msg, {}) /\ todo' = {}
    BY <1>5 DEF IInv, Send, Converted
  <2>2. (pc' = "sent" /\ cmem' = cmem) \/ pc' = "idle"
    BY <1>5 DEF Send
  <2>3. TypeOK'
    BY <1>1, <1>2, <2>1, <2>2 DEF TypeOK, Sound
  <2> QED
    BY <1>1, <1>2, <2>1, <2>2, <2>3 DEF IInv
<1> QED
  BY <1>3, <1>4, <1>5

LEMMA TakeIntoInv ==
    ASSUME IInv, NEW m, Sound(layout, m), TakeInto(m), taken' \in {"callback", "reused"},
           taken' = "callback" => m = ZeroValue(layout, Tops(layout))
    PROVE  IInv'
<1>1. /\ layout \in Catalogue /\ layout' = layout /\ msg' = msg /\ kept' = kept
      /\ composed' = composed /\ cmem' = cmem /\ before' = m
      /\ pc = "sent" /\ pc' = "taking"
  BY DEF IInv, TakeInto
<1>2. /\ Complete(layout, msg) /\ Unmixed(layout, msg) /\ Detached(layout, kept)
      /\ CopyInC(layout, cmem, msg, {}) /\ composed # 0 /\ composed \in 0..MaxMessages
  BY <1>1 DEF IInv, TypeOK
<1>3. TakeOf(layout, out', msg, m, todo', Taker(composed))
  <2>1. Complete(layout, m)
    BY DEF Sound
  <2> HIDE DEF Taker
  <2> QED
    BY <1>1, <1>2, <2>1, TakeStarts DEF TakeInto
<1>4. TypeOK'
  BY <1>1, <1>2 DEF TypeOK
<1> QED
  BY <1>1, <1>2, <1>3, <1>4 DEF IInv, Taker

LEMMA TakeInv ==
    IInv /\ (TakeInCallback \/ CallbackTakeFails \/ TakeMessage) => IInv'
<1> SUFFICES ASSUME IInv, TakeInCallback \/ CallbackTakeFails \/ TakeMessage
             PROVE  IInv'
  OBVIOUS
<1>1. layout \in Catalogue /\ Sound(layout, ZeroValue(layout, Tops(layout)))
  BY ZeroIsSound DEF IInv
<1>2. CASE TakeInCallback
  BY <1>1, <1>2, TakeIntoInv DEF TakeInCallback
<1>3. CASE TakeMessage
  <2>1. Sound(layout, out)
    BY <1>3 DEF IInv, TakeMessage, TakeInto
  <2> QED
    BY <1>3, <2>1, TakeIntoInv DEF TakeMessage
<1>4. CASE CallbackTakeFails
  <2>1. /\ layout' = layout /\ msg' = msg /\ kept' = kept /\ todo' = todo
        /\ composed' = composed /\ pc = "sent" /\ pc' = "idle" /\ taken' = "failed"
        /\ out' = ZeroValue(layout, Tops(layout))
    BY <1>4 DEF CallbackTakeFails
  <2>2. /\ Complete(layout, msg) /\ Unmixed(layout, msg) /\ Detached(layout, kept)
        /\ composed \in 0..MaxMessages /\ todo = {}
    BY <2>1 DEF IInv, TypeOK
  <2>3. TypeOK'
    BY <1>1, <2>1, <2>2 DEF TypeOK, Sound
  <2> QED
    BY <1>1, <2>1, <2>2, <2>3 DEF IInv
<1> QED
  BY <1>2, <1>3, <1>4

(* Takers are told from nil slices and from clones.                        *)
LEMMA Takers ==
    ASSUME NEW i \in Nat, i # 0
    PROVE  Taker(i) # 0 /\ Taker(i) # Clone
BY DEF Taker, Clone

(* What the invariant says during a take.                                  *)
LEMMA DuringTake ==
    ASSUME IInv, pc = "taking"
    PROVE  /\ layout \in Catalogue /\ Complete(layout, msg) /\ Unmixed(layout, msg)
           /\ CopyInC(layout, cmem, msg, {})
           /\ Sound(layout, before) /\ Complete(layout, before)
           /\ TakeOf(layout, out, msg, before, todo, Taker(composed))
           /\ Taker(composed) # 0 /\ Taker(composed) # Clone
           /\ Detached(layout, kept)
<1>1. composed \in Nat /\ composed # 0
  BY MaxMessagesAssumption DEF IInv, TypeOK
<1>2. Sound(layout, before) /\ TakeOf(layout, out, msg, before, todo, Taker(composed))
  BY DEF IInv
<1>3. CopyInC(layout, cmem, msg, {}) /\ Detached(layout, kept)
  BY DEF IInv
<1>4. layout \in Catalogue /\ Complete(layout, msg) /\ Unmixed(layout, msg)
  BY DEF IInv
<1> HIDE DEF Taker
<1> QED
  BY <1>1, <1>2, <1>3, <1>4, Takers DEF Sound

LEMMA SequenceToGoInv == IInv /\ SequenceToGo => IInv'
<1> SUFFICES ASSUME IInv, SequenceToGo PROVE IInv'
  OBVIOUS
<1>1. /\ layout' = layout /\ msg' = msg /\ kept' = kept /\ composed' = composed
      /\ cmem' = cmem /\ before' = before /\ taken' = taken
      /\ pc = "taking" /\ pc' = "taking"
  BY DEF SequenceToGo
<1>2. /\ composed # 0 /\ composed \in 0..MaxMessages
      /\ taken \in {"never", "callback", "failed", "reused", "edited"}
      /\ taken = "callback" => before = ZeroValue(layout, Tops(layout))
  BY <1>1 DEF IInv, TypeOK
<1>3. TakeOf(layout, out', msg, before, todo', Taker(composed))
  <2> HIDE DEF Taker
  <2> QED
    BY <1>1, DuringTake, RoundToGo DEF SequenceToGo
<1>4. TypeOK'
  BY <1>1, <1>2 DEF TypeOK
<1>5. /\ layout \in Catalogue /\ Complete(layout, msg) /\ Unmixed(layout, msg)
      /\ CopyInC(layout, cmem, msg, {}) /\ Sound(layout, before)
      /\ Detached(layout, kept)
  BY <1>1, DuringTake
<1> QED
  BY <1>1, <1>2, <1>3, <1>4, <1>5 DEF IInv, Taker

LEMMA TakeReturnsInv == IInv /\ TakeReturns => IInv'
<1> SUFFICES ASSUME IInv, TakeReturns PROVE IInv'
  OBVIOUS
<1>1. /\ layout' = layout /\ msg' = msg /\ kept' = kept /\ composed' = composed
      /\ out' = out /\ taken' = taken /\ todo' = todo /\ todo = {}
      /\ pc = "taking" /\ pc' = "idle"
  BY DEF TakeReturns, Taken
<1>2. /\ layout \in Catalogue /\ Complete(layout, msg) /\ Unmixed(layout, msg)
      /\ Detached(layout, kept)
  BY <1>1, DuringTake
<1>3. Sound(layout, out)
  BY <1>1, DuringTake, TakeIsSound
<1>4. TypeOK'
  BY <1>1, <1>3 DEF IInv, TypeOK, Sound
<1> QED
  BY <1>1, <1>2, <1>3, <1>4 DEF IInv

LEMMA CloneInv == IInv /\ (Keep \/ CloneSlice \/ CloneReturns) => IInv'
<1> SUFFICES ASSUME IInv, Keep \/ CloneSlice \/ CloneReturns PROVE IInv'
  OBVIOUS
<1>1. /\ layout \in Catalogue /\ layout' = layout /\ msg' = msg /\ out' = out
      /\ composed' = composed /\ taken' = taken /\ pc \in {"idle", "cloning"}
  BY DEF IInv, Keep, CloneSlice, CloneReturns, Cloned
<1>2. /\ Complete(layout, msg) /\ Unmixed(layout, msg) /\ Sound(layout, out)
      /\ Complete(layout, out) /\ composed \in 0..MaxMessages
      /\ taken \in {"never", "callback", "failed", "reused", "edited"}
  BY <1>1 DEF IInv, TypeOK, Sound
<1>3. CASE Keep
  <2>1. CloneOf(layout, kept', out, todo') /\ pc' = "cloning"
    BY <1>1, <1>2, <1>3, KeepStarts DEF Keep
  <2>2. TypeOK'
    BY <1>1, <1>2, <2>1 DEF TypeOK
  <2> QED
    BY <1>1, <1>2, <2>1, <2>2 DEF IInv
<1>4. CASE CloneSlice
  <2>1. CloneOf(layout, kept, out, todo) /\ pc = "cloning" /\ pc' = "cloning"
    BY <1>4 DEF IInv, CloneSlice
  <2>2. CloneOf(layout, kept', out, todo')
    BY <1>1, <1>2, <1>4, <2>1, RoundOfClone DEF CloneSlice
  <2>3. TypeOK'
    BY <1>1, <1>2, <2>1 DEF TypeOK
  <2> QED
    BY <1>1, <1>2, <2>1, <2>2, <2>3 DEF IInv
<1>5. CASE CloneReturns
  <2>1. /\ CloneOf(layout, kept, out, {}) /\ kept' = kept /\ pc' = "idle"
        /\ todo' = todo /\ todo = {}
    BY <1>5 DEF IInv, CloneReturns, Cloned
  <2>2. Detached(layout, kept)
    BY <1>1, <1>2, <2>1, CloneDone
  <2>3. TypeOK'
    BY <1>1, <1>2, <2>1 DEF TypeOK
  <2> QED
    BY <1>1, <1>2, <2>1, <2>2, <2>3 DEF IInv
<1> QED
  BY <1>3, <1>4, <1>5

LEMMA EditInv == IInv /\ Edit => IInv' /\ kept' = kept
<1> SUFFICES ASSUME IInv, Edit PROVE IInv' /\ kept' = kept
  OBVIOUS
<1>1. /\ layout \in Catalogue /\ layout' = layout /\ msg' = msg
      /\ composed' = composed /\ taken' = "edited" /\ pc = "idle" /\ pc' = "idle"
      /\ todo' = todo
  BY DEF IInv, Edit
<1>2. /\ Complete(layout, msg) /\ Unmixed(layout, msg) /\ Sound(layout, out)
      /\ Detached(layout, kept) /\ composed \in 0..MaxMessages /\ todo = {}
  BY <1>1 DEF IInv, TypeOK
<1>3. kept' = kept
  BY <1>1, <1>2, CloneNotEdited DEF Edit
<1>4. Sound(layout, out')
  BY <1>1, <1>2, EditedIsSound DEF Edit
<1>5. TypeOK'
  BY <1>1, <1>2, <1>4 DEF TypeOK, Sound
<1> QED
  BY <1>1, <1>2, <1>3, <1>4, <1>5 DEF IInv

LEMMA NextInv == IInv /\ [Next]_vars => IInv'
<1> SUFFICES ASSUME IInv, [Next]_vars PROVE IInv'
  OBVIOUS
<1>1. CASE Compose
  BY <1>1, ComposeInv
<1>2. CASE Publish \/ SequenceToC \/ Send
  BY <1>2, PublishInv
<1>3. CASE TakeInCallback \/ CallbackTakeFails \/ TakeMessage
  BY <1>3, TakeInv
<1>4. CASE SequenceToGo
  BY <1>4, SequenceToGoInv
<1>5. CASE TakeReturns
  BY <1>5, TakeReturnsInv
<1>6. CASE Keep \/ CloneSlice \/ CloneReturns
  BY <1>6, CloneInv
<1>7. CASE Edit
  BY <1>7, EditInv
<1>8. CASE UNCHANGED vars
  BY <1>8 DEF vars, IInv, TypeOK
<1> QED
  BY <1>1, <1>2, <1>3, <1>4, <1>5, <1>6, <1>7, <1>8 DEF Next

LEMMA Invariance == Spec => []IInv
BY InitInv, NextInv, PTL DEF Spec

-----------------------------------------------------------------------------
(***************************************************************************)
(* The theorems.                                                           *)
(***************************************************************************)
(* Whatever the layout and however many messages are sent, taken, kept and *)
(* written over, a program only ever sees complete messages: every slice   *)
(* has exactly its elements, down through slices in slices.                *)
THEOREM CompleteMessages == Spec => []TypeOK
<1>1. IInv => TypeOK
  BY DEF IInv
<1> QED
  BY <1>1, Invariance, PTL

(* What Publish hands to the middleware and ReleaseMemory frees is written *)
(* throughout, in every depth of slices: no stray pointer is freed.        *)
THEOREM AllWritten == Spec => []WrittenBeforeSent
<1>1. IInv => WrittenBeforeSent
  <2> SUFFICES ASSUME IInv, Converted \/ pc = "sent" PROVE Written(layout, cmem)
    BY DEF WrittenBeforeSent
  <2>1. CopyInC(layout, cmem, msg, {})
    BY DEF IInv, Converted
  <2>2. layout \in Catalogue /\ Complete(layout, msg)
    BY DEF IInv
  <2> QED
    BY <2>1, <2>2, CopiedIsWritten
<1> QED
  BY <1>1, Invariance, PTL

(* A subscription's callback is called with what was sent, and nothing of  *)
(* the messages before.                                                    *)
THEOREM CallbackGetsTheMessage == Spec => []CallbackExact
<1>1. IInv => CallbackExact
  <2> SUFFICES ASSUME IInv, Taken, taken = "callback"
               PROVE  SameContent(layout, out, msg)
    BY DEF CallbackExact
  <2>1. pc = "taking" /\ todo = {}
    BY DEF Taken
  <2>2. TakenOver(layout, out, msg, before)
    BY <2>1, DuringTake, TakeDone
  <2>3. before = ZeroValue(layout, Tops(layout))
    BY <2>1 DEF IInv
  <2>4. layout \in Catalogue /\ Complete(layout, msg)
    BY <2>1, DuringTake
  <2> QED
    BY <2>2, <2>3, <2>4, CallbackDone
<1> QED
  BY <1>1, Invariance, PTL

(* A message that is taken into again differs from what was sent in the    *)
(* slices that were sent empty, and there it is what it was.               *)
THEOREM OnlyEmptySlicesKept == Spec => []ReuseKeepsOnlyEmpty
<1>1. IInv => ReuseKeepsOnlyEmpty
  <2> SUFFICES ASSUME IInv, Taken PROVE TakenOver(layout, out, msg, before)
    BY DEF ReuseKeepsOnlyEmpty
  <2>1. pc = "taking" /\ todo = {}
    BY DEF Taken
  <2> QED
    BY <2>1, DuringTake, TakeDone
<1> QED
  BY <1>1, Invariance, PTL

(* However often a message is taken into, each of its slices is of one     *)
(* message.                                                                *)
THEOREM OneMessagePerSlice == Spec => []SlicesOfOneMessage
<1>1. IInv => SlicesOfOneMessage
  BY DEF IInv, Sound, SlicesOfOneMessage
<1> QED
  BY <1>1, Invariance, PTL

(* A clone says what the original says, with nil slices nil.               *)
THEOREM CloneSaysTheSame == Spec => []CloneExact
<1>1. IInv => CloneExact
  <2> SUFFICES ASSUME IInv, Cloned
               PROVE  /\ SameContent(layout, kept, out)
                      /\ \A q \in Slices(layout, DOMAIN out) :
                           kept[q].own = 0 <=> out[q].own = 0
    BY DEF CloneExact
  <2>1. pc = "cloning" /\ todo = {}
    BY DEF Cloned
  <2>2. CloneOf(layout, kept, out, {}) /\ layout \in Catalogue /\ Complete(layout, out)
    BY <2>1 DEF IInv, Sound
  <2> QED
    BY <2>2, CloneDone
<1> QED
  BY <1>1, Invariance, PTL

(* Nothing the program does to the original, or takes into it, changes the *)
(* clone.                                                                  *)
THEOREM CloneStays == Spec => CloneIndependent
<1>1. IInv /\ [Next]_vars => [kept # <<>> /\ pc # "cloning" => kept' = kept]_vars
  <2> SUFFICES ASSUME IInv, Next, kept # <<>>, pc # "cloning" PROVE kept' = kept
    OBVIOUS
  <2>1. CASE Edit
    BY <2>1, EditInv
  <2>2. CASE ~Edit
    BY <2>2 DEF Next, Compose, Publish, SequenceToC, Send, TakeInCallback,
                CallbackTakeFails, TakeMessage, TakeInto, SequenceToGo, TakeReturns,
                Keep, CloneSlice, CloneReturns, Cloned
  <2> QED
    BY <2>1, <2>2
<1> QED
  BY <1>1, Invariance, PTL DEF Spec, CloneIndependent

-----------------------------------------------------------------------------
(***************************************************************************)
(* What messages say, by field: the refinement of WholeMessage.            *)
(***************************************************************************)
\* The places that say what field f says.
Sayers(t, m, f) ==
    IF ~Sliced(t, f) THEN {f}
    ELSE IF m[f].n = 0 THEN {}
    ELSE {q \in DOMAIN m : Root(t, q) = f}

LEMMA ContentByField ==
    ASSUME NEW t, NEW m
    PROVE  /\ DOMAIN Content(t, m) = Tops(t)
           /\ Content(t, m) = [f \in Tops(t) |-> Content(t, m)[f]]
           /\ \A f \in Tops(t) :
                Content(t, m)[f] = [q \in Sayers(t, m, f) |-> Says(t, m, q)]
BY DEF Content, Sayers

LEMMA SameField ==
    ASSUME NEW t, NEW a, NEW b, NEW f \in Tops(t),
           Sayers(t, a, f) = Sayers(t, b, f),
           \A q \in Sayers(t, b, f) : SameAt(t, a, b, q)
    PROVE  Content(t, a)[f] = Content(t, b)[f]
<1>1. \A q \in Sayers(t, b, f) : Says(t, a, q) = Says(t, b, q)
  BY DEF SameAt, Says
<1>2. /\ Content(t, a)[f] = [q \in Sayers(t, a, f) |-> Says(t, a, q)]
      /\ Content(t, b)[f] = [q \in Sayers(t, b, f) |-> Says(t, b, q)]
  BY ContentByField
<1>3. [q \in Sayers(t, b, f) |-> Says(t, a, q)] = [q \in Sayers(t, b, f) |-> Says(t, b, q)]
  BY <1>1
<1> QED
  BY <1>2, <1>3

LEMMA NoElements ==
    ASSUME NEW f, DOMAIN f = {}, f = [q \in DOMAIN f |-> f[q]]
    PROVE  f = <<>>
OBVIOUS

LEMMA EmptyField ==
    ASSUME NEW t \in Catalogue, NEW m, Complete(t, m), NEW f \in Tops(t)
    PROVE  Content(t, m)[f] = <<>> <=> InEmpty(t, m, f)
<1>1. f \in DOMAIN m /\ Root(t, f) = f
  BY TopPlaces, AroundTop DEF Complete
<1>2. InEmpty(t, m, f) <=> Sliced(t, f) /\ m[f].n = 0
  BY <1>1 DEF InEmpty
<1>3. DOMAIN <<>> = {}
  BY EmptySeq, LenProperties
<1>4. CASE InEmpty(t, m, f)
  <2>1. Sayers(t, m, f) = {}
    BY <1>2, <1>4 DEF Sayers
  <2>2. Content(t, m)[f] = [q \in Sayers(t, m, f) |-> Says(t, m, q)]
    BY ContentByField
  <2>3. /\ DOMAIN Content(t, m)[f] = {}
        /\ Content(t, m)[f] = [q \in DOMAIN Content(t, m)[f] |-> Content(t, m)[f][q]]
    BY <2>1, <2>2
  <2>4. Content(t, m)[f] = <<>>
    BY <2>3, NoElements
  <2> QED
    BY <1>4, <2>4
<1>5. CASE ~InEmpty(t, m, f)
  <2>1. f \in Sayers(t, m, f)
    BY <1>1, <1>2, <1>5 DEF Sayers
  <2>2. Content(t, m)[f] = [q \in Sayers(t, m, f) |-> Says(t, m, q)]
    BY ContentByField
  <2>3. DOMAIN Content(t, m)[f] = Sayers(t, m, f)
    BY <2>2
  <2> QED
    BY <1>3, <1>5, <2>1, <2>3
<1> QED
  BY <1>4, <1>5

LEMMA ContentSame ==
    ASSUME NEW t \in Catalogue, NEW b, Complete(t, b), NEW a, SameContent(t, a, b)
    PROVE  Content(t, a) = Content(t, b)
<1>1. ASSUME NEW f \in Tops(t) PROVE Content(t, a)[f] = Content(t, b)[f]
  <2>1. f \in DOMAIN b
    BY DEF Complete
  <2>2. DOMAIN a = DOMAIN b /\ (Sliced(t, f) => a[f].n = b[f].n)
    BY <2>1 DEF SameContent, SameAt
  <2>3. Sayers(t, a, f) = Sayers(t, b, f) /\ Sayers(t, b, f) \subseteq DOMAIN b
    BY <2>1, <2>2 DEF Sayers
  <2>4. \A q \in Sayers(t, b, f) : SameAt(t, a, b, q)
    BY <2>3 DEF SameContent
  <2> QED
    BY <2>3, <2>4, SameField
<1> QED
  BY <1>1, ContentByField

(* What is sent is what the message said.                                  *)
LEMMA ContentSent ==
    ASSUME NEW t \in Catalogue, NEW m, Complete(t, m), NEW c, CopyInC(t, c, m, {})
    PROVE  Content(t, c) = Content(t, m)
<1>1. DOMAIN c = DOMAIN m
  BY ReachedFirst DEF CopyInC
<1>2. \A q \in DOMAIN m : /\ Leaf(t, q) => c[q] = m[q]
                          /\ Sliced(t, q) => c[q].n = m[q].n
  BY <1>1 DEF CopyInC
<1>3. SameContent(t, c, m)
  BY <1>1, <1>2 DEF SameContent, SameAt
<1> QED
  BY <1>3, ContentSame

(* A take merges what was sent into what was there.                        *)
LEMMA ContentTaken ==
    ASSUME NEW t \in Catalogue, NEW m, Complete(t, m), NEW old, Complete(t, old),
           NEW o, Complete(t, o), TakenOver(t, o, m, old)
    PROVE  Content(t, o) = [f \in DOMAIN Content(t, m) |->
                              IF Content(t, m)[f] = <<>> THEN Content(t, old)[f]
                              ELSE Content(t, m)[f]]
<1>1. /\ \A q : InEmpty(t, m, q) => (q \in DOMAIN o <=> q \in DOMAIN old)
      /\ \A q : ~InEmpty(t, m, q) => (q \in DOMAIN o <=> q \in DOMAIN m)
      /\ \A q \in DOMAIN o : InEmpty(t, m, q) => o[q] = old[q]
      /\ \A q \in DOMAIN o : ~InEmpty(t, m, q) => SameAt(t, o, m, q)
  BY DEF TakenOver
<1>2. ASSUME NEW f \in Tops(t)
      PROVE  Content(t, o)[f] = IF Content(t, m)[f] = <<>> THEN Content(t, old)[f]
                                ELSE Content(t, m)[f]
  <2>1. /\ f \in DOMAIN o /\ f \in DOMAIN m /\ f \in DOMAIN old
        /\ Root(t, f) = f
    BY TopPlaces, AroundTop DEF Complete
  <2>2. \A q : Root(t, q) = f => (InEmpty(t, m, q) <=> InEmpty(t, m, f))
    BY <2>1 DEF InEmpty
  <2>3. CASE InEmpty(t, m, f)
    <3>1. o[f] = old[f]
      BY <1>1, <2>1, <2>3
    <3>2. /\ Sayers(t, o, f) = Sayers(t, old, f)
          /\ \A q \in Sayers(t, old, f) : q \in DOMAIN o /\ InEmpty(t, m, q)
      BY <1>1, <2>1, <2>2, <2>3, <3>1 DEF Sayers
    <3>3. \A q \in Sayers(t, old, f) : SameAt(t, o, old, q)
      BY <1>1, <3>2 DEF SameAt
    <3>4. Content(t, o)[f] = Content(t, old)[f]
      BY <3>2, <3>3, SameField
    <3> QED
      BY <2>3, <3>4, EmptyField
  <2>4. CASE ~InEmpty(t, m, f)
    <3>1. Sliced(t, f) => o[f].n = m[f].n
      BY <1>1, <2>1, <2>4 DEF SameAt
    <3>2. /\ Sayers(t, o, f) = Sayers(t, m, f)
          /\ \A q \in Sayers(t, m, f) : q \in DOMAIN o /\ ~InEmpty(t, m, q)
      BY <1>1, <2>1, <2>2, <2>4, <3>1 DEF Sayers
    <3>3. \A q \in Sayers(t, m, f) : SameAt(t, o, m, q)
      BY <1>1, <3>2
    <3>4. Content(t, o)[f] = Content(t, m)[f]
      BY <3>2, <3>3, SameField
    <3> QED
      BY <2>4, <3>4, EmptyField
  <2> QED
    BY <2>3, <2>4
<1> QED
  BY <1>2, ContentByField

(* An edit leaves the fields that are empty, and no others, empty.         *)
LEMMA ContentEdited ==
    ASSUME NEW t \in Catalogue, NEW o, Sound(t, o), NEW f \in Tops(t)
    PROVE  LET e == [q \in DOMAIN o |-> IF Leaf(t, q) THEN "edited" ELSE o[q]]
           IN  Content(t, e)[f] = <<>> <=> Content(t, o)[f] = <<>>
<1> DEFINE e == [q \in DOMAIN o |-> IF Leaf(t, q) THEN "edited" ELSE o[q]]
<1>1. Complete(t, o) /\ Complete(t, e)
  BY EditedIsSound DEF Sound
<1>2. f \in DOMAIN o /\ Root(t, f) = f
  BY <1>1, TopPlaces, AroundTop DEF Complete
<1>3. Sliced(t, f) => e[f] = o[f]
  BY <1>2, Kinds
<1> HIDE DEF e
<1>4. InEmpty(t, e, f) <=> InEmpty(t, o, f)
  BY <1>2, <1>3 DEF InEmpty
<1>5. Content(t, e)[f] = <<>> <=> Content(t, o)[f] = <<>>
  BY <1>1, <1>4, EmptyField
<1> QED
  BY <1>5 DEF e

(***************************************************************************)
(* The steps of RosMessage, seen as steps on values.                       *)
(***************************************************************************)
Said == Content(layout, msg)
Wire == IF pc \in {"sent", "taking"} THEN {Content(layout, cmem)} ELSE {}
Got  == Content(layout, IF pc = "taking" THEN before ELSE out)
New  == pc = "taking" /\ taken = "callback"
Held == IF pc = "cloning" \/ kept = <<>> THEN {} ELSE {Content(layout, kept)}

Stutter ==
    Said' = Said /\ Wire' = Wire /\ Got' = Got /\ (New' <=> New) /\ Held' = Held

(* Whatever is in a message, what it says is a function of the fields.     *)
LEMMA Fields ==
    /\ DOMAIN Said = Tops(layout)
    /\ DOMAIN Got = Tops(layout)
BY ContentByField DEF Said, Got

(* The calls that convert a slice, or begin or fail, do not show.          *)
LEMMA HiddenSteps ==
    ASSUME \/ Publish \/ SequenceToC \/ SequenceToGo \/ TakeMessage
           \/ Keep \/ CloneSlice
           \/ Send /\ pc' = "idle"
           \/ CloneReturns /\ kept = <<>>
           \/ UNCHANGED vars
    PROVE  Stutter
<1>1. CASE Publish \/ SequenceToC \/ (Send /\ pc' = "idle")
  <2>1. /\ pc \in {"composed", "converting"} /\ pc' \in {"converting", "idle"}
        /\ UNCHANGED <<layout, msg, out, kept>>
    BY <1>1 DEF Publish, SequenceToC, Send, Converted
  <2>2. /\ pc \notin {"sent", "taking", "cloning"} /\ pc' \notin {"sent", "taking", "cloning"}
        /\ pc # "taking" /\ pc' # "taking" /\ pc # "cloning" /\ pc' # "cloning"
    BY <2>1
  <2> QED
    BY <2>1, <2>2 DEF Stutter, Said, Wire, Got, New, Held
<1>2. CASE TakeMessage
  <2>1. /\ pc = "sent" /\ pc' = "taking" /\ before' = out /\ taken' = "reused"
        /\ UNCHANGED <<layout, msg, cmem, kept>>
    BY <1>2 DEF TakeMessage, TakeInto
  <2> QED
    BY <2>1 DEF Stutter, Said, Wire, Got, New, Held
<1>3. CASE SequenceToGo
  <2>1. /\ pc = "taking" /\ UNCHANGED <<layout, pc, msg, cmem, before, taken, kept>>
    BY <1>3 DEF SequenceToGo
  <2> QED
    BY <2>1 DEF Stutter, Said, Wire, Got, New, Held
<1>4. CASE Keep
  <2>1. /\ pc = "idle" /\ pc' = "cloning" /\ kept = <<>>
        /\ UNCHANGED <<layout, msg, out>>
    BY <1>4 DEF Keep
  <2> QED
    BY <2>1 DEF Stutter, Said, Wire, Got, New, Held
<1>5. CASE CloneSlice
  <2>1. pc = "cloning" /\ UNCHANGED <<layout, pc, msg, out>>
    BY <1>5 DEF CloneSlice
  <2> QED
    BY <2>1 DEF Stutter, Said, Wire, Got, New, Held
<1>6. CASE CloneReturns /\ kept = <<>>
  <2>1. pc = "cloning" /\ pc' = "idle" /\ UNCHANGED <<layout, msg, out, kept>> /\ kept = <<>>
    BY <1>6 DEF CloneReturns, Cloned
  <2> QED
    BY <2>1 DEF Stutter, Said, Wire, Got, New, Held
<1>7. CASE UNCHANGED vars
  BY <1>7 DEF vars, Stutter, Said, Wire, Got, New, Held
<1> QED
  BY <1>1, <1>2, <1>3, <1>4, <1>5, <1>6, <1>7

LEMMA ComposeOfWhole == Compose => Whole!Compose
<1> SUFFICES ASSUME Compose PROVE Whole!Compose
  OBVIOUS
<1>1. pc = "idle" /\ pc' = "composed" /\ UNCHANGED <<layout, cmem, out, taken, kept>>
  BY DEF Compose
<1>2. /\ Wire = {} /\ Wire' = Wire /\ Got' = Got /\ Held' = Held
      /\ (New <=> FALSE) /\ (New' <=> FALSE)
  BY <1>1 DEF Wire, Got, New, Held
<1>3. DOMAIN Content(layout, msg) = DOMAIN Content(layout, msg)'
  BY <1>1, ContentByField
<1> QED
  BY <1>2, <1>3, Zenon DEF Whole!Compose, Whole!Other, Said, Wire, Got, New, Held

LEMMA SendOfWhole ==
    ASSUME IInv, Send, pc' = "sent"
    PROVE  Whole!Send
<1>1. pc = "converting" /\ todo = {} /\ UNCHANGED <<layout, msg, cmem, out, taken, kept>>
  BY DEF Send, Converted
<1>2. /\ Wire = {} /\ Said' = Said /\ Got' = Got /\ Held' = Held
      /\ (New <=> FALSE) /\ (New' <=> FALSE)
  BY <1>1 DEF Wire, Said, Got, New, Held
<1>3. CopyInC(layout, cmem, msg, {}) /\ Complete(layout, msg) /\ layout \in Catalogue
  BY <1>1 DEF IInv
<1>4. Content(layout, cmem) = Said
  BY <1>3, ContentSent DEF Said
<1>5. Wire' = {Said}
  BY <1>1, <1>4 DEF Wire
<1> QED
  BY <1>2, <1>5, Zenon DEF Whole!Send, Said, Wire, Got, New, Held

LEMMA DeclareOfWhole == TakeInCallback => Whole!Declare
<1> SUFFICES ASSUME TakeInCallback PROVE Whole!Declare
  OBVIOUS
<1>1. /\ pc = "sent" /\ pc' = "taking" /\ taken' = "callback"
      /\ UNCHANGED <<layout, msg, cmem, kept>>
  BY DEF TakeInCallback, TakeInto
<1>2. /\ Wire # {} /\ Wire' = Wire /\ Said' = Said /\ Held' = Held
      /\ (New <=> FALSE) /\ (New' <=> TRUE)
  BY <1>1 DEF Wire, Said, New, Held
<1>3. DOMAIN Got' = DOMAIN Got
  BY <1>1, ContentByField DEF Got
<1> QED
  BY <1>2, <1>3, Zenon DEF Whole!Declare, Whole!Other, Said, Wire, Got, New, Held

LEMMA TakeFailsOfWhole == CallbackTakeFails => Whole!TakeFails
<1> SUFFICES ASSUME CallbackTakeFails PROVE Whole!TakeFails
  OBVIOUS
<1>1. pc = "sent" /\ pc' = "idle" /\ UNCHANGED <<layout, msg, kept>>
  BY DEF CallbackTakeFails
<1>2. /\ Wire # {} /\ Wire' = {} /\ Said' = Said /\ Held' = Held
      /\ (New <=> FALSE) /\ (New' <=> FALSE)
  BY <1>1 DEF Wire, Said, New, Held
<1>3. DOMAIN Got' = DOMAIN Got
  BY <1>1, ContentByField DEF Got
<1> QED
  BY <1>2, <1>3, Zenon DEF Whole!TakeFails, Whole!Other, Said, Wire, Got, New, Held

LEMMA TakeOfWhole ==
    ASSUME IInv, IInv', TakeReturns
    PROVE  Whole!Take
<1>1. /\ pc = "taking" /\ todo = {} /\ pc' = "idle"
      /\ UNCHANGED <<layout, msg, out, taken, kept>>
  BY DEF TakeReturns, Taken
<1> DEFINE sent == Content(layout, cmem)
<1>2. /\ Wire = {sent} /\ Wire' = {} /\ Said' = Said /\ Held' = Held
      /\ (New <=> taken = "callback") /\ (New' <=> FALSE)
      /\ Got = Content(layout, before) /\ Got' = Content(layout, out)
  BY <1>1 DEF Wire, Said, Got, New, Held
<1>3. /\ layout \in Catalogue /\ Complete(layout, msg) /\ Complete(layout, before)
      /\ CopyInC(layout, cmem, msg, {})
      /\ TakeOf(layout, out, msg, before, {}, Taker(composed))
  BY <1>1, DuringTake
<1>4. Complete(layout, out)
  <2>1. Sound(layout, out)'
    BY <1>1 DEF IInv
  <2> QED
    BY <1>1, <2>1 DEF Sound
<1>5. TakenOver(layout, out, msg, before)
  BY <1>3, TakeDone
<1>6. sent = Content(layout, msg)
  BY <1>3, ContentSent
<1>7. Got' = IF New THEN sent ELSE Whole!Merged(Got, sent)
  <2>1. CASE New
    <3>1. before = ZeroValue(layout, Tops(layout))
      BY <1>1, <1>2, <2>1 DEF IInv
    <3>2. SameContent(layout, out, msg)
      BY <1>3, <1>5, <3>1, CallbackDone
    <3>3. Content(layout, out) = Content(layout, msg)
      BY <1>3, <3>2, ContentSame
    <3> QED
      BY <1>2, <1>6, <2>1, <3>3
  <2>2. CASE ~New
    <3>1. Content(layout, out) =
            [f \in DOMAIN sent |-> IF sent[f] = <<>> THEN Content(layout, before)[f]
                                   ELSE sent[f]]
      BY <1>3, <1>4, <1>5, <1>6, ContentTaken
    <3> QED
      BY <1>2, <2>2, <3>1 DEF Whole!Merged, Whole!Empty
  <2> QED
    BY <2>1, <2>2
<1> HIDE DEF sent
<1>8. \E m \in Wire : Got' = IF New THEN m ELSE Whole!Merged(Got, m)
  BY <1>2, <1>7
<1> QED
  BY <1>2, <1>8, Zenon DEF Whole!Take, Said, Wire, Got, New, Held

LEMMA CloneOfWhole ==
    ASSUME IInv, CloneReturns, kept # <<>>
    PROVE  Whole!Clone
<1>1. /\ pc = "cloning" /\ todo = {} /\ pc' = "idle"
      /\ UNCHANGED <<layout, msg, cmem, out, taken, kept>>
  BY DEF CloneReturns, Cloned
<1>2. /\ Wire = {} /\ Wire' = Wire /\ Said' = Said /\ Got' = Got /\ Held = {}
      /\ (New <=> FALSE) /\ (New' <=> FALSE)
      /\ Got = Content(layout, out) /\ Held' = {Content(layout, kept)}
  BY <1>1 DEF Wire, Said, Got, New, Held
<1>3. layout \in Catalogue /\ Complete(layout, out) /\ CloneOf(layout, kept, out, {})
  BY <1>1 DEF IInv, Sound
<1>4. Content(layout, kept) = Got
  BY <1>2, <1>3, CloneDone, ContentSame
<1>5. Held' = {Got}
  BY <1>2, <1>4
<1> QED
  BY <1>2, <1>5, Zenon DEF Whole!Clone, Said, Wire, Got, New, Held

LEMMA EditOfWhole ==
    ASSUME IInv, Edit
    PROVE  Whole!Edit
<1>1. /\ pc = "idle" /\ UNCHANGED <<layout, pc, msg, cmem>>
      /\ out' = [q \in DOMAIN out |-> IF Leaf(layout, q) THEN "edited" ELSE out[q]]
  BY DEF Edit
<1>2. kept' = kept
  BY EditInv
<1>3. /\ Wire = {} /\ Wire' = Wire /\ Said' = Said /\ Held' = Held
      /\ (New <=> FALSE) /\ (New' <=> FALSE)
      /\ Got = Content(layout, out) /\ Got' = Content(layout, out')
  BY <1>1, <1>2 DEF Wire, Said, Got, New, Held
<1>4. layout \in Catalogue /\ Sound(layout, out)
  BY <1>1 DEF IInv
<1>5. DOMAIN Got = Tops(layout) /\ DOMAIN Got' = Tops(layout)
  BY <1>3, ContentByField
<1>6. ASSUME NEW f \in DOMAIN Got PROVE Got'[f] = <<>> <=> Got[f] = <<>>
  BY <1>1, <1>3, <1>4, <1>5, ContentEdited
<1> QED
  BY <1>3, <1>5, <1>6, Zenon
     DEF Whole!Edit, Whole!Other, Whole!Empty, Said, Wire, Got, New, Held

LEMMA StepsOfWhole ==
    ASSUME IInv, IInv', [Next]_vars
    PROVE  [Whole!Next]_(Whole!vars)
<1>1. ASSUME Stutter PROVE UNCHANGED Whole!vars
  BY <1>1, Zenon DEF Stutter, Whole!vars, Said, Wire, Got, New, Held
<1>2. CASE \/ Publish \/ SequenceToC \/ SequenceToGo \/ TakeMessage \/ Keep
           \/ CloneSlice \/ UNCHANGED vars
  BY <1>1, <1>2, HiddenSteps
<1>3. CASE Send
  <2>1. pc' = "sent" \/ pc' = "idle"
    BY <1>3 DEF Send
  <2> QED
    BY <1>1, <1>3, <2>1, HiddenSteps, SendOfWhole DEF Whole!Next
<1>4. CASE CloneReturns
  BY <1>1, <1>4, HiddenSteps, CloneOfWhole DEF Whole!Next
<1>5. CASE Compose
  BY <1>5, ComposeOfWhole DEF Whole!Next
<1>6. CASE TakeInCallback
  BY <1>6, DeclareOfWhole DEF Whole!Next
<1>7. CASE CallbackTakeFails
  BY <1>7, TakeFailsOfWhole DEF Whole!Next
<1>8. CASE TakeReturns
  BY <1>8, TakeOfWhole DEF Whole!Next
<1>9. CASE Edit
  BY <1>9, EditOfWhole DEF Whole!Next
<1> QED
  BY <1>2, <1>3, <1>4, <1>5, <1>6, <1>7, <1>8, <1>9 DEF Next

(* The conversions and clones, slice by slice, are to a program the steps  *)
(* of WholeMessage: what is published, taken and cloned are values, and a  *)
(* take leaves of an earlier message only the fields that were sent empty. *)
THEOREM ImplementsWhole == Spec => ImplementsWholeMessage
<1>1. Init => Whole!Init
  <2> SUFFICES ASSUME Init
               PROVE  Whole!Init
    OBVIOUS
  <2>1. pc = "idle" /\ kept = <<>>
    BY DEF Init
  <2>2. Wire = {} /\ Held = {} /\ (New <=> FALSE)
    BY <2>1 DEF Wire, Held, New
  <2>3. DOMAIN Got = DOMAIN Said
    BY Fields
  <2> QED
    BY <2>2, <2>3, Zenon DEF Whole!Init, Said, Wire, Got, New, Held
<1> QED
  BY <1>1, Invariance, StepsOfWhole, PTL DEF Spec, ImplementsWholeMessage, Whole!Spec
=============================================================================
