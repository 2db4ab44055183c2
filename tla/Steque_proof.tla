---------------------------- MODULE Steque_proof ----------------------------
(***************************************************************************)
(* What holds of the steque for every heap and every set of items: the     *)
(* list stays well formed, and behaves as a sequence.                      *)
(*                                                                         *)
(* The list is followed by a recursive function, so its proofs need an     *)
(* induction; SetInduction has it in a form without operator parameters.   *)
(***************************************************************************)
EXTENDS Steque, FiniteSetTheorems, SequenceTheorems, WellFoundedInduction, TLAPS

(* A set that has 0, and with each number up to n - 1 the next one, has    *)
(* all numbers up to n.                                                    *)
LEMMA SetInduction ==
    ASSUME NEW T, NEW n \in Nat, 0 \in T, \A k \in 1 .. n : k - 1 \in T => k \in T
    PROVE  0 .. n \subseteq T
<1>. DEFINE rest == (0 .. n) \ T
            intervals == {0 .. x : x \in rest}
<1>. SUFFICES ASSUME rest # {} PROVE FALSE
  OBVIOUS
<1>1. intervals \subseteq FiniteSubsetsOf(Nat) /\ intervals # {}
  <2>1. ASSUME NEW x \in rest PROVE 0 .. x \in FiniteSubsetsOf(Nat)
    <3>1. x \in Int /\ IsFiniteSet(0 .. x)
      BY FS_Interval
    <3>2. 0 .. x \in SUBSET Nat
      BY <3>1
    <3>. QED  BY <3>1, <3>2 DEF FiniteSubsetsOf
  <2>. QED  BY <2>1
<1>2. IsWellFoundedOn(StrictSubsetOrdering(Nat), FiniteSubsetsOf(Nat))
  BY FS_StrictSubsetOrderingWellFounded
<1>3. PICK I \in intervals : \A J \in intervals : <<J, I>> \notin StrictSubsetOrdering(Nat)
  <2>. HIDE DEF intervals
  <2>. QED  BY ONLY <1>1, <1>2, WFMin, Zenon
<1>4. PICK x \in rest : I = 0 .. x
  BY <1>3
<1>5. x \in 1 .. n /\ x - 1 \in rest
  BY <1>4
<1>6. <<0 .. (x - 1), 0 .. x>> \in StrictSubsetOrdering(Nat)
  <2>1. 0 .. (x - 1) \in SUBSET Nat /\ 0 .. x \in SUBSET Nat
    BY <1>5
  <2>2. 0 .. (x - 1) \subseteq 0 .. x /\ x \in 0 .. x /\ x \notin 0 .. (x - 1)
    BY <1>5
  <2>. QED  BY <2>1, <2>2 DEF StrictSubsetOrdering
<1>. QED  BY <1>3, <1>4, <1>5, <1>6

-----------------------------------------------------------------------------
(* A list as a relation between its parts: walk has the pointers from      *)
(* first to the NULL behind the n-th node, along link, through each of     *)
(* nodes once.                                                             *)
Linked(walk, n, first, last, link, nodes) ==
    /\ walk[0] = first /\ walk[n] = NULL
    /\ \A k \in 0 .. n - 1 : walk[k] \in nodes /\ walk[k + 1] = link[walk[k]]
    /\ \A m \in nodes : \E k \in 0 .. n - 1 : walk[k] = m
    /\ \A j, k \in 0 .. n - 1 : walk[j] = walk[k] => j = k
    /\ last = IF n = 0 THEN NULL ELSE walk[n - 1]

Items(walk, n, stored) == [k \in 1 .. n |-> stored[walk[k - 1]]]

(* A list with these fields and nodes has the contents s.                  *)
Holds(n, first, last, link, nodes, stored, s) ==
    \E walk : /\ Linked(walk, n, first, last, link, nodes)
              /\ Items(walk, n, stored) = s

(* The equation of Pointer, for n pointers.                                *)
Follows(g, n, first, link) ==
    g = [k \in 0 .. n |-> IF k = 0 THEN first
                          ELSE IF g[k - 1] = NULL THEN NULL ELSE link[g[k - 1]]]

(* It has a solution, whatever front and next are.                         *)
LEMMA WalkExists ==
    ASSUME NEW first, NEW link, NEW n \in Nat
    PROVE  \E g : Follows(g, n, first, link)
<1>. DEFINE T == {m \in 0 .. n : \E g : Follows(g, m, first, link)}
<1>1. 0 \in T
  <2>1. Follows([k \in 0 .. 0 |-> first], 0, first, link)
    BY DEF Follows
  <2>. QED  BY <2>1
<1>2. ASSUME NEW m \in 1 .. n, m - 1 \in T
      PROVE  m \in T
  <2>1. PICK g : Follows(g, m - 1, first, link)
    BY <1>2
  <2>. DEFINE h == [k \in 0 .. m |-> IF k < m THEN g[k]
                                    ELSE IF g[m - 1] = NULL THEN NULL
                                    ELSE link[g[m - 1]]]
  <2>2. g[0] = first /\ \A k \in 1 .. m - 1 :
                            g[k] = IF g[k - 1] = NULL THEN NULL ELSE link[g[k - 1]]
    BY <2>1 DEF Follows
  <2>3. ASSUME NEW k \in 0 .. m
        PROVE  h[k] = IF k = 0 THEN first
                      ELSE IF h[k - 1] = NULL THEN NULL ELSE link[h[k - 1]]
    <3>1. CASE k = 0
      BY <2>2, <3>1
    <3>2. CASE k \in 1 .. m - 1
      <4>1. h[k] = g[k] /\ h[k - 1] = g[k - 1]
        BY <3>2
      <4>. HIDE DEF h
      <4>. QED  BY <2>2, <3>2, <4>1
    <3>3. CASE k = m
      <4>1. h[k - 1] = g[m - 1] /\ k # 0
        BY <3>3
      <4>2. h[k] = IF g[m - 1] = NULL THEN NULL ELSE link[g[m - 1]]
        BY <3>3
      <4>. HIDE DEF h
      <4>. QED  BY <4>1, <4>2
    <3>. QED  BY <3>1, <3>2, <3>3
  <2>4. Follows(h, m, first, link)
    <3>1. h = [k \in 0 .. m |-> h[k]]
      OBVIOUS
    <3>. HIDE DEF h
    <3>. QED  BY <2>3, <3>1 DEF Follows
  <2>. HIDE DEF h
  <2>. QED  BY <2>4
<1>3. n \in T
  <2>. HIDE DEF T
  <2>1. 0 .. n \subseteq T
    BY <1>1, <1>2, SetInduction
  <2>. QED  BY <2>1
<1>. QED  BY <1>3

(* The heap is finite.                                                     *)
LEMMA HeapSize == Cardinality(Node) \in Nat
BY StequeAssumption, FS_CardinalityType

(* Pointer is what its recursive definition says: some function follows    *)
(* the links that many times, so the one that is chosen does.              *)
LEMMA PointerDef ==
    /\ Pointer[0] = front
    /\ \A k \in 1 .. Cardinality(Node) :
           Pointer[k] = IF Pointer[k - 1] = NULL THEN NULL ELSE next[Pointer[k - 1]]
<1>1. \E g : Follows(g, Cardinality(Node), front, next)
  BY HeapSize, WalkExists
<1>2. Follows(Pointer, Cardinality(Node), front, next)
  BY <1>1, Zenon DEF Pointer, Follows
<1>. QED  BY <1>2, HeapSize DEF Follows

-----------------------------------------------------------------------------
(* A well-formed list is linked, by its pointers, and the other way round. *)
LEMMA WellFormedLinked ==
    ASSUME WellFormed
    PROVE  Linked(Pointer, N, front, back, next, allocated)
<1>1. /\ N \in 0 .. Cardinality(Node) /\ allocated \subseteq Node
      /\ Pointer[N] = NULL /\ Cardinality(allocated) = N
      /\ {Pointer[k] : k \in 0 .. N - 1} = allocated
      /\ back = IF N = 0 THEN NULL ELSE Pointer[N - 1]
  BY DEF WellFormed, TypeOK
<1>2. N \in Nat /\ Cardinality(Node) \in Nat /\ NULL \notin allocated
  BY <1>1, HeapSize, StequeAssumption
<1>3. \A k \in 0 .. N - 1 : Pointer[k] \in allocated
  BY <1>1
<1>4. \A k \in 0 .. N - 1 : Pointer[k + 1] = next[Pointer[k]]
  <2>1. ASSUME NEW k \in 0 .. N - 1 PROVE Pointer[k + 1] = next[Pointer[k]]
    <3>1. k + 1 \in 1 .. Cardinality(Node) /\ k + 1 - 1 = k
      BY <1>1, <1>2
    <3>2. Pointer[k] # NULL
      BY <1>2, <1>3
    <3>. QED  BY <3>1, <3>2, PointerDef
  <2>. QED  BY <2>1
<1>5. \A j, k \in 0 .. N - 1 : Pointer[j] = Pointer[k] => j = k
  <2>. DEFINE f == [k \in 1 .. N |-> Pointer[k - 1]]
  <2>1. f \in Surjection(1 .. N, allocated)
    <3>1. f \in [1 .. N -> allocated]
      BY <1>2, <1>3
    <3>2. \A m \in allocated : \E k \in 1 .. N : f[k] = m
      <4>1. ASSUME NEW m \in allocated PROVE \E k \in 1 .. N : f[k] = m
        <5>1. PICK k \in 0 .. N - 1 : Pointer[k] = m
          BY <1>1
        <5>2. k + 1 \in 1 .. N /\ f[k + 1] = m
          BY <1>2, <5>1
        <5>. QED  BY <5>2
      <4>. QED  BY <4>1
    <3>. QED  BY <3>1, <3>2, Zenon DEF Surjection
  <2>2. /\ IsFiniteSet(1 .. N) /\ Cardinality(1 .. N) = N
        /\ IsFiniteSet(allocated)
    <3>1. IsFiniteSet(allocated)
      BY <1>1, FS_Subset, StequeAssumption
    <3>. QED  BY <1>2, <3>1, FS_Interval
  <2>3. f \in Injection(1 .. N, allocated)
    BY <1>1, <2>1, <2>2, FS_SurjSameCardinalityImpliesInj
  <2>4. \A i, j \in 1 .. N : f[i] = f[j] => i = j
    BY <2>3 DEF Injection, IsInjective
  <2>5. ASSUME NEW j \in 0 .. N - 1, NEW k \in 0 .. N - 1, Pointer[j] = Pointer[k]
        PROVE  j = k
    <3>1. j + 1 \in 1 .. N /\ k + 1 \in 1 .. N /\ f[j + 1] = f[k + 1]
      BY <1>2, <2>5
    <3>2. j + 1 = k + 1
      BY <2>4, <3>1
    <3>. QED  BY <1>2, <3>2
  <2>. QED  BY <2>5
<1>6. Pointer[0] = front
  BY PointerDef
<1>7. \A m \in allocated : \E k \in 0 .. N - 1 : Pointer[k] = m
  BY <1>1
<1>. QED  BY <1>1, <1>3, <1>4, <1>5, <1>6, <1>7 DEF Linked

(* Any enumeration of the list, given as a function, shows it well formed, *)
(* and Contents are the items in that order.  (A definition, so that it    *)
(* can be used of the next state.)                                         *)
LinkedSuffices ==
    \A walk : TypeOK /\ Linked(walk, N, front, back, next, allocated) =>
                  WellFormed /\ Contents = Items(walk, N, item)

(* Such an enumeration is Pointer, as both follow the same links.          *)
LEMMA LinkedWellFormed == LinkedSuffices
<1>. SUFFICES ASSUME NEW walk, TypeOK, Linked(walk, N, front, back, next, allocated)
              PROVE  WellFormed /\ Contents = Items(walk, N, item)
  BY DEF LinkedSuffices
<1>1. /\ N \in Nat /\ Cardinality(Node) \in Nat /\ N <= Cardinality(Node)
      /\ allocated \subseteq Node /\ NULL \notin allocated
  BY HeapSize, StequeAssumption DEF TypeOK
<1>2. /\ walk[0] = front /\ walk[N] = NULL
      /\ \A k \in 0 .. N - 1 : walk[k] \in allocated /\ walk[k + 1] = next[walk[k]]
      /\ \A m \in allocated : \E k \in 0 .. N - 1 : walk[k] = m
      /\ \A j, k \in 0 .. N - 1 : walk[j] = walk[k] => j = k
      /\ back = IF N = 0 THEN NULL ELSE walk[N - 1]
  BY DEF Linked
<1>3. \A k \in 0 .. N : Pointer[k] = walk[k]
  <2>. DEFINE T == {k \in 0 .. N : Pointer[k] = walk[k]}
  <2>1. 0 \in T
    BY <1>1, <1>2, PointerDef
  <2>2. ASSUME NEW k \in 1 .. N, k - 1 \in T
        PROVE  k \in T
    <3>1. k - 1 \in 0 .. N - 1 /\ k - 1 + 1 = k /\ k \in 1 .. Cardinality(Node)
      BY <1>1
    <3>2. Pointer[k - 1] = walk[k - 1] /\ walk[k - 1] \in allocated
          /\ walk[k] = next[walk[k - 1]]
      BY <1>2, <2>2, <3>1
    <3>3. Pointer[k] = walk[k]
      BY <1>1, <3>1, <3>2, PointerDef
    <3>. QED  BY <1>1, <3>3
  <2>3. 0 .. N \subseteq T
    <3>. HIDE DEF T
    <3>. QED  BY <1>1, <2>1, <2>2, SetInduction
  <2>. QED  BY <2>3
<1>4. {Pointer[k] : k \in 0 .. N - 1} = allocated
  <2>1. \A k \in 0 .. N - 1 : Pointer[k] = walk[k]
    BY <1>1, <1>3
  <2>. QED  BY <1>2, <2>1
<1>5. Pointer[N] = NULL /\ back = IF N = 0 THEN NULL ELSE Pointer[N - 1]
  <2>1. N \in 0 .. N /\ (N # 0 => N - 1 \in 0 .. N)
    BY <1>1
  <2>. QED  BY <1>2, <1>3, <2>1
<1>6. Cardinality(allocated) = N
  <2>. DEFINE f == [k \in 1 .. N |-> walk[k - 1]]
  <2>1. \A k \in 1 .. N : k - 1 \in 0 .. N - 1 /\ f[k] = walk[k - 1]
    BY <1>1
  <2>2. f \in [1 .. N -> allocated]
    BY <1>2, <2>1
  <2>3. \A i, j \in 1 .. N : f[i] = f[j] => i = j
    <3>1. ASSUME NEW i \in 1 .. N, NEW j \in 1 .. N, f[i] = f[j] PROVE i = j
      <4>1. i - 1 = j - 1
        BY <1>2, <2>1, <3>1
      <4>. QED  BY <1>1, <4>1
    <3>. QED  BY <3>1
  <2>4. \A m \in allocated : \E k \in 1 .. N : f[k] = m
    <3>1. ASSUME NEW m \in allocated PROVE \E k \in 1 .. N : f[k] = m
      <4>1. PICK k \in 0 .. N - 1 : walk[k] = m
        BY <1>2
      <4>2. k + 1 \in 1 .. N /\ k + 1 - 1 = k
        BY <1>1
      <4>. QED  BY <2>1, <4>1, <4>2
    <3>. QED  BY <3>1
  <2>. HIDE DEF f
  <2>5. f \in Surjection(1 .. N, allocated)
    BY <2>2, <2>4, Zenon DEF Surjection
  <2>6. f \in Injection(1 .. N, allocated)
    BY <2>2, <2>3, Zenon DEF Injection, IsInjective
  <2>7. IsFiniteSet(1 .. N) /\ Cardinality(1 .. N) = N
    BY <1>1, FS_Interval
  <2>. QED  BY <2>5, <2>6, <2>7, FS_Surjection
<1>7. Contents = Items(walk, N, item)
  <2>1. \A k \in 1 .. N : Pointer[k - 1] = walk[k - 1]
    BY <1>1, <1>3
  <2>. QED  BY <2>1 DEF Contents, Items
<1>. QED  BY <1>4, <1>5, <1>6, <1>7 DEF WellFormed

-----------------------------------------------------------------------------
(* Sequences as functions on 1 .. n.                                       *)
LEMMA CountedSeq ==
    ASSUME NEW S, NEW n \in Nat, NEW f \in [1 .. n -> S]
    PROVE  f \in Seq(S) /\ Len(f) = n
<1>1. f \in Seq(S)
  BY SeqDef
<1>2. Len(f) \in Nat /\ 1 .. Len(f) = 1 .. n
  BY <1>1, LenProperties
<1>. QED  BY <1>1, <1>2

(* Sequences given position by position: one element more at the end,      *)
LEMMA CountedAppend ==
    ASSUME NEW S, NEW n \in Nat, NEW s \in [1 .. n -> S], NEW x \in S,
           NEW t \in [1 .. n + 1 -> S], \A k \in 1 .. n : t[k] = s[k], t[n + 1] = x
    PROVE  t = Append(s, x)
<1>1. s \in Seq(S) /\ Len(s) = n
  BY CountedSeq
<1>3. t \in Seq(S) /\ Len(t) = n + 1
  BY CountedSeq
<1>4. /\ Append(s, x) \in Seq(S) /\ Len(Append(s, x)) = n + 1
      /\ \A k \in 1 .. n : Append(s, x)[k] = s[k]
      /\ Append(s, x)[n + 1] = x
  BY <1>1, AppendProperties
<1>5. \A k \in 1 .. n + 1 : t[k] = Append(s, x)[k]
  BY <1>4
<1>. QED  BY <1>3, <1>4, <1>5, SeqEqual, Zenon

(* one more in front,                                                      *)
LEMMA CountedPush ==
    ASSUME NEW S, NEW n \in Nat, NEW s \in [1 .. n -> S], NEW x \in S,
           NEW t \in [1 .. n + 1 -> S], t[1] = x, \A k \in 2 .. n + 1 : t[k] = s[k - 1]
    PROVE  t = <<x>> \o s
<1>1. s \in Seq(S) /\ Len(s) = n
  BY CountedSeq
<1>3. t \in Seq(S) /\ Len(t) = n + 1
  BY CountedSeq
<1>4. <<x>> \in Seq(S) /\ Len(<<x>>) = 1 /\ <<x>>[1] = x
  OBVIOUS
<1>5. /\ <<x>> \o s \in Seq(S) /\ Len(<<x>> \o s) = 1 + n
      /\ \A k \in 1 .. 1 + n : (<<x>> \o s)[k] = IF k <= 1 THEN <<x>>[k] ELSE s[k - 1]
  BY ONLY <1>1, <1>4, ConcatProperties
<1>6. \A k \in 1 .. n + 1 : t[k] = (<<x>> \o s)[k]
  BY <1>4, <1>5
<1>7. Len(t) = Len(<<x>> \o s)
  BY <1>3, <1>5
<1>. QED  BY <1>3, <1>5, <1>6, <1>7, SeqEqual, Zenon

(* and one less in front.                                                  *)
LEMMA CountedTail ==
    ASSUME NEW S, NEW n \in Nat, n # 0, NEW s \in [1 .. n -> S],
           NEW t \in [1 .. n - 1 -> S], \A k \in 1 .. n - 1 : t[k] = s[k + 1]
    PROVE  s # << >> /\ Head(s) = s[1] /\ t = Tail(s)
<1>1. s \in Seq(S) /\ Len(s) = n
  BY CountedSeq
<1>2. s # << >>
  BY <1>1, EmptySeq
<1>3. n - 1 \in Nat
  OBVIOUS
<1>4. t \in Seq(S) /\ Len(t) = n - 1
  BY <1>3, CountedSeq
<1>5. /\ Tail(s) \in Seq(S) /\ Len(Tail(s)) = n - 1 /\ Head(s) = s[1]
      /\ \A k \in 1 .. n - 1 : Tail(s)[k] = s[k + 1]
  BY <1>1, <1>2, HeadTailProperties
<1>6. t = Tail(s)
  BY <1>3, <1>4, <1>5, SeqEqual
<1>. QED  BY <1>2, <1>5, <1>6

-----------------------------------------------------------------------------
(* What the assignments of an operation make of a list, and of its items.  *)
LEMMA LinkAtBack ==
    ASSUME NEW s, NEW n \in Nat, NEW first, NEW last, NEW link \in [Node -> Node \union {NULL}],
           NEW nodes \in SUBSET Node, NEW stored \in [Node -> Item \union {NULL}],
           Holds(n, first, last, link, nodes, stored, s),
           NEW new \in Node \ nodes, NEW x \in Item,
           NEW link2, link2 = IF last = NULL THEN [link EXCEPT ![new] = NULL]
                              ELSE [link EXCEPT ![new] = NULL, ![last] = new]
    PROVE  Holds(n + 1, IF last = NULL THEN new ELSE first, new, link2, nodes \union {new},
                 [stored EXCEPT ![new] = x], Append(s, x))
<1>0. PICK walk : Linked(walk, n, first, last, link, nodes) /\ Items(walk, n, stored) = s
  BY DEF Holds
<1>. DEFINE walk2 == [k \in 0 .. n + 1 |-> IF k < n THEN walk[k]
                                          ELSE IF k = n THEN new ELSE NULL]
            stored2 == [stored EXCEPT ![new] = x]
<1>1. /\ walk[0] = first /\ walk[n] = NULL
      /\ \A k \in 0 .. n - 1 : walk[k] \in nodes /\ walk[k + 1] = link[walk[k]]
      /\ \A m \in nodes : \E k \in 0 .. n - 1 : walk[k] = m
      /\ \A j, k \in 0 .. n - 1 : walk[j] = walk[k] => j = k
      /\ last = IF n = 0 THEN NULL ELSE walk[n - 1]
  BY <1>0 DEF Linked
<1>2. NULL \notin Node
  BY StequeAssumption
<1>3. last = NULL <=> n = 0
  BY <1>1, <1>2
<1>4. n # 0 => last \in nodes /\ last = walk[n - 1] /\ n - 1 \in 0 .. n - 1
  BY <1>1
<1>5. /\ link2[new] = NULL
      /\ n # 0 => link2[last] = new
      /\ \A m \in nodes : (n # 0 => m # last) => link2[m] = link[m]
  BY <1>2, <1>3, <1>4
<1>6. /\ \A k \in 0 .. n - 1 : walk2[k] = walk[k]
      /\ walk2[n] = new /\ walk2[n + 1] = NULL
  OBVIOUS
<1>. HIDE DEF walk2, stored2
<1>7. walk2[0] = IF last = NULL THEN new ELSE first
  <2>1. n # 0 => 0 \in 0 .. n - 1
    OBVIOUS
  <2>. QED  BY <1>1, <1>3, <1>6, <2>1
<1>8. ASSUME NEW k \in 0 .. n
      PROVE  walk2[k] \in nodes \union {new} /\ walk2[k + 1] = link2[walk2[k]]
  <2>1. CASE k \in 0 .. n - 2
    <3>1. /\ k \in 0 .. n - 1 /\ k + 1 \in 0 .. n - 1 /\ n - 1 \in 0 .. n - 1
          /\ k # n - 1 /\ n # 0
      BY <2>1
    <3>2. walk[k] # last /\ walk[k] \in nodes /\ walk[k + 1] = link[walk[k]]
      BY <1>1, <1>4, <3>1
    <3>. QED  BY <1>5, <1>6, <3>1, <3>2
  <2>2. CASE k = n - 1
    <3>1. k \in 0 .. n - 1 /\ k + 1 = n /\ n # 0
      BY <2>2
    <3>. QED  BY <1>1, <1>4, <1>5, <1>6, <2>2, <3>1
  <2>3. CASE k = n
    <3>1. walk2[k] = new /\ walk2[k + 1] = NULL
      BY <1>6, <2>3
    <3>. QED  BY <1>5, <3>1
  <2>. QED  BY <2>1, <2>2, <2>3
<1>9. \A m \in nodes \union {new} : \E k \in 0 .. n : walk2[k] = m
  <2>1. ASSUME NEW m \in nodes PROVE \E k \in 0 .. n : walk2[k] = m
    <3>1. PICK k \in 0 .. n - 1 : walk[k] = m
      BY <1>1
    <3>2. k \in 0 .. n /\ walk2[k] = m
      BY <1>6, <3>1
    <3>. QED  BY <3>2
  <2>2. n \in 0 .. n
    OBVIOUS
  <2>. QED  BY <1>6, <2>1, <2>2
<1>10. ASSUME NEW j \in 0 .. n, NEW k \in 0 .. n, walk2[j] = walk2[k]
       PROVE  j = k
  <2>1. \A i \in 0 .. n : i \in 0 .. n - 1 \/ i = n
    OBVIOUS
  <2>2. \A i \in 0 .. n - 1 : walk2[i] # new
    BY <1>1, <1>6
  <2>3. CASE j \in 0 .. n - 1 /\ k \in 0 .. n - 1
    BY <1>1, <1>6, <1>10, <2>3
  <2>. QED  BY <1>6, <1>10, <2>1, <2>2, <2>3
<1>11. Linked(walk2, n + 1, IF last = NULL THEN new ELSE first, new, link2,
              nodes \union {new})
  <2>1. n + 1 - 1 = n /\ n + 1 # 0
    OBVIOUS
  <2>. QED  BY <1>6, <1>7, <1>8, <1>9, <1>10, <2>1 DEF Linked
<1>12. Items(walk2, n + 1, stored2) = Append(s, x)
  <2>. DEFINE S == Item \union {NULL}
              t == Items(walk2, n + 1, stored2)
  <2>1. \A k \in 1 .. n : k - 1 \in 0 .. n - 1 /\ walk[k - 1] \in nodes
    BY <1>1
  <2>2. s \in [1 .. n -> S] /\ \A k \in 1 .. n : s[k] = stored[walk[k - 1]]
    BY <1>0, <2>1 DEF Items
  <2>3. /\ \A k \in 1 .. n : stored2[walk2[k - 1]] = s[k]
        /\ stored2[walk2[n]] = x
    BY <1>6, <2>1, <2>2 DEF stored2
  <2>4. /\ t \in [1 .. n + 1 -> S] /\ t[n + 1] = x
        /\ \A k \in 1 .. n : t[k] = s[k]
    <3>1. \A k \in 1 .. n + 1 : stored2[walk2[k - 1]] = IF k <= n THEN s[k] ELSE x
      <4>1. \A k \in 1 .. n + 1 : k \in 1 .. n \/ (k = n + 1 /\ k - 1 = n)
        OBVIOUS
      <4>. QED  BY <2>3, <4>1
    <3>2. t = [k \in 1 .. n + 1 |-> stored2[walk2[k - 1]]]
      BY DEF Items
    <3>. HIDE DEF t
    <3>3. \A k \in 1 .. n + 1 : t[k] = IF k <= n THEN s[k] ELSE x
      BY <3>1, <3>2
    <3>4. \A k \in 1 .. n + 1 : stored2[walk2[k - 1]] \in S
      <4>1. \A k \in 1 .. n : s[k] \in S
        BY <2>2
      <4>2. \A k \in 1 .. n + 1 : k <= n => k \in 1 .. n
        OBVIOUS
      <4>. QED  BY <3>1, <4>1, <4>2
    <3>5. t \in [1 .. n + 1 -> S]
      BY <3>2, <3>4
    <3>. QED  BY <3>3, <3>5
  <2>5. x \in S
    OBVIOUS
  <2>. HIDE DEF t, S
  <2>6. t = Append(s, x)
    BY ONLY n \in Nat, <2>2, <2>4, <2>5, CountedAppend
  <2>. QED  BY <2>6 DEF t
<1>. QED  BY <1>11, <1>12 DEF stored2, Holds

(* A node put in front of a list (steque_push, and enqueue if it is        *)
(* empty).                                                                 *)
LEMMA LinkAtFront ==
    ASSUME NEW s, NEW n \in Nat, NEW first, NEW last, NEW link \in [Node -> Node \union {NULL}],
           NEW nodes \in SUBSET Node, NEW stored \in [Node -> Item \union {NULL}],
           Holds(n, first, last, link, nodes, stored, s),
           NEW new \in Node \ nodes, NEW x \in Item,
           NEW link2, link2 = [link EXCEPT ![new] = first]
    PROVE  Holds(n + 1, new, IF last = NULL THEN new ELSE last, link2, nodes \union {new},
                 [stored EXCEPT ![new] = x], <<x>> \o s)
<1>0. PICK walk : Linked(walk, n, first, last, link, nodes) /\ Items(walk, n, stored) = s
  BY DEF Holds
<1>. DEFINE walk2 == [k \in 0 .. n + 1 |-> IF k = 0 THEN new ELSE walk[k - 1]]
            stored2 == [stored EXCEPT ![new] = x]
<1>1. /\ walk[0] = first /\ walk[n] = NULL
      /\ \A k \in 0 .. n - 1 : walk[k] \in nodes /\ walk[k + 1] = link[walk[k]]
      /\ \A m \in nodes : \E k \in 0 .. n - 1 : walk[k] = m
      /\ \A j, k \in 0 .. n - 1 : walk[j] = walk[k] => j = k
      /\ last = IF n = 0 THEN NULL ELSE walk[n - 1]
  BY <1>0 DEF Linked
<1>2. NULL \notin Node
  BY StequeAssumption
<1>3. last = NULL <=> n = 0
  BY <1>1, <1>2
<1>4. link2[new] = first /\ \A m \in nodes : link2[m] = link[m]
  OBVIOUS
<1>5. walk2[0] = new /\ \A k \in 1 .. n + 1 : walk2[k] = walk[k - 1]
  OBVIOUS
<1>. HIDE DEF walk2, stored2
<1>6. walk2[n + 1] = NULL
  BY <1>1, <1>5
<1>7. (IF last = NULL THEN new ELSE last) = walk2[n]
  <2>1. n # 0 => n \in 1 .. n + 1
    OBVIOUS
  <2>. QED  BY <1>1, <1>3, <1>5, <2>1
<1>8. ASSUME NEW k \in 0 .. n
      PROVE  walk2[k] \in nodes \union {new} /\ walk2[k + 1] = link2[walk2[k]]
  <2>1. k + 1 \in 1 .. n + 1 /\ k + 1 - 1 = k
    OBVIOUS
  <2>2. CASE k = 0
    BY <1>1, <1>4, <1>5, <2>1, <2>2
  <2>3. CASE k # 0
    <3>1. k \in 1 .. n + 1 /\ k - 1 \in 0 .. n - 1 /\ k - 1 + 1 = k
      BY <2>3
    <3>2. walk[k - 1] \in nodes /\ walk[k] = link[walk[k - 1]]
      BY <1>1, <3>1
    <3>. QED  BY <1>4, <1>5, <2>1, <3>1, <3>2
  <2>. QED  BY <2>2, <2>3
<1>9. \A m \in nodes \union {new} : \E k \in 0 .. n : walk2[k] = m
  <2>1. ASSUME NEW m \in nodes PROVE \E k \in 0 .. n : walk2[k] = m
    <3>1. PICK k \in 0 .. n - 1 : walk[k] = m
      BY <1>1
    <3>2. k + 1 \in 0 .. n /\ k + 1 \in 1 .. n + 1 /\ k + 1 - 1 = k
      OBVIOUS
    <3>. QED  BY <1>5, <3>1, <3>2
  <2>2. 0 \in 0 .. n
    OBVIOUS
  <2>. QED  BY <1>5, <2>1, <2>2
<1>10. ASSUME NEW j \in 0 .. n, NEW k \in 0 .. n, walk2[j] = walk2[k]
       PROVE  j = k
  <2>1. \A i \in 0 .. n : i = 0 \/ (i \in 1 .. n + 1 /\ i - 1 \in 0 .. n - 1)
    OBVIOUS
  <2>2. \A i \in 0 .. n : i # 0 => walk2[i] # new
    BY <1>1, <1>5, <2>1
  <2>3. CASE j # 0 /\ k # 0
    <3>1. j - 1 = k - 1
      BY <1>1, <1>5, <1>10, <2>1, <2>3
    <3>. QED  BY <3>1
  <2>. QED  BY <1>5, <1>10, <2>2, <2>3
<1>11. Linked(walk2, n + 1, new, IF last = NULL THEN new ELSE last, link2,
              nodes \union {new})
  <2>1. n + 1 - 1 = n /\ n + 1 # 0
    OBVIOUS
  <2>. QED  BY <1>5, <1>6, <1>7, <1>8, <1>9, <1>10, <2>1 DEF Linked
<1>12. Items(walk2, n + 1, stored2) = <<x>> \o s
  <2>. DEFINE S == Item \union {NULL}
              t == Items(walk2, n + 1, stored2)
  <2>1. \A k \in 1 .. n : k - 1 \in 0 .. n - 1 /\ walk[k - 1] \in nodes
    BY <1>1
  <2>2. s \in [1 .. n -> S] /\ \A k \in 1 .. n : s[k] = stored[walk[k - 1]]
    BY <1>0, <2>1 DEF Items
  <2>3. t = [k \in 1 .. n + 1 |-> stored2[walk2[k - 1]]]
    BY DEF Items
  <2>4. stored2[walk2[1 - 1]] = x
    BY <1>5 DEF stored2
  <2>5. ASSUME NEW k \in 2 .. n + 1
        PROVE  stored2[walk2[k - 1]] = s[k - 1] /\ s[k - 1] \in S
    <3>1. k - 1 \in 1 .. n /\ k - 1 \in 1 .. n + 1
      OBVIOUS
    <3>2. walk2[k - 1] = walk[k - 1 - 1] /\ walk[k - 1 - 1] \in nodes
      BY <1>5, <2>1, <3>1
    <3>. QED  BY <2>2, <3>1, <3>2 DEF stored2
  <2>6. x \in S /\ \A k \in 1 .. n + 1 : k = 1 \/ k \in 2 .. n + 1
    OBVIOUS
  <2>. HIDE DEF t, S
  <2>7. \A k \in 1 .. n + 1 : stored2[walk2[k - 1]] \in S
    BY <2>4, <2>5, <2>6
  <2>8. t \in [1 .. n + 1 -> S]
    BY <2>3, <2>7
  <2>9. t[1] = x /\ \A k \in 2 .. n + 1 : t[k] = s[k - 1]
    BY <2>3, <2>4, <2>5
  <2>10. t = <<x>> \o s
    BY ONLY n \in Nat, <2>2, <2>6, <2>8, <2>9, CountedPush
  <2>. QED  BY <2>10 DEF t
<1>. QED  BY <1>11, <1>12 DEF stored2, Holds

(* The first node taken off a list (steque_pop), with the last of all gone *)
(* when it was the only one.                                               *)
LEMMA Unlink ==
    ASSUME NEW s, NEW n \in Nat, n # 0, NEW first, NEW last, NEW link,
           NEW nodes \in SUBSET Node, NEW stored \in [Node -> Item \union {NULL}],
           Holds(n, first, last, link, nodes, stored, s)
    PROVE  /\ first \in nodes
           /\ s # << >> /\ Head(s) = stored[first]
           /\ Holds(n - 1, link[first], IF link[first] = NULL THEN NULL ELSE last, link,
                    nodes \ {first}, stored, Tail(s))
<1>0. PICK walk : Linked(walk, n, first, last, link, nodes) /\ Items(walk, n, stored) = s
  BY DEF Holds
<1>. DEFINE walk2 == [k \in 0 .. n - 1 |-> walk[k + 1]]
<1>1. /\ walk[0] = first /\ walk[n] = NULL
      /\ \A k \in 0 .. n - 1 : walk[k] \in nodes /\ walk[k + 1] = link[walk[k]]
      /\ \A m \in nodes : \E k \in 0 .. n - 1 : walk[k] = m
      /\ \A j, k \in 0 .. n - 1 : walk[j] = walk[k] => j = k
      /\ last = walk[n - 1]
  BY <1>0 DEF Linked
<1>2. NULL \notin Node /\ 0 \in 0 .. n - 1 /\ n - 1 \in 0 .. n - 1
  BY StequeAssumption
<1>3. \A k \in 0 .. n - 1 : walk2[k] = walk[k + 1]
  OBVIOUS
<1>. HIDE DEF walk2
<1>4. first \in nodes /\ walk2[0] = link[first] /\ walk2[n - 1] = NULL
  BY <1>1, <1>2, <1>3
<1>5. (IF link[first] = NULL THEN NULL ELSE last)
          = IF n - 1 = 0 THEN NULL ELSE walk2[n - 1 - 1]
  <2>1. CASE n = 1
    BY <1>2, <1>4, <2>1
  <2>2. CASE n # 1
    <3>1. 1 \in 0 .. n - 1 /\ n - 1 - 1 \in 0 .. n - 1 /\ n - 1 - 1 + 1 = n - 1 /\ 0 + 1 = 1
      BY <2>2
    <3>2. walk[1] \in nodes /\ link[first] = walk[1]
      BY <1>1, <1>2, <3>1
    <3>. QED  BY <1>1, <1>2, <1>3, <2>2, <3>1, <3>2
  <2>. QED  BY <2>1, <2>2
<1>6. ASSUME NEW k \in 0 .. n - 1 - 1
      PROVE  walk2[k] \in nodes \ {first} /\ walk2[k + 1] = link[walk2[k]]
  <2>1. k \in 0 .. n - 1 /\ k + 1 \in 0 .. n - 1 /\ k + 1 # 0
    OBVIOUS
  <2>2. walk[k + 1] \in nodes /\ walk[k + 1] # first /\ walk[k + 1 + 1] = link[walk[k + 1]]
    BY <1>1, <1>2, <2>1
  <2>. QED  BY <1>3, <2>1, <2>2
<1>7. ASSUME NEW m \in nodes \ {first} PROVE \E k \in 0 .. n - 1 - 1 : walk2[k] = m
  <2>1. PICK k \in 0 .. n - 1 : walk[k] = m
    BY <1>1
  <2>2. k # 0
    BY <1>1, <2>1
  <2>3. k - 1 \in 0 .. n - 1 - 1 /\ k - 1 \in 0 .. n - 1 /\ k - 1 + 1 = k
    BY <2>2
  <2>. QED  BY <1>3, <2>1, <2>3
<1>8. ASSUME NEW j \in 0 .. n - 1 - 1, NEW k \in 0 .. n - 1 - 1, walk2[j] = walk2[k]
      PROVE  j = k
  <2>1. /\ j \in 0 .. n - 1 /\ j + 1 \in 0 .. n - 1
        /\ k \in 0 .. n - 1 /\ k + 1 \in 0 .. n - 1
    OBVIOUS
  <2>2. j + 1 = k + 1
    BY <1>1, <1>3, <1>8, <2>1
  <2>. QED  BY <2>2
<1>9. Linked(walk2, n - 1, link[first], IF link[first] = NULL THEN NULL ELSE last,
             link, nodes \ {first})
  BY <1>4, <1>5, <1>6, <1>7, <1>8 DEF Linked
<1>10. /\ s # << >> /\ Head(s) = stored[first]
       /\ Items(walk2, n - 1, stored) = Tail(s)
  <2>. DEFINE S == Item \union {NULL}
              t == Items(walk2, n - 1, stored)
  <2>1. \A k \in 1 .. n : k - 1 \in 0 .. n - 1 /\ walk[k - 1] \in nodes
    BY <1>1
  <2>2. s \in [1 .. n -> S] /\ \A k \in 1 .. n : s[k] = stored[walk[k - 1]]
    BY <1>0, <2>1 DEF Items
  <2>3. t = [k \in 1 .. n - 1 |-> stored[walk2[k - 1]]]
    BY DEF Items
  <2>4. ASSUME NEW k \in 1 .. n - 1
        PROVE  stored[walk2[k - 1]] = s[k + 1] /\ s[k + 1] \in S
    <3>1. k + 1 \in 1 .. n /\ k - 1 \in 0 .. n - 1 /\ k - 1 + 1 = k /\ k + 1 - 1 = k
      OBVIOUS
    <3>2. walk2[k - 1] = walk[k]
      BY <1>3, <3>1
    <3>. QED  BY <2>2, <3>1, <3>2
  <2>5. s[1] = stored[first]
    BY <1>1, <2>2
  <2>. HIDE DEF t, S
  <2>6. t \in [1 .. n - 1 -> S] /\ \A k \in 1 .. n - 1 : t[k] = s[k + 1]
    BY <2>3, <2>4
  <2>7. s # << >> /\ Head(s) = s[1] /\ t = Tail(s)
    BY ONLY n \in Nat, n # 0, <2>2, <2>6, CountedTail
  <2>. QED  BY <2>5, <2>7 DEF t
<1>. QED  BY <1>4, <1>9, <1>10 DEF Holds

(* The first node moved behind the last (steque_cycle): the ring is closed *)
(* at back and cut behind the old front, which may be the same node.       *)
LEMMA Rotate ==
    ASSUME NEW s, NEW n \in Nat, n # 0, NEW first, NEW last,
           NEW link \in [Node -> Node \union {NULL}],
           NEW nodes \in SUBSET Node, NEW stored \in [Node -> Item \union {NULL}],
           Holds(n, first, last, link, nodes, stored, s),
           NEW linked, linked = [link EXCEPT ![last] = first],
           NEW link2, link2 = [linked EXCEPT ![first] = NULL]
    PROVE  Holds(n, linked[first], first, link2, nodes, stored, Append(Tail(s), Head(s)))
<1>0. PICK walk : Linked(walk, n, first, last, link, nodes) /\ Items(walk, n, stored) = s
  BY DEF Holds
<1>. DEFINE walk2 == [k \in 0 .. n |-> IF k < n - 1 THEN walk[k + 1]
                                      ELSE IF k = n - 1 THEN first ELSE NULL]
<1>1. /\ walk[0] = first /\ walk[n] = NULL
      /\ \A k \in 0 .. n - 1 : walk[k] \in nodes /\ walk[k + 1] = link[walk[k]]
      /\ \A m \in nodes : \E k \in 0 .. n - 1 : walk[k] = m
      /\ \A j, k \in 0 .. n - 1 : walk[j] = walk[k] => j = k
      /\ last = walk[n - 1]
  BY <1>0 DEF Linked
<1>2. 0 \in 0 .. n - 1 /\ n - 1 \in 0 .. n - 1 /\ n - 1 + 1 = n
  OBVIOUS
<1>3. first \in nodes /\ last \in nodes
  BY <1>1, <1>2
<1>4. /\ \A k \in 0 .. n - 2 : walk2[k] = walk[k + 1]
      /\ walk2[n - 1] = first /\ walk2[n] = NULL
  OBVIOUS
<1>5. /\ linked[last] = first /\ link2[first] = NULL
      /\ first # last => linked[first] = link[first] /\ link2[last] = first
      /\ \A m \in nodes : m # first /\ m # last => link2[m] = link[m]
  BY <1>3
<1>. HIDE DEF walk2
<1>6. n # 1 => first # last
  BY <1>1, <1>2
<1>7. walk2[0] = linked[first]
  <2>1. CASE n = 1
    BY <1>1, <1>4, <1>5, <2>1
  <2>2. CASE n # 1
    <3>1. 0 \in 0 .. n - 2 /\ 0 + 1 = 1
      BY <2>2
    <3>. QED  BY <1>1, <1>2, <1>4, <1>5, <1>6, <2>2, <3>1
  <2>. QED  BY <2>1, <2>2
<1>8. ASSUME NEW k \in 0 .. n - 1
      PROVE  walk2[k] \in nodes /\ walk2[k + 1] = link2[walk2[k]]
  <2>1. CASE k = n - 1
    BY <1>2, <1>3, <1>4, <1>5, <2>1
  <2>2. CASE k = n - 2
    <3>1. k \in 0 .. n - 2 /\ k + 1 = n - 1 /\ n # 1
      BY <2>2
    <3>. QED  BY <1>1, <1>3, <1>4, <1>5, <1>6, <3>1
  <2>3. CASE k \in 0 .. n - 3
    <3>1. /\ k \in 0 .. n - 2 /\ k + 1 \in 0 .. n - 2 /\ k + 1 \in 0 .. n - 1
          /\ k + 1 # 0 /\ k + 1 # n - 1
      BY <2>3
    <3>2. /\ walk[k + 1] \in nodes /\ walk[k + 1 + 1] = link[walk[k + 1]]
          /\ walk[k + 1] # first /\ walk[k + 1] # last
      BY <1>1, <1>2, <3>1
    <3>. QED  BY <1>4, <1>5, <3>1, <3>2
  <2>. QED  BY <2>1, <2>2, <2>3
<1>9. ASSUME NEW m \in nodes PROVE \E k \in 0 .. n - 1 : walk2[k] = m
  <2>1. PICK k \in 0 .. n - 1 : walk[k] = m
    BY <1>1
  <2>2. CASE k = 0
    BY <1>1, <1>2, <1>4, <2>1, <2>2
  <2>3. CASE k # 0
    <3>1. k - 1 \in 0 .. n - 2 /\ k - 1 \in 0 .. n - 1 /\ k - 1 + 1 = k
      BY <2>3
    <3>. QED  BY <1>4, <2>1, <3>1
  <2>. QED  BY <2>2, <2>3
<1>10. ASSUME NEW j \in 0 .. n - 1, NEW k \in 0 .. n - 1, walk2[j] = walk2[k]
       PROVE  j = k
  <2>1. \A i \in 0 .. n - 1 : i = n - 1 \/ (i \in 0 .. n - 2 /\ i + 1 \in 0 .. n - 1 /\ i + 1 # 0)
    OBVIOUS
  <2>2. \A i \in 0 .. n - 1 : i # n - 1 => walk2[i] # first
    BY <1>1, <1>2, <1>4, <2>1
  <2>3. CASE j # n - 1 /\ k # n - 1
    <3>1. j + 1 = k + 1
      BY <1>1, <1>4, <1>10, <2>1, <2>3
    <3>. QED  BY <3>1
  <2>. QED  BY <1>4, <1>10, <2>2, <2>3
<1>11. Linked(walk2, n, linked[first], first, link2, nodes)
  BY <1>4, <1>7, <1>8, <1>9, <1>10 DEF Linked
<1>12. Items(walk2, n, stored) = Append(Tail(s), Head(s))
  <2>. DEFINE S == Item \union {NULL}
              t == Items(walk2, n, stored)
              r == [k \in 1 .. n - 1 |-> s[k + 1]]
              x == stored[first]
  <2>1. \A k \in 1 .. n : k - 1 \in 0 .. n - 1 /\ walk[k - 1] \in nodes
    BY <1>1
  <2>2. s \in [1 .. n -> S] /\ \A k \in 1 .. n : s[k] = stored[walk[k - 1]]
    BY <1>0, <2>1 DEF Items
  <2>3. t = [k \in 1 .. n |-> stored[walk2[k - 1]]]
    BY DEF Items
  <2>4. s[1] = x /\ x \in S
    BY <1>1, <1>3, <2>2
  <2>5. ASSUME NEW k \in 1 .. n - 1
        PROVE  stored[walk2[k - 1]] = s[k + 1] /\ s[k + 1] \in S
    <3>1. k + 1 \in 1 .. n /\ k - 1 \in 0 .. n - 2 /\ k - 1 + 1 = k /\ k + 1 - 1 = k
      OBVIOUS
    <3>2. walk2[k - 1] = walk[k]
      BY <1>4, <3>1
    <3>. QED  BY <2>2, <3>1, <3>2
  <2>6. stored[walk2[n - 1]] = x
    BY <1>4
  <2>. HIDE DEF t, S, x
  <2>7. r \in [1 .. n - 1 -> S] /\ \A k \in 1 .. n - 1 : r[k] = s[k + 1]
    BY <2>5
  <2>. HIDE DEF r
  <2>8. r = Tail(s) /\ Head(s) = x
    BY ONLY n \in Nat, n # 0, <2>2, <2>4, <2>7, CountedTail
  <2>9. \A k \in 1 .. n : stored[walk2[k - 1]] \in S
    <3>1. \A k \in 1 .. n : k \in 1 .. n - 1 \/ k = n
      OBVIOUS
    <3>. QED  BY <2>4, <2>5, <2>6, <3>1
  <2>10. /\ n - 1 \in Nat /\ n - 1 + 1 = n /\ n \in 1 .. n
         /\ \A k \in 1 .. n - 1 : k \in 1 .. n
    OBVIOUS
  <2>11. t \in [1 .. n - 1 + 1 -> S] /\ t[n - 1 + 1] = x
    BY <2>3, <2>6, <2>9, <2>10
  <2>12. \A k \in 1 .. n - 1 : t[k] = r[k]
    BY <2>3, <2>5, <2>7, <2>10
  <2>13. t = Append(r, x)
    BY ONLY <2>4, <2>7, <2>10, <2>11, <2>12, CountedAppend
  <2>. QED  BY <2>8, <2>13, Zenon DEF t
<1>. QED  BY <1>11, <1>12 DEF Holds

-----------------------------------------------------------------------------
(* The operations.                                                         *)
LEMMA Contained ==
    ASSUME WellFormed
    PROVE  /\ Holds(N, front, back, next, allocated, item, Contents)
           /\ N \in Nat /\ allocated \in SUBSET Node
           /\ item \in [Node -> Item \union {NULL}]
           /\ next \in [Node -> Node \union {NULL}]
           /\ front = NULL <=> N = 0
           /\ back = NULL <=> N = 0
<1>1. Linked(Pointer, N, front, back, next, allocated)
  BY WellFormedLinked
<1>2. Contents = Items(Pointer, N, item)
  BY DEF Contents, Items
<1>3. /\ N \in Nat /\ allocated \in SUBSET Node
      /\ item \in [Node -> Item \union {NULL}] /\ next \in [Node -> Node \union {NULL}]
  BY HeapSize DEF WellFormed, TypeOK
<1>4. N # 0 => 0 \in 0 .. N - 1 /\ N - 1 \in 0 .. N - 1
  BY <1>3
<1>5. NULL \notin Node
  BY StequeAssumption
<1>6. (front = NULL <=> N = 0) /\ (back = NULL <=> N = 0)
  BY <1>1, <1>3, <1>4, <1>5 DEF Linked
<1>. QED  BY <1>1, <1>2, <1>3, <1>6 DEF Holds

(* What a linked list shows of the next state.                             *)
LEMMA NextLinked ==
    ASSUME NEW s, TypeOK', Holds(N', front', back', next', allocated', item', s)
    PROVE  WellFormed' /\ Contents' = s
<1>1. LinkedSuffices'
  BY LinkedWellFormed, PTL
<1>. QED  BY <1>1 DEF LinkedSuffices, Holds

(* There is room for what malloc returns.                                  *)
LEMMA Room ==
    ASSUME WellFormed, NEW n \in Node \ allocated
    PROVE  N + 1 \in 0 .. Cardinality(Node)
<1>1. /\ allocated \in SUBSET Node /\ allocated \union {n} \in SUBSET Node
      /\ Cardinality(allocated) = N /\ N \in Nat
  BY Contained DEF WellFormed
<1>2. IsFiniteSet(allocated)
  BY <1>1, FS_Subset, StequeAssumption
<1>3. Cardinality(allocated \union {n}) = N + 1
  BY <1>1, <1>2, FS_AddElement
<1>4. Cardinality(allocated \union {n}) <= Cardinality(Node)
  BY <1>1, FS_Subset, StequeAssumption
<1>. QED  BY <1>1, <1>3, <1>4, HeapSize

(* front points to the first item.                                         *)
LEMMA FirstIsFront ==
    ASSUME WellFormed, N # 0
    PROVE  front \in allocated /\ Contents # << >> /\ Head(Contents) = item[front]
<1>1. front \in allocated
  BY Contained, Unlink, Zenon
<1>2. Contents # << >>
  BY Contained, Unlink, Zenon
<1>3. Head(Contents) = item[front]
  <2>1. N \in Nat /\ 1 \in 1 .. N /\ Pointer[1 - 1] = front
    BY Contained, PointerDef
  <2>2. Contents[1] = item[front]
    BY <2>1 DEF Contents
  <2>. QED  BY <2>2
<1>. QED  BY <1>1, <1>2, <1>3, Zenon

(* Every call keeps the list well formed and changes the contents as on a  *)
(* sequence.                                                               *)
LEMMA EnqueueStep ==
    ASSUME WellFormed, NEW x \in Item, Enqueue(x)
    PROVE  WellFormed' /\ Contents' = Append(Contents, x) /\ UNCHANGED answer
<1>1. PICK n \in Node :
          /\ NewNode(n, x)
          /\ IF back = NULL
             THEN front' = n /\ next' = [next EXCEPT ![n] = NULL]
             ELSE /\ next' = [next EXCEPT ![n] = NULL, ![back] = n]
                  /\ UNCHANGED front
          /\ back' = n
          /\ N' = N + 1
          /\ UNCHANGED <<answer, exited>>
  BY DEF Enqueue
<1>2. /\ n \in Node \ allocated
      /\ allocated' = allocated \union {n} /\ item' = [item EXCEPT ![n] = x]
      /\ front' = IF back = NULL THEN n ELSE front
      /\ next' = IF back = NULL THEN [next EXCEPT ![n] = NULL]
                 ELSE [next EXCEPT ![n] = NULL, ![back] = n]
  BY <1>1 DEF NewNode
<1>3. TypeOK'
  <2>1. /\ item' \in [Node -> Item \union {NULL}] /\ next' \in [Node -> Node \union {NULL}]
        /\ front' \in Node \union {NULL} /\ back' \in Node \union {NULL}
    BY <1>1, <1>2 DEF WellFormed, TypeOK
  <2>. QED  BY <1>1, <1>2, <2>1, Room DEF WellFormed, TypeOK
<1>4. Holds(N', front', back', next', allocated', item', Append(Contents, x))
  BY <1>1, <1>2, Contained, LinkAtBack
<1>. QED  BY <1>1, <1>3, <1>4, NextLinked

LEMMA PushStep ==
    ASSUME WellFormed, NEW x \in Item, Push(x)
    PROVE  WellFormed' /\ Contents' = <<x>> \o Contents /\ UNCHANGED answer
<1>1. PICK n \in Node :
          /\ NewNode(n, x)
          /\ next' = [next EXCEPT ![n] = front]
          /\ back' = IF back = NULL THEN n ELSE back
          /\ front' = n
          /\ N' = N + 1
          /\ UNCHANGED <<answer, exited>>
  BY DEF Push
<1>2. /\ n \in Node \ allocated
      /\ allocated' = allocated \union {n} /\ item' = [item EXCEPT ![n] = x]
  BY <1>1 DEF NewNode
<1>3. TypeOK'
  <2>1. /\ item' \in [Node -> Item \union {NULL}] /\ next' \in [Node -> Node \union {NULL}]
        /\ front' \in Node \union {NULL} /\ back' \in Node \union {NULL}
    BY <1>1, <1>2 DEF WellFormed, TypeOK
  <2>. QED  BY <1>1, <1>2, <2>1, Room DEF WellFormed, TypeOK
<1>4. Holds(N', front', back', next', allocated', item', <<x>> \o Contents)
  BY <1>1, <1>2, Contained, LinkAtFront
<1>. QED  BY <1>1, <1>3, <1>4, NextLinked

LEMMA PopStep ==
    ASSUME WellFormed, Pop
    PROVE  /\ WellFormed' /\ Contents # << >>
           /\ Contents' = Tail(Contents) /\ answer' = Head(Contents)
<1>1. /\ front # NULL /\ answer' = item[front] /\ front' = next[front]
      /\ back' = IF next[front] = NULL THEN NULL ELSE back
      /\ allocated' = allocated \ {front} /\ N' = N - 1
      /\ UNCHANGED <<item, next, exited>>
  BY DEF Pop
<1>2. N # 0
  BY <1>1, Contained
<1>3. /\ front \in allocated /\ Contents # << >> /\ Head(Contents) = item[front]
      /\ Holds(N', front', back', next', allocated', item', Tail(Contents))
  <2>1. Holds(N - 1, next[front], IF next[front] = NULL THEN NULL ELSE back, next,
              allocated \ {front}, item, Tail(Contents))
    BY <1>2, Contained, Unlink, Zenon
  <2>. QED  BY <1>1, <1>2, <2>1, FirstIsFront, Zenon
<1>4. TypeOK'
  <2>1. front \in Node
    BY <1>3, Contained
  <2>2. N - 1 \in 0 .. Cardinality(Node)
    BY <1>2, HeapSize DEF WellFormed, TypeOK
  <2>. QED  BY <1>1, <2>1, <2>2 DEF WellFormed, TypeOK
<1>. QED  BY <1>1, <1>3, <1>4, NextLinked

LEMMA CycleStep ==
    ASSUME WellFormed, Cycle
    PROVE  /\ WellFormed' /\ UNCHANGED answer
           /\ \/ Contents' = Contents
              \/ /\ Contents # << >>
                 /\ Contents' = Append(Tail(Contents), Head(Contents))
<1>1. UNCHANGED <<N, item, allocated, answer, exited>>
  BY DEF Cycle
<1>2. CASE back = NULL
  <2>1. UNCHANGED <<front, back, next>>
    BY <1>2 DEF Cycle
  <2>2. TypeOK' /\ Holds(N', front', back', next', allocated', item', Contents)
    BY <1>1, <2>1, Contained DEF WellFormed, TypeOK
  <2>. QED  BY <1>1, <2>2, NextLinked
<1>3. CASE back # NULL
  <2>. DEFINE linked == [next EXCEPT ![back] = front]
  <2>1. back' = front /\ front' = linked[front] /\ next' = [linked EXCEPT ![front] = NULL]
    BY <1>3 DEF Cycle
  <2>2. N # 0
    BY <1>3, Contained
  <2>3. front \in Node /\ Contents # << >>
    BY <2>2, Contained, FirstIsFront
  <2>4. TypeOK'
    <3>1. linked \in [Node -> Node \union {NULL}]
      BY <2>3, Contained
    <3>. HIDE DEF linked
    <3>. QED  BY <1>1, <2>1, <2>3, <3>1 DEF WellFormed, TypeOK
  <2>5. Holds(N', front', back', next', allocated', item',
              Append(Tail(Contents), Head(Contents)))
    <3>1. Holds(N, linked[front], front, [linked EXCEPT ![front] = NULL], allocated, item,
                Append(Tail(Contents), Head(Contents)))
      BY <2>2, Contained, Rotate, Zenon
    <3>. QED  BY <1>1, <2>1, <3>1, Zenon
  <2>. QED  BY <1>1, <2>3, <2>4, <2>5, NextLinked
<1>. QED  BY <1>2, <1>3

LEMMA DestroyStep ==
    ASSUME WellFormed, Destroy
    PROVE  WellFormed' /\ Contents' = << >> /\ UNCHANGED answer
<1>1. /\ front' = NULL /\ back' = NULL /\ N' = 0 /\ allocated' = {}
      /\ UNCHANGED <<item, next, answer, exited>>
  BY DEF Destroy
<1>2. TypeOK'
  BY <1>1, HeapSize DEF WellFormed, TypeOK
<1>. DEFINE walk == [k \in 0 .. 0 |-> NULL]
<1>3. Linked(walk, N', front', back', next', allocated')
  BY <1>1 DEF Linked
<1>4. Items(walk, N', item') = << >>
  BY <1>1 DEF Items
<1>. HIDE DEF walk
<1>5. Holds(N', front', back', next', allocated', item', << >>)
  BY <1>3, <1>4 DEF Holds
<1>. QED  BY <1>1, <1>2, <1>5, NextLinked

(* steque_front, an underflow, and a step of the users.                    *)
LEMMA ReadStep ==
    ASSUME WellFormed, UNCHANGED <<front, back, N, item, next, allocated>>,
           answer' \in {answer, item[front]}, exited' \in BOOLEAN,
           answer' # answer => front # NULL
    PROVE  WellFormed' /\ Contents' = Contents
<1>1. front # NULL => front \in Node
  BY DEF WellFormed, TypeOK
<1>2. TypeOK'
  BY <1>1 DEF WellFormed, TypeOK
<1>. QED  BY <1>2, Contained, NextLinked

LEMMA FrontStep ==
    ASSUME WellFormed, Front
    PROVE  WellFormed' /\ UNCHANGED Contents /\ Contents # << >> /\ answer' = Head(Contents)
<1>1. /\ front # NULL /\ answer' = item[front]
      /\ UNCHANGED <<front, back, N, item, next, allocated, exited>>
  BY DEF Front
<1>2. exited' \in BOOLEAN
  BY <1>1 DEF WellFormed, TypeOK
<1>3. N # 0
  BY <1>1, Contained
<1>4. Contents # << >> /\ Head(Contents) = item[front]
  BY <1>3, FirstIsFront
<1>. QED  BY <1>1, <1>2, <1>4, ReadStep

LEMMA OtherStep ==
    ASSUME WellFormed, Underflow \/ Ended \/ UNCHANGED vars
    PROVE  WellFormed' /\ UNCHANGED <<Contents, answer>>
<1>1. UNCHANGED <<front, back, N, item, next, allocated, answer>> /\ exited' \in BOOLEAN
  BY DEF Underflow, Ended, vars, WellFormed, TypeOK
<1>. QED  BY <1>1, ReadStep

-----------------------------------------------------------------------------
LEMMA InitList == Init => WellFormed /\ Contents = << >>
<1>. SUFFICES ASSUME Init PROVE WellFormed /\ Contents = << >>
  OBVIOUS
<1>1. TypeOK
  <2>1. 0 \in 0 .. Cardinality(Node)
    BY HeapSize
  <2>. QED  BY <2>1, Zenon DEF Init, TypeOK
<1>. DEFINE walk == [k \in 0 .. 0 |-> NULL]
<1>2. Linked(walk, N, front, back, next, allocated)
  BY DEF Init, Linked
<1>3. Items(walk, N, item) = << >>
  BY DEF Init, Items
<1>. HIDE DEF walk
<1>. QED  BY <1>1, <1>2, <1>3, LinkedWellFormed DEF LinkedSuffices

(* After any sequence of calls the list has its N nodes in a row, each     *)
(* once, from front to back, and these are all that have not been freed.   *)
THEOREM ListIsWellFormed == Spec => []WellFormed
<1>1. WellFormed /\ [Next]_vars => WellFormed'
  BY EnqueueStep, PushStep, PopStep, CycleStep, DestroyStep, FrontStep, OtherStep DEF Next
<1>. QED  BY InitList, <1>1, PTL DEF Spec

(* The calls do to the contents, and answer, what steque.h says.           *)
THEOREM ListIsSequence == Spec => SequenceSpec
<1>1. Init => Sequence!Init
  BY InitList DEF Init, Sequence!Init
<1>2. WellFormed /\ [Next]_vars => [Sequence!Next]_<<Contents, answer>>
  <2>. SUFFICES ASSUME WellFormed, [Next]_vars
                PROVE  [Sequence!Next]_<<Contents, answer>>
    OBVIOUS
  <2>1. ASSUME NEW x \in Item, Enqueue(x) PROVE Sequence!Enqueue /\ UNCHANGED answer
    BY <2>1, EnqueueStep DEF Sequence!Enqueue
  <2>2. ASSUME NEW x \in Item, Push(x) PROVE Sequence!Push /\ UNCHANGED answer
    BY <2>2, PushStep DEF Sequence!Push
  <2>3. CASE Pop
    BY <2>3, PopStep DEF Sequence!Next, Sequence!Pop
  <2>4. CASE Front
    BY <2>4, FrontStep DEF Sequence!Next, Sequence!Front
  <2>5. CASE Cycle
    BY <2>5, CycleStep DEF Sequence!Next, Sequence!Cycle
  <2>6. CASE Destroy
    BY <2>6, DestroyStep DEF Sequence!Next, Sequence!Clear
  <2>7. CASE Underflow \/ Ended \/ UNCHANGED vars
    BY <2>7, OtherStep
  <2>. QED  BY <2>1, <2>2, <2>3, <2>4, <2>5, <2>6, <2>7 DEF Next, Sequence!Next
<1>. QED  BY <1>1, <1>2, ListIsWellFormed, PTL DEF Spec, SequenceSpec, Sequence!Spec
=============================================================================
