------------------------- MODULE FiniteInduction --------------------------
(***************************************************************************)
(* Induction over the natural numbers, for sets of them, and the functions *)
(* that are built step by step: what the proofs about recursive functions, *)
(* sequences and finite sets start from.                                   *)
(***************************************************************************)
EXTENDS Listings, FiniteSets, TLAPS, FiniteSetTheorems, WellFoundedInduction

(* Induction over the natural numbers, for a set of them: of the finite    *)
(* intervals below the numbers outside of T, the smallest ends before a    *)
(* number whose predecessor is in T.                                       *)
LEMMA SetInduction ==
    ASSUME NEW T \in SUBSET Nat, 0 \in T, \A i \in T : i + 1 \in T
    PROVE  T = Nat
<1>1. SUFFICES ASSUME NEW z \in Nat, z \notin T
               PROVE  FALSE
  OBVIOUS
<1> DEFINE R == StrictSubsetOrdering(0..z)
           B == {0..x : x \in (0..z) \ T}
<1>2. IsWellFoundedOn(R, SUBSET (0..z))
  <2>1. IsFiniteSet(0..z)
    BY FS_Interval
  <2> QED
    BY <2>1, FS_StrictSubsetOrderingWellFounded, FS_FiniteSubsetsOfFinite
<1>3. B \subseteq SUBSET (0..z) /\ 0..z \in B
  BY <1>1
<1>4. PICK b \in B : \A c \in B : <<c, b>> \notin R
  <2> HIDE DEF B, R
  <2> QED
    BY <1>2, <1>3, WFMin
<1>5. PICK x \in (0..z) \ T : b = 0..x
  OBVIOUS
<1>6. x - 1 \in Nat /\ x - 1 \notin T
  BY <1>5
<1>7. 0..(x - 1) \in B
  BY <1>5, <1>6
<1>8. 0..(x - 1) \subseteq b /\ x \in b /\ x \notin 0..(x - 1) /\ b \subseteq 0..z
  BY <1>5
<1>9. <<0..(x - 1), b>> \in R
  BY <1>8 DEF StrictSubsetOrdering
<1> QED
  BY <1>4, <1>7, <1>9

(* What holds of the first value, and of each if of the one before, holds  *)
(* of all.                                                                 *)
LEMMA StepwiseIn ==
    ASSUME NEW m \in Nat, NEW d, NEW J, d[0] \in J[0],
           \A i \in 1 .. m : d[i - 1] \in J[i - 1] => d[i] \in J[i]
    PROVE  \A i \in 0 .. m : d[i] \in J[i]
<1> DEFINE T == {i \in Nat : i <= m => d[i] \in J[i]}
<1>1. 0 \in T
  OBVIOUS
<1>2. ASSUME NEW i \in T PROVE i + 1 \in T
  <2> SUFFICES ASSUME i + 1 <= m PROVE d[i + 1] \in J[i + 1]
    OBVIOUS
  <2>1. i + 1 \in 1 .. m /\ (i + 1) - 1 = i /\ d[i] \in J[i]
    OBVIOUS
  <2> QED
    BY <2>1
<1>3. T = Nat
  <2> HIDE DEF T
  <2>1. T \in SUBSET Nat
    BY DEF T
  <2> QED
    BY <1>1, <1>2, <2>1, SetInduction
<1> QED
  BY <1>3

(* A set of numbers has a least one.                                       *)
LEMMA LeastExists ==
    ASSUME NEW D \in SUBSET Nat, D # {}
    PROVE  \E k \in D : \A j \in D : k <= j
<1> DEFINE T == {i \in Nat : \A j \in D : i <= j}
<1>1. 0 \in T
  OBVIOUS
<1>2. T # Nat
  <2>1. PICK d \in D : TRUE
    OBVIOUS
  <2>2. d + 1 \in Nat /\ ~(d + 1 <= d)
    OBVIOUS
  <2> QED
    BY <2>2
<1>3. PICK t \in T : t + 1 \notin T
  <2> HIDE DEF T
  <2>1. T \in SUBSET Nat
    BY DEF T
  <2> QED
    BY <1>1, <1>2, <2>1, SetInduction
<1>4. PICK j \in D : ~(t + 1 <= j)
  BY <1>3
<1>5. j = t
  BY <1>3, <1>4
<1> QED
  BY <1>3, <1>5

(* f is built step by step: G gives the next value from the last one.      *)
StepByStep(f, S, b, G) ==
    f \in [Nat -> S] /\ f[0] = b /\ \A i \in Nat : f[i + 1] = G[<<i, f[i]>>]

LEMMA StepsExist ==
    ASSUME NEW S, NEW b \in S, NEW G \in [Nat \X S -> S]
    PROVE  \E f : StepByStep(f, S, b, G)
<1> DEFINE Partial(k, f) ==
             /\ f \in [0..k -> S] /\ f[0] = b
             /\ \A i \in 0..(k - 1) : f[i + 1] = G[<<i, f[i]>>]
           T == {k \in Nat : \E f : Partial(k, f)}
           part == [k \in Nat |-> CHOOSE f : Partial(k, f)]
           all == [k \in Nat |-> part[k][k]]
<1>1. 0 \in T
  <2>1. Partial(0, [i \in 0..0 |-> b])
    OBVIOUS
  <2> QED
    BY <2>1
<1>2. ASSUME NEW k \in T
      PROVE  k + 1 \in T
  <2>1. PICK f : Partial(k, f)
    OBVIOUS
  <2> DEFINE g == [i \in 0..(k + 1) |-> IF i = k + 1 THEN G[<<k, f[k]>>] ELSE f[i]]
  <2>2. k \in Nat /\ f[k] \in S /\ G[<<k, f[k]>>] \in S
    <3>1. k \in Nat /\ f[k] \in S
      BY <2>1
    <3>2. <<k, f[k]>> \in Nat \X S
      BY <3>1
    <3> QED
      BY <3>1, <3>2
  <2>3. g \in [0..(k + 1) -> S] /\ g[0] = b
    BY <2>1, <2>2
  <2>4. ASSUME NEW i \in 0..k
        PROVE  g[i + 1] = G[<<i, g[i]>>]
    <3>1. i + 1 \in 0..(k + 1) /\ i \in 0..(k + 1) /\ i # k + 1
      BY <2>2
    <3>2. g[i] = f[i] /\ g[i + 1] = IF i + 1 = k + 1 THEN G[<<k, f[k]>>] ELSE f[i + 1]
      BY <3>1
    <3>3. CASE i = k
      BY <3>2, <3>3
    <3>4. CASE i # k
      <4>1. i \in 0..(k - 1) /\ i + 1 # k + 1
        BY <2>2, <3>4
      <4>2. f[i + 1] = G[<<i, f[i]>>]
        BY <2>1, <4>1
      <4> QED
        BY <3>2, <4>1, <4>2
    <3> QED
      BY <3>3, <3>4
  <2>5. Partial(k + 1, g)
    <3> HIDE DEF g
    <3> QED
      BY <2>2, <2>3, <2>4
  <2>6. k + 1 \in Nat
    BY <2>2
  <2> HIDE DEF g, Partial
  <2> QED
    BY <2>5, <2>6
<1>3. T = Nat
  <2> HIDE DEF T
  <2>1. T \in SUBSET Nat
    BY DEF T
  <2> QED
    BY <1>1, <1>2, <2>1, SetInduction
<1>4. \A k \in Nat : Partial(k, part[k])
  BY <1>3
<1>5. ASSUME NEW k \in Nat, NEW f, NEW g, Partial(k, f), Partial(k + 1, g)
      PROVE  f[k] = g[k]
  <2> DEFINE V == {i \in Nat : i <= k => f[i] = g[i]}
  <2>1. 0 \in V
    BY <1>5
  <2>2. ASSUME NEW i \in V
        PROVE  i + 1 \in V
    <3>1. CASE i + 1 <= k
      <4>1. i \in 0..(k - 1) /\ i \in 0..k /\ f[i] = g[i]
        BY <3>1
      <4>2. f[i + 1] = G[<<i, f[i]>>] /\ g[i + 1] = G[<<i, g[i]>>]
        BY <1>5, <4>1
      <4> QED
        BY <4>1, <4>2
    <3>2. CASE ~(i + 1 <= k)
      BY <3>2
    <3> QED
      BY <3>1, <3>2
  <2>3. V = Nat
    <3> HIDE DEF V
    <3>1. V \in SUBSET Nat
      BY DEF V
    <3> QED
      BY <2>1, <2>2, <3>1, SetInduction
  <2> QED
    BY <2>3
<1>6. ASSUME NEW k \in Nat
      PROVE  all[k] \in S /\ all[k + 1] = G[<<k, all[k]>>]
  <2> DEFINE f == part[k]
             g == part[k + 1]
  <2>1. Partial(k, f) /\ Partial(k + 1, g)
    <3> HIDE DEF part, Partial
    <3> QED
      BY <1>4
  <2>2. all[k] = f[k] /\ all[k + 1] = g[k + 1]
    <3> HIDE DEF part
    <3> QED
      OBVIOUS
  <2> HIDE DEF f, g, all, part
  <2>3. f[k] = g[k]
    <3> HIDE DEF Partial
    <3> QED
      BY <1>5, <2>1
  <2> QED
    BY <2>1, <2>2, <2>3
<1>7. all[0] = b
  <2>1. Partial(0, part[0])
    <3> HIDE DEF Partial, part
    <3> QED
      BY <1>4
  <2> HIDE DEF part
  <2> QED
    BY <2>1
<1>8. all \in [Nat -> S]
  <2> HIDE DEF part
  <2>1. all = [k \in Nat |-> all[k]]
    OBVIOUS
  <2> HIDE DEF all
  <2> QED
    BY <1>6, <2>1
<1> HIDE DEF all
<1> QED
  BY <1>6, <1>7, <1>8 DEF StepByStep

(* The same for the first n numbers, when the steps keep the values in the *)
(* sets J[i].                                                              *)
InSteps(f, n, b, G, J) ==
    /\ f = [i \in 0 .. n |-> IF i = 0 THEN b ELSE G[<<i, f[i - 1]>>]]
    /\ \A i \in 0 .. n : f[i] \in J[i]

LEMMA StepsInside ==
    ASSUME NEW n \in Nat, NEW S, NEW J \in [0 .. n -> SUBSET S], NEW b \in J[0], NEW G,
           \A i \in 1 .. n : \A x \in J[i - 1] : G[<<i, x>>] \in J[i]
    PROVE  \E f : InSteps(f, n, b, G, J)
<1> DEFINE F == [y \in Nat \X S |-> IF G[<<y[1] + 1, y[2]>>] \in S THEN G[<<y[1] + 1, y[2]>>] ELSE b]
<1>1. b \in S /\ F \in [Nat \X S -> S]
  <2>1. 0 \in 0 .. n
    OBVIOUS
  <2> QED
    BY <2>1
<1>2. PICK h : StepByStep(h, S, b, F)
  <2> HIDE DEF F
  <2> QED
    BY <1>1, StepsExist
<1>3. ASSUME NEW i \in Nat, i + 1 <= n, h[i] \in J[i]
      PROVE  h[i + 1] = G[<<i + 1, h[i]>>] /\ h[i + 1] \in J[i + 1]
  <2>1. i + 1 \in 1 .. n /\ i \in 0 .. n /\ (i + 1) - 1 = i /\ i + 1 \in 0 .. n
    BY <1>3
  <2>2. G[<<i + 1, h[i]>>] \in J[i + 1] /\ h[i] \in S
    BY <1>3, <2>1
  <2>3. G[<<i + 1, h[i]>>] \in S /\ <<i, h[i]>> \in Nat \X S
    BY <2>1, <2>2
  <2>4. F[<<i, h[i]>>] = G[<<i + 1, h[i]>>]
    BY <2>3
  <2>5. h[i + 1] = F[<<i, h[i]>>]
    BY <1>2 DEF StepByStep
  <2> QED
    BY <2>2, <2>4, <2>5
<1> DEFINE T == {i \in Nat : i <= n => h[i] \in J[i]}
<1>4. 0 \in T
  BY <1>2 DEF StepByStep
<1>5. ASSUME NEW i \in T PROVE i + 1 \in T
  <2>1. i \in Nat /\ i + 1 \in Nat /\ (i + 1 <= n => i <= n)
    OBVIOUS
  <2> QED
    BY <1>3, <2>1
<1>6. T = Nat
  <2> HIDE DEF T
  <2>1. T \in SUBSET Nat
    BY DEF T
  <2> QED
    BY <1>4, <1>5, <2>1, SetInduction
<1>7. \A i \in 0 .. n : h[i] \in J[i]
  BY <1>6
<1> DEFINE f == [i \in 0 .. n |-> h[i]]
<1>8. ASSUME NEW i \in 0 .. n
      PROVE  f[i] = IF i = 0 THEN b ELSE G[<<i, f[i - 1]>>]
  <2>1. CASE i = 0
    BY <2>1, <1>2 DEF StepByStep
  <2>2. CASE i # 0
    <3>1. i - 1 \in Nat /\ i - 1 \in 0 .. n /\ (i - 1) + 1 = i /\ i <= n
      BY <2>2
    <3>2. h[i] = G[<<i, h[i - 1]>>]
      BY <1>3, <1>7, <3>1
    <3> QED
      BY <2>2, <3>1, <3>2
  <2> QED
    BY <2>1, <2>2
<1>9. f = [i \in 0 .. n |-> IF i = 0 THEN b ELSE G[<<i, f[i - 1]>>]]
  <2>1. f = [i \in 0 .. n |-> f[i]]
    OBVIOUS
  <2> HIDE DEF f
  <2> QED
    BY <1>8, <2>1
<1>10. \A i \in 0 .. n : f[i] \in J[i]
  BY <1>7
<1> HIDE DEF f
<1> QED
  BY <1>9, <1>10 DEF InSteps

---------------------------------------------------------------------------
(* A finite set, listed in a strict total order of its elements.           *)

(* order is a strict total order on S.                                     *)
TotalOn(order, S) ==
    /\ \A x \in S : <<x, x>> \notin order
    /\ \A x, y, z \in S : <<x, y>> \in order /\ <<y, z>> \in order => <<x, z>> \in order
    /\ \A x, y \in S : x # y => <<x, y>> \in order \/ <<y, x>> \in order

IsListed(s, S, order) ==
    /\ s \in Seq(S) /\ S \subseteq ToSet(s)
    /\ \A i, j \in DOMAIN s : i < j => <<s[i], s[j]>> \in order

HasLast(S, order) == \E g \in S : \A x \in S \ {g} : <<x, g>> \in order

LEMMA LastExists ==
    ASSUME NEW S, IsFiniteSet(S), S # {}, NEW order, TotalOn(order, S)
    PROVE  HasLast(S, order)
<1> DEFINE T == {k \in Nat : \A V \in SUBSET S :
                   IsFiniteSet(V) /\ Cardinality(V) = k + 1 => HasLast(V, order)}
<1>1. 0 \in T
  <2> SUFFICES ASSUME NEW V \in SUBSET S, IsFiniteSet(V), Cardinality(V) = 1
               PROVE  HasLast(V, order)
    OBVIOUS
  <2>1. PICK x : V = {x}
    BY FS_Singleton
  <2> QED
    BY <2>1 DEF HasLast
<1>2. ASSUME NEW k \in T
      PROVE  k + 1 \in T
  <2> SUFFICES ASSUME NEW V \in SUBSET S, IsFiniteSet(V), Cardinality(V) = k + 2
               PROVE  HasLast(V, order)
    OBVIOUS
  <2>1. PICK x \in V : TRUE
    BY FS_EmptySet
  <2>2. V \ {x} \in SUBSET S /\ IsFiniteSet(V \ {x}) /\ Cardinality(V \ {x}) = k + 1
    BY FS_RemoveElement
  <2>3. PICK g \in V \ {x} : \A y \in (V \ {x}) \ {g} : <<y, g>> \in order
    BY <2>2 DEF HasLast
  <2>4. CASE <<x, g>> \in order
    BY <2>1, <2>3, <2>4 DEF HasLast
  <2>5. CASE <<g, x>> \in order
    <3>1. \A y \in V \ {x} : <<y, x>> \in order
      BY <2>1, <2>3, <2>5 DEF TotalOn
    <3> QED
      BY <2>1, <3>1 DEF HasLast
  <2> QED
    BY <2>1, <2>3, <2>4, <2>5 DEF TotalOn
<1>3. T = Nat
  <2> HIDE DEF T
  <2>1. T \in SUBSET Nat
    BY DEF T
  <2> QED
    BY <1>1, <1>2, <2>1, SetInduction
<1>4. Cardinality(S) - 1 \in Nat /\ Cardinality(S) = (Cardinality(S) - 1) + 1
  BY FS_EmptySet, FS_CardinalityType
<1>5. Cardinality(S) - 1 \in T
  <2> HIDE DEF T
  <2> QED
    BY <1>3, <1>4
<1> QED
  BY <1>4, <1>5

LEMMA InTurnExists ==
    ASSUME NEW S, IsFiniteSet(S), NEW order, TotalOn(order, S)
    PROVE  \E s \in [1 .. Cardinality(S) -> S] :
             S \subseteq ToSet(s) /\ \A i, j \in DOMAIN s : i < j => <<s[i], s[j]>> \in order
<1> DEFINE Listed(V, k) ==
             \E s \in [1 .. k -> V] :
               /\ V \subseteq {s[i] : i \in 1 .. k}
               /\ \A i, j \in 1 .. k : i < j => <<s[i], s[j]>> \in order
           T == {k \in Nat : \A V \in SUBSET S :
                   IsFiniteSet(V) /\ Cardinality(V) = k => Listed(V, k)}
<1>1. 0 \in T
  <2> SUFFICES ASSUME NEW V \in SUBSET S, IsFiniteSet(V), Cardinality(V) = 0
               PROVE  Listed(V, 0)
    OBVIOUS
  <2>1. V = {}
    BY FS_EmptySet
  <2>2. 1 .. 0 = {}
    OBVIOUS
  <2> DEFINE s == [i \in 1 .. 0 |-> i]
  <2>3. s \in [1 .. 0 -> V]
    BY <2>2
  <2> QED
    BY <2>1, <2>2, <2>3
<1>2. ASSUME NEW k \in T
      PROVE  k + 1 \in T
  <2> SUFFICES ASSUME NEW V \in SUBSET S, IsFiniteSet(V), Cardinality(V) = k + 1
               PROVE  Listed(V, k + 1)
    OBVIOUS
  <2>1. PICK g \in V : \A x \in V \ {g} : <<x, g>> \in order
    <3>1. V # {}
      BY FS_EmptySet
    <3>2. TotalOn(order, V)
      BY DEF TotalOn
    <3> QED
      BY <3>1, <3>2, LastExists DEF HasLast
  <2>2. V \ {g} \in SUBSET S /\ IsFiniteSet(V \ {g}) /\ Cardinality(V \ {g}) = k
    BY SMTT(30), <2>1, FS_RemoveElement
  <2>3. PICK s \in [1 .. k -> V \ {g}] :
          /\ V \ {g} \subseteq {s[i] : i \in 1 .. k}
          /\ \A i, j \in 1 .. k : i < j => <<s[i], s[j]>> \in order
    BY <2>2
  <2> DEFINE t == [i \in 1 .. k + 1 |-> IF i = k + 1 THEN g ELSE s[i]]
  <2>4. k \in Nat /\ \A i \in 1 .. k : i \in 1 .. k + 1 /\ i # k + 1
    OBVIOUS
  <2>5. \A i \in 1 .. k + 1 : i # k + 1 => i \in 1 .. k
    BY <2>4
  <2>6. t \in [1 .. k + 1 -> V]
    BY <2>1, <2>3, <2>5
  <2>7. t[k + 1] = g /\ \A i \in 1 .. k : t[i] = s[i]
    BY <2>4
  <2>8. V \subseteq {t[i] : i \in 1 .. k + 1}
    <3>1. ASSUME NEW x \in V
          PROVE  \E i \in 1 .. k + 1 : t[i] = x
      <4>1. CASE x = g
        BY <2>4, <2>7, <4>1
      <4>2. CASE x # g
        <5>1. PICK i \in 1 .. k : s[i] = x
          BY <2>3, <4>2
        <5> QED
          BY <5>1, <2>4, <2>7
      <4> QED
        BY <4>1, <4>2
    <3> QED
      BY <3>1
  <2>9. ASSUME NEW i \in 1 .. k + 1, NEW j \in 1 .. k + 1, i < j
        PROVE  <<t[i], t[j]>> \in order
    <3>1. i \in 1 .. k
      BY <2>4, <2>9
    <3>2. t[i] = s[i] /\ s[i] \in V \ {g}
      BY <3>1, <2>3, <2>7
    <3>3. CASE j = k + 1
      BY <3>2, <3>3, <2>1, <2>7
    <3>4. CASE j # k + 1
      <4>1. j \in 1 .. k
        BY <2>5, <3>4
      <4> QED
        BY <2>3, <2>7, <2>9, <3>1, <4>1
    <3> QED
      BY <3>3, <3>4
  <2> HIDE DEF t
  <2> QED
    BY <2>6, <2>8, <2>9
<1>3. T = Nat
  <2> HIDE DEF T
  <2>1. T \in SUBSET Nat
    BY DEF T
  <2> QED
    BY <1>1, <1>2, <2>1, SetInduction
<1>4. Listed(S, Cardinality(S))
  BY <1>3, FS_CardinalityType
<1> QED
  BY <1>4 DEF ToSet

LEMMA InTurnLists ==
    ASSUME NEW S, IsFiniteSet(S), NEW order, TotalOn(order, S)
    PROVE  /\ IsListed(InTurn(S, order), S, order) /\ ToSet(InTurn(S, order)) = S
           /\ Len(InTurn(S, order)) = Cardinality(S)
<1> DEFINE s == InTurn(S, order)
<1>1. /\ s \in [1 .. Cardinality(S) -> S] /\ S \subseteq ToSet(s)
      /\ \A i, j \in DOMAIN s : i < j => <<s[i], s[j]>> \in order
  BY InTurnExists DEF InTurn
<1>2. s \in Seq(S) /\ Len(s) = Cardinality(S)
  BY <1>1, FS_CardinalityType
<1> HIDE DEF s
<1>3. ToSet(s) \subseteq S
  BY <1>1 DEF ToSet
<1> QED
  BY <1>1, <1>2, <1>3 DEF IsListed, s

(* Two lists of a set in the same order are the same.                      *)
LEMMA ListedOnce ==
    ASSUME NEW S, NEW order, TotalOn(order, S), NEW s, NEW t, IsListed(s, S, order), IsListed(t, S, order)
    PROVE  s = t
<1>0. /\ s \in Seq(S) /\ t \in Seq(S) /\ Len(s) \in Nat /\ Len(t) \in Nat
      /\ DOMAIN s = 1 .. Len(s) /\ DOMAIN t = 1 .. Len(t)
  BY DEF IsListed
<1>1. ASSUME NEW u, NEW v, IsListed(u, S, order), IsListed(v, S, order),
             NEW k \in DOMAIN u, k \in DOMAIN v => u[k] # v[k],
             \A m \in 1 .. k - 1 : m \in DOMAIN v /\ u[m] = v[m]
      PROVE  k \in DOMAIN v /\ <<v[k], u[k]>> \in order
  <2>1. u \in Seq(S) /\ v \in Seq(S) /\ k \in 1 .. Len(u) /\ Len(u) \in Nat /\ Len(v) \in Nat
    BY <1>1 DEF IsListed
  <2>2. DOMAIN u = 1 .. Len(u) /\ DOMAIN v = 1 .. Len(v) /\ u[k] \in S
    BY <2>1
  <2>3. PICK m \in 1 .. Len(v) : v[m] = u[k]
    BY <1>1, <2>2 DEF IsListed, ToSet
  <2>4. ~(m < k)
    <3> SUFFICES ASSUME m < k PROVE FALSE
      OBVIOUS
    <3>1. m \in 1 .. k - 1 /\ m \in DOMAIN u
      BY <2>1, <2>2
    <3>2. u[m] = v[m] /\ <<u[m], u[k]>> \in order
      BY <1>1, <3>1 DEF IsListed
    <3> QED
      BY <3>2, <2>2, <2>3 DEF TotalOn
  <2>5. m # k
    BY <1>1, <2>2, <2>3
  <2>6. k \in 1 .. Len(v) /\ k < m
    BY <2>1, <2>4, <2>5
  <2> QED
    BY <1>1, <2>2, <2>3, <2>6 DEF IsListed
<1> DEFINE D == {k \in Nat \ {0} : ~(k \in DOMAIN s <=> k \in DOMAIN t) \/ (k \in DOMAIN s /\ s[k] # t[k])}
<1>2. D = {}
  <2> SUFFICES ASSUME D # {} PROVE FALSE
    OBVIOUS
  <2>1. PICK k \in D : \A j \in D : k <= j
    <3>1. D \in SUBSET Nat
      OBVIOUS
    <3> HIDE DEF D
    <3> QED
      BY <3>1, LeastExists
  <2>2. \A m \in 1 .. k - 1 : (m \in DOMAIN s <=> m \in DOMAIN t) /\ (m \in DOMAIN s => s[m] = t[m])
    BY <2>1
  <2>3. k \in Nat \ {0}
    BY <2>1
  <2>4. k \in DOMAIN s => \A m \in 1 .. k - 1 : m \in DOMAIN t /\ s[m] = t[m]
    BY <1>0, <2>2, <2>3
  <2>5. k \in DOMAIN t => \A m \in 1 .. k - 1 : m \in DOMAIN s /\ t[m] = s[m]
    BY <1>0, <2>2, <2>3
  <2>6. k \in DOMAIN s /\ k \in DOMAIN t => s[k] # t[k]
    BY <2>1
  <2>7. k \in DOMAIN s => k \in DOMAIN t /\ <<t[k], s[k]>> \in order
    BY <1>1, <2>4, <2>6
  <2>8. k \in DOMAIN t => k \in DOMAIN s /\ <<s[k], t[k]>> \in order
    BY <1>1, <2>5, <2>6
  <2>9. k \in DOMAIN s \/ k \in DOMAIN t
    BY <2>1
  <2>10. s[k] \in S /\ t[k] \in S
    BY <1>0, <2>7, <2>8, <2>9
  <2> QED
    BY <2>7, <2>8, <2>9, <2>10 DEF TotalOn
<1>3. \A k \in Nat \ {0} : (k \in DOMAIN s <=> k \in DOMAIN t) /\ (k \in DOMAIN s => s[k] = t[k])
  BY <1>2
<1>4. Len(s) = Len(t)
  <2>1. ASSUME NEW u, NEW v, Len(u) \in Nat, Len(v) \in Nat, DOMAIN u = 1 .. Len(u), DOMAIN v = 1 .. Len(v),
               \A k \in Nat \ {0} : k \in DOMAIN u => k \in DOMAIN v
        PROVE  Len(u) <= Len(v)
    <3>1. CASE Len(u) = 0
      BY <2>1, <3>1
    <3>2. CASE Len(u) # 0
      <4>1. Len(u) \in Nat \ {0} /\ Len(u) \in DOMAIN u
        BY <2>1, <3>2
      <4> QED
        BY <2>1, <4>1
    <3> QED
      BY <3>1, <3>2
  <2>2. \A k \in Nat \ {0} : k \in DOMAIN s => k \in DOMAIN t
    BY <1>3
  <2>3. \A k \in Nat \ {0} : k \in DOMAIN t => k \in DOMAIN s
    BY <1>3
  <2> HIDE DEF D
  <2>4. Len(s) <= Len(t)
    BY ONLY <1>0, <2>1, <2>2
  <2>5. Len(t) <= Len(s)
    BY ONLY <1>0, <2>1, <2>3
  <2>6. \A m, n \in Nat : m <= n /\ n <= m => m = n
    OBVIOUS
  <2> QED
    BY <1>0, <2>4, <2>5, <2>6, Zenon
<1>5. \A k \in 1 .. Len(s) : s[k] = t[k]
  BY <1>0, <1>3
<1>6. s \in [1 .. Len(s) -> S] /\ t \in [1 .. Len(s) -> S]
  BY <1>0, <1>4
<1>7. s = [k \in 1 .. Len(s) |-> s[k]] /\ t = [k \in 1 .. Len(s) |-> t[k]]
  BY <1>6
<1>8. [k \in 1 .. Len(s) |-> s[k]] = [k \in 1 .. Len(s) |-> t[k]]
  BY <1>5
<1> QED
  BY <1>7, <1>8

---------------------------------------------------------------------------
(* Sequences of numbers in lexicographic order.                            *)

LEMMA SameEntries ==
    ASSUME NEW S, NEW p \in Seq(S), NEW q \in Seq(S), Len(p) = Len(q), \A i \in 1 .. Len(p) : p[i] = q[i]
    PROVE  p = q
<1>1. p = [i \in 1 .. Len(p) |-> p[i]] /\ q = [i \in 1 .. Len(q) |-> q[i]]
  OBVIOUS
<1> QED
  BY <1>1

LEMMA LexIrreflexive ==
    ASSUME NEW p \in Seq(Nat)
    PROVE  ~Lexicographic(p, p)
BY DEF Lexicographic

LEMMA LexTransitive ==
    ASSUME NEW p \in Seq(Nat), NEW q \in Seq(Nat), NEW r \in Seq(Nat), Lexicographic(p, q), Lexicographic(q, r)
    PROVE  Lexicographic(p, r)
<1>1. PICK k \in 1 .. Len(q) : /\ \A j \in 1 .. k - 1 : j <= Len(p) /\ p[j] = q[j]
                               /\ Len(p) < k \/ p[k] < q[k]
  BY DEF Lexicographic
<1>2. PICK l \in 1 .. Len(r) : /\ \A j \in 1 .. l - 1 : j <= Len(q) /\ q[j] = r[j]
                               /\ Len(q) < l \/ q[l] < r[l]
  BY DEF Lexicographic
<1>3. Len(p) \in Nat /\ Len(q) \in Nat /\ Len(r) \in Nat /\ k \in Nat /\ l \in Nat /\ k >= 1 /\ l >= 1
  OBVIOUS
<1>4. \A i \in 1 .. Len(p) : p[i] \in Nat
  OBVIOUS
<1>5. \A i \in 1 .. Len(q) : q[i] \in Nat
  OBVIOUS
<1>6. \A i \in 1 .. Len(r) : r[i] \in Nat
  OBVIOUS
<1>7. CASE k < l
  <2>1. k \in 1 .. Len(r) /\ k \in 1 .. l - 1 /\ q[k] = r[k]
    BY <1>2, <1>3, <1>7
  <2>2. \A j \in 1 .. k - 1 : j <= Len(p) /\ p[j] = r[j]
    BY <1>1, <1>2, <1>3, <1>7
  <2> QED
    BY <1>1, <2>1, <2>2 DEF Lexicographic
<1>8. CASE l <= k
  <2>1. l <= Len(q) /\ q[l] < r[l]
    BY <1>2, <1>3, <1>8
  <2>2. \A j \in 1 .. l - 1 : j <= Len(p) /\ p[j] = r[j]
    BY <1>1, <1>2, <1>3, <1>8
  <2>3. Len(p) < l \/ p[l] < r[l]
    <3>1. CASE l < k
      <4>1. l \in 1 .. k - 1
        BY <1>3, <3>1
      <4> QED
        BY <4>1, <1>1, <2>1
    <3>2. CASE l = k /\ Len(p) >= l
      BY <1>1, <1>3, <1>4, <1>5, <1>6, <2>1, <3>2
    <3> QED
      BY <1>3, <1>8, <3>1, <3>2
  <2> QED
    BY <2>2, <2>3 DEF Lexicographic
<1> QED
  BY <1>3, <1>7, <1>8

LEMMA LexTotal ==
    ASSUME NEW p \in Seq(Nat), NEW q \in Seq(Nat), p # q
    PROVE  Lexicographic(p, q) \/ Lexicographic(q, p)
<1> DEFINE D == {i \in 1 .. Len(p) : i > Len(q) \/ p[i] # q[i]}
<1>0. Len(p) \in Nat /\ Len(q) \in Nat
  OBVIOUS
<1>1. CASE D = {}
  <2>1. Len(p) <= Len(q) /\ \A i \in 1 .. Len(p) : p[i] = q[i]
    <3>1. \A i \in 1 .. Len(p) : i <= Len(q) /\ p[i] = q[i]
      BY <1>0, <1>1
    <3> QED
      BY <1>0, <3>1
  <2>2. Len(p) # Len(q)
    <3>1. Len(p) = Len(q) => p = q
      BY <2>1, SameEntries
    <3> QED
      BY <3>1
  <2>3. Len(p) + 1 \in 1 .. Len(q) /\ \A j \in 1 .. (Len(p) + 1) - 1 : j <= Len(p) /\ p[j] = q[j]
    BY <1>0, <2>1, <2>2
  <2>4. PICK k \in 1 .. Len(q) : k = Len(p) + 1
    BY <2>3
  <2>5. (\A j \in 1 .. k - 1 : j <= Len(p) /\ p[j] = q[j]) /\ Len(p) < k
    BY <1>0, <2>3, <2>4
  <2> QED
    BY <2>5 DEF Lexicographic
<1>2. CASE D # {}
  <2>1. PICK k \in D : \A j \in D : k <= j
    <3>1. D \in SUBSET Nat
      BY <1>0
    <3> HIDE DEF D
    <3> QED
      BY <1>2, <3>1, LeastExists
  <2>2. k \in 1 .. Len(p) /\ \A j \in 1 .. k - 1 : j <= Len(q) /\ p[j] = q[j]
    BY <1>0, <2>1
  <2>3. CASE k > Len(q)
    BY <2>2, <2>3, <1>0 DEF Lexicographic
  <2>4. CASE k <= Len(q)
    <3>1. p[k] # q[k] /\ k \in 1 .. Len(q) /\ k \in 1 .. Len(p)
      BY <2>1, <2>2, <2>4, <1>0
    <3>3. p[k] \in Nat /\ q[k] \in Nat
      BY <3>1
    <3>2. \A j \in 1 .. k - 1 : j <= Len(p) /\ q[j] = p[j]
      BY <1>0, <2>2
    <3> QED
      BY <2>2, <3>1, <3>2, <3>3 DEF Lexicographic
  <2> QED
    BY <1>0, <2>2, <2>3, <2>4
<1> QED
  BY <1>1, <1>2

---------------------------------------------------------------------------
(* The numbers of a set in ascending order, and the parts of a list.       *)

LEMMA Ascends ==
    ASSUME NEW S \in SUBSET Int
    PROVE  TotalOn({x \in S \X S : x[1] < x[2]}, S)
BY DEF TotalOn

LEMMA AscendingIs ==
    ASSUME NEW S \in SUBSET Int, IsFiniteSet(S)
    PROVE  /\ Ascending(S) \in Seq(S) /\ ToSet(Ascending(S)) = S /\ Len(Ascending(S)) = Cardinality(S)
           /\ DOMAIN Ascending(S) = 1 .. Cardinality(S) /\ Cardinality(S) \in Nat
           /\ \A k \in DOMAIN Ascending(S) : Ascending(S)[k] \in S
           /\ \A i \in S : \E k \in DOMAIN Ascending(S) : Ascending(S)[k] = i
           /\ \A i, j \in DOMAIN Ascending(S) : i < j => Ascending(S)[i] < Ascending(S)[j]
<1> DEFINE before == {x \in S \X S : x[1] < x[2]}
           s == Ascending(S)
<1>1. IsListed(s, S, before) /\ ToSet(s) = S /\ Len(s) = Cardinality(S)
  BY Ascends, InTurnLists DEF Ascending
<1>2. Cardinality(S) \in Nat
  BY FS_CardinalityType
<1> HIDE DEF s
<1>3. s \in Seq(S) /\ \A i, j \in DOMAIN s : i < j => <<s[i], s[j]>> \in before
  BY <1>1 DEF IsListed
<1>4. DOMAIN s = 1 .. Cardinality(S) /\ \A k \in DOMAIN s : s[k] \in S
  BY <1>1, <1>3
<1>5. \A i \in S : \E k \in DOMAIN s : s[k] = i
  BY <1>1 DEF ToSet
<1> QED
  BY <1>1, <1>2, <1>3, <1>4, <1>5 DEF s

(* The numbers of a set have one ascending list.                           *)
LEMMA AscendingOnce ==
    ASSUME NEW S \in SUBSET Int, NEW s \in Seq(S), S \subseteq ToSet(s), IsFiniteSet(S),
           \A i, j \in DOMAIN s : i < j => s[i] < s[j]
    PROVE  s = Ascending(S)
<1> DEFINE before == {x \in S \X S : x[1] < x[2]}
<1>1. IsListed(Ascending(S), S, before)
  BY Ascends, InTurnLists DEF Ascending
<1>2. \A i \in DOMAIN s : s[i] \in S
  OBVIOUS
<1>3. IsListed(s, S, before)
  BY <1>2 DEF IsListed
<1> QED
  BY <1>1, <1>3, Ascends, ListedOnce

LEMMA DomainIs == \A s : \A S : s \in Seq(S) => DOMAIN s = 1 .. Len(s) /\ Len(s) \in Nat /\ IsFiniteSet(DOMAIN s)
<1> SUFFICES ASSUME NEW s, NEW S, s \in Seq(S) PROVE DOMAIN s = 1 .. Len(s) /\ Len(s) \in Nat /\ IsFiniteSet(DOMAIN s)
  OBVIOUS
<1>1. DOMAIN s = 1 .. Len(s) /\ Len(s) \in Nat
  OBVIOUS
<1>2. 1 \in Int /\ Len(s) \in Int
  BY <1>1
<1>3. IsFiniteSet(1 .. Len(s))
  BY <1>2, FS_Interval
<1> QED
  BY <1>1, <1>3

LEMMA PickedWhole ==
    ASSUME NEW S, NEW list \in Seq(S)
    PROVE  Picked(list, DOMAIN list) = list
<1> DEFINE N == Len(list)
           s == [i \in 1 .. N |-> i]
<1>1. N \in Nat /\ DOMAIN list = 1 .. N /\ IsFiniteSet(1 .. N)
  BY DomainIs
<1>2. s \in Seq(1 .. N) /\ DOMAIN s = 1 .. N
  BY <1>1
<1>3. 1 .. N \subseteq ToSet(s)
  BY DEF ToSet
<1>4. s = Ascending(1 .. N)
  <2>1. 1 .. N \in SUBSET Int /\ \A i, j \in DOMAIN s : i < j => s[i] < s[j]
    OBVIOUS
  <2> HIDE DEF s
  <2> QED
    BY <1>1, <1>2, <1>3, <2>1, AscendingOnce
<1>5. Picked(list, DOMAIN list) = [k \in 1 .. N |-> list[s[k]]]
  BY <1>1, <1>2, <1>4 DEF Picked
<1>6. list = [k \in 1 .. N |-> list[k]]
  BY <1>1
<1> QED
  BY <1>5, <1>6

LEMMA FrontIs ==
    ASSUME NEW S, NEW s \in Seq(S), s # <<>>
    PROVE  /\ Front(s) \in Seq(S) /\ Len(Front(s)) = Len(s) - 1
           /\ \A i \in 1 .. Len(s) - 1 : Front(s)[i] = s[i]
<1>1. PICK m \in Nat : m = Len(s) - 1 /\ Len(s) = m + 1
  OBVIOUS
<1>2. Front(s) = SubSeq(s, 1, m)
  BY <1>1 DEF Front
<1>3. /\ SubSeq(s, 1, m) \in Seq(S) /\ Len(SubSeq(s, 1, m)) = m
      /\ \A i \in 1 .. m : SubSeq(s, 1, m)[i] = s[i]
  BY <1>1
<1> QED
  BY <1>1, <1>2, <1>3
===========================================================================
