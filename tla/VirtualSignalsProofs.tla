------------------------ MODULE VirtualSignalsProofs ------------------------
(***************************************************************************)
(* What holds of virtual signals for any number of agents, servers,        *)
(* signals, expressions and calls, with proofs.                            *)
(*                                                                         *)
(* SignalsInvariant and what follows from it depend on nothing that the    *)
(* checks for cycles and the searches for dependents compute;              *)
(* NoSignalDependsOnItself and OwnEditsInvalidate rest on the first part,  *)
(* which says what they do.                                                *)
(***************************************************************************)
EXTENDS VirtualSignals, FiniteInduction

---------------------------------------------------------------------------
(* What the search for a signal's dependents and the check for cycles      *)
(* give, whatever the definitions are.                                     *)
(*                                                                         *)
(* Both are recursive functions, and nothing is assumed of these but their *)
(* equations.  That functions with these equations exist is proved first:  *)
(* the search builds one set per number of steps, and the check calls      *)
(* itself at the next depth only, down from the one where it gives up.     *)

(* The search for dependents, step by step.                                *)
Dependents(d, X) == X \cup {m \in Names : \E k \in X : DependsOn(d, m, k)}

LEMMA ReachSteps ==
    ASSUME NEW d, NEW n \in Names
    PROVE  \E f \in [Nat -> SUBSET Names] :
             /\ f[0] = {n} /\ \A i \in Nat : f[i + 1] = Dependents(d, f[i])
             /\ WithDependents(d, n) = f[Cardinality(Names)]
<1> DEFINE S == SUBSET Names
           G == [s \in Nat \X S |-> Dependents(d, s[2])]
           Is(f) == f = [i \in Nat |->
             IF i = 0 THEN {n}
             ELSE f[i - 1] \cup {m \in Names : \E k \in f[i - 1] : DependsOn(d, m, k)}]
           r == CHOOSE f : Is(f)
<1>1. PICK f : StepByStep(f, S, {n}, G)
  <2>1. G \in [Nat \X S -> S]
    BY DEF Dependents
  <2>2. {n} \in S
    OBVIOUS
  <2> HIDE DEF G, S
  <2> QED
    BY <2>1, <2>2, StepsExist
<1>2. f \in [Nat -> S] /\ f[0] = {n} /\ \A i \in Nat : f[i + 1] = G[<<i, f[i]>>]
  BY <1>1 DEF StepByStep
<1>3. \A i \in Nat : f[i + 1] = Dependents(d, f[i])
  <2>1. TAKE i \in Nat
  <2>2. <<i, f[i]>> \in Nat \X S /\ <<i, f[i]>>[2] = f[i]
    BY <1>2
  <2>3. G[<<i, f[i]>>] = Dependents(d, f[i])
    BY <2>2
  <2> QED
    BY <1>2, <2>3
<1>4. Is(f)
  <2>1. \A i \in Nat : f[i] = IF i = 0 THEN {n}
             ELSE f[i - 1] \cup {m \in Names : \E k \in f[i - 1] : DependsOn(d, m, k)}
    <3>1. TAKE i \in Nat
    <3>2. CASE i = 0
      BY <1>2, <3>2
    <3>3. CASE i # 0
      <4>1. i - 1 \in Nat /\ (i - 1) + 1 = i
        BY <3>3
      <4> QED
        BY <1>3, <3>3, <4>1 DEF Dependents
    <3> QED
      BY <3>2, <3>3
  <2> QED
    BY <1>2, <2>1
<1>5. Is(r)
  BY <1>4
<1>6. r[0] = {n} /\ \A i \in Nat : r[i + 1] = Dependents(d, r[i])
  <2> HIDE DEF r
  <2>1. r[0] = {n}
    BY <1>5
  <2>2. ASSUME NEW i \in Nat
        PROVE  r[i + 1] = Dependents(d, r[i])
    BY <1>5 DEF Dependents
  <2> QED
    BY <2>1, <2>2
<1>7. r \in [Nat -> S]
  <2> DEFINE V == {i \in Nat : r[i] \in S}
  <2> HIDE DEF r
  <2>1. 0 \in V /\ \A i \in V : i + 1 \in V
    BY <1>6 DEF Dependents
  <2>2. V = Nat
    <3> HIDE DEF V
    <3>1. V \in SUBSET Nat
      BY DEF V
    <3> QED
      BY <2>1, <3>1, SetInduction
  <2>3. r = [i \in Nat |-> r[i]]
    BY <1>5
  <2> QED
    BY <2>2, <2>3
<1>8. WithDependents(d, n) = r[Cardinality(Names)]
  BY DEF WithDependents
<1> HIDE DEF r
<1> QED
  BY <1>6, <1>7, <1>8

Reaching(d, f) == \A i \in Nat : f[i + 1] = Dependents(d, f[i])

(* What remains the same for a step remains the same.                      *)
LEMMA ReachStays ==
    ASSUME NEW d, NEW f, Reaching(d, f),
           NEW i \in Nat, f[i + 1] = f[i], NEW j \in Nat, i <= j
    PROVE  f[j] = f[i]
<1> DEFINE V == {k \in Nat : i <= k => f[k] = f[i]}
<1>1. 0 \in V
  OBVIOUS
<1>2. ASSUME NEW k \in V
      PROVE  k + 1 \in V
  <2>1. CASE i = k + 1
    BY <2>1
  <2>2. CASE i <= k
    <3>1. f[k] = f[i] /\ f[k + 1] = Dependents(d, f[k]) /\ f[i + 1] = Dependents(d, f[i])
      BY <2>2 DEF Reaching
    <3> QED
      BY <3>1
  <2> QED
    BY <2>1, <2>2
<1>3. V = Nat
  <2> HIDE DEF V
  <2>1. V \in SUBSET Nat
    BY DEF V
  <2> QED
    BY <1>1, <1>2, <2>1, SetInduction
<1> QED
  BY <1>3

(* _cache_invalidate_all's search finds the signal and all that refer to   *)
(* what it finds: it has come to an end after as many steps as there are   *)
(* names, for every step before the last one finds another name.           *)
THEOREM DependentsFound ==
    ASSUME NEW d, NEW n \in Names
    PROVE  /\ n \in WithDependents(d, n) /\ WithDependents(d, n) \subseteq Names
           /\ \A k \in WithDependents(d, n) : \A m \in Names :
                DependsOn(d, m, k) => m \in WithDependents(d, n)
<1> DEFINE C == Cardinality(Names)
<1>1. PICK f \in [Nat -> SUBSET Names] :
        /\ f[0] = {n} /\ \A i \in Nat : f[i + 1] = Dependents(d, f[i])
        /\ WithDependents(d, n) = f[C]
  BY ReachSteps
<1>2. IsFiniteSet(Names) /\ C \in Nat
  BY SignalsAssumption, FS_CardinalityType
<1>3. \A i \in Nat : /\ IsFiniteSet(f[i]) /\ Cardinality(f[i]) \in Nat
                     /\ Cardinality(f[i]) <= C /\ f[i] \in SUBSET Names
  <2>1. TAKE i \in Nat
  <2>2. f[i] \in SUBSET Names
    BY <1>1
  <2> HIDE DEF C
  <2> QED
    BY <1>2, <2>2, FS_Subset, FS_CardinalityType DEF C
<1>4. \A i \in Nat : f[i] \subseteq f[i + 1]
  BY <1>1 DEF Dependents
<1> HIDE DEF C
<1>5. f[C + 1] = f[C]
  <2> SUFFICES ASSUME f[C + 1] # f[C]
               PROVE  FALSE
    OBVIOUS
  <2> DEFINE V == {i \in Nat : i <= C + 1 => Cardinality(f[i]) >= i + 1}
  <2>1. 0 \in V
    <3>1. Cardinality(f[0]) = 1
      BY <1>1, FS_Singleton
    <3> QED
      BY <3>1
  <2>2. ASSUME NEW i \in V
        PROVE  i + 1 \in V
    <3>1. SUFFICES ASSUME i + 1 <= C + 1
                   PROVE  Cardinality(f[i + 1]) >= (i + 1) + 1
      OBVIOUS
    <3>2. i \in Nat /\ i <= C /\ Cardinality(f[i]) >= i + 1
      BY <1>2, <3>1
    <3>3. f[i + 1] # f[i]
      <4> SUFFICES ASSUME f[i + 1] = f[i]
                   PROVE  FALSE
        OBVIOUS
      <4> Reaching(d, f)
        BY <1>1 DEF Reaching
      <4>1. f[C] = f[i]
        BY <1>2, <3>2, ReachStays
      <4>2. f[C + 1] = f[i]
        <5>1. C + 1 \in Nat /\ i <= C + 1
          BY <1>2, <3>2
        <5> QED
          BY <3>2, <5>1, ReachStays
      <4> QED
        BY <4>1, <4>2
    <3> DEFINE p == f[i]
               q == f[i + 1]
    <3>4. /\ IsFiniteSet(q) /\ p \in SUBSET q /\ p # q
          /\ Cardinality(p) \in Nat /\ Cardinality(q) \in Nat /\ Cardinality(p) >= i + 1
      BY <1>3, <1>4, <3>2, <3>3
    <3> HIDE DEF p, q
    <3>5. Cardinality(p) <= Cardinality(q) /\ Cardinality(p) # Cardinality(q)
      BY <3>4, FS_Subset
    <3>6. Cardinality(q) >= (i + 1) + 1
      BY <3>2, <3>4, <3>5
    <3> QED
      BY <3>6 DEF q
  <2>3. V = Nat
    <3> HIDE DEF V
    <3>1. V \in SUBSET Nat
      BY DEF V
    <3> QED
      BY <2>1, <2>2, <3>1, SetInduction
  <2>4. C + 1 \in V /\ C + 1 \in Nat
    BY <1>2, <2>3
  <2>5. Cardinality(f[C + 1]) >= (C + 1) + 1
    BY <1>2, <2>4
  <2>6. Cardinality(f[C + 1]) <= C /\ Cardinality(f[C + 1]) \in Nat
    BY <1>3, <2>4
  <2> QED
    BY <1>2, <2>5, <2>6
<1>6. f[C] = Dependents(d, f[C])
  BY <1>1, <1>2, <1>5
<1>7. n \in f[C]
  <2> DEFINE V == {i \in Nat : n \in f[i]}
  <2>1. 0 \in V /\ \A i \in V : i + 1 \in V
    BY <1>1, <1>4
  <2>2. V = Nat
    <3> HIDE DEF V
    <3>1. V \in SUBSET Nat
      BY DEF V
    <3> QED
      BY <2>1, <3>1, SetInduction
  <2> QED
    BY <1>2, <2>2
<1> QED
  BY <1>1, <1>2, <1>3, <1>6, <1>7 DEF Dependents

(* ... and nothing else: what holds of the signal, and of all that refer   *)
(* to a name it holds of, holds of all that is found.                      *)
THEOREM DependentsOnly ==
    ASSUME NEW d, NEW n \in Names, NEW T, n \in T,
           \A k \in T : \A m \in Names : DependsOn(d, m, k) => m \in T
    PROVE  WithDependents(d, n) \subseteq T
<1> DEFINE C == Cardinality(Names)
<1>1. PICK f \in [Nat -> SUBSET Names] :
        /\ f[0] = {n} /\ \A i \in Nat : f[i + 1] = Dependents(d, f[i])
        /\ WithDependents(d, n) = f[C]
  BY ReachSteps
<1>2. C \in Nat
  BY SignalsAssumption, FS_CardinalityType
<1> DEFINE V == {i \in Nat : f[i] \subseteq T}
<1>3. 0 \in V
  BY <1>1
<1>4. ASSUME NEW i \in V
      PROVE  i + 1 \in V
  <2>1. f[i + 1] = Dependents(d, f[i]) /\ f[i] \subseteq T
    BY <1>1
  <2>2. Dependents(d, f[i]) \subseteq T
    BY <2>1 DEF Dependents
  <2> QED
    BY <2>1, <2>2
<1>5. V = Nat
  <2> HIDE DEF V
  <2>1. V \in SUBSET Nat
    BY DEF V
  <2> QED
    BY <1>3, <1>4, <2>1, SetInduction
<1> QED
  BY <1>1, <1>2, <1>5

(* The calls of _visit that the loop over the dependencies makes.          *)
Callee(v, n, seen) ==
    [name |-> n, depth |-> v.depth + 1, path |-> v.path \cup {v.name}, seen |-> seen]

LEMMA CalleeType ==
    ASSUME NEW v \in Visits, NEW n \in Names, NEW seen \in SUBSET Names
    PROVE  /\ Callee(v, n, seen) \in Visits /\ Callee(v, n, seen).depth = v.depth + 1
           /\ Callee(v, n, seen).name = n /\ Callee(v, n, seen).seen = seen
           /\ Callee(v, n, seen).path = v.path \cup {v.name}
BY DEF Visits, Callee

(* What the calls at one depth return are outcomes.                        *)
TypedAt(visit, depth) == \A w \in Visits : w.depth = depth => visit[w] \in Outcomes

(* The loop's outcomes after each of its rounds.                           *)
Rounds(visit, refs, v, f) ==
    /\ f \in [0..Len(refs) -> Outcomes] /\ f[0] = [ok |-> TRUE, seen |-> v.seen]
    /\ \A i \in 0..(Len(refs) - 1) :
         f[i + 1] = IF ~f[i].ok THEN f[i] ELSE visit[Callee(v, refs[i + 1], f[i].seen)]

LEMMA VisitRefsRounds ==
    ASSUME NEW visit, NEW refs \in Seq(Names), NEW v \in Visits, TypedAt(visit, v.depth + 1)
    PROVE  \E f : Rounds(visit, refs, v, f) /\ VisitRefs(visit, refs, v) = f[Len(refs)]
<1> DEFINE L == Len(refs)
           b == [ok |-> TRUE, seen |-> v.seen]
           Is(f) == f = [i \in 0..Len(refs) |->
             IF i = 0 THEN [ok |-> TRUE, seen |-> v.seen]
             ELSE IF ~f[i - 1].ok THEN f[i - 1]
             ELSE visit[[name |-> refs[i], depth |-> v.depth + 1,
                         path |-> v.path \cup {v.name}, seen |-> f[i - 1].seen]]]
           r == CHOOSE f : Is(f)
           G == [s \in Nat \X Outcomes |->
                   IF ~s[2].ok \/ s[1] >= L THEN s[2]
                   ELSE visit[Callee(v, refs[s[1] + 1], s[2].seen)]]
<1>1. L \in Nat /\ b \in Outcomes
  BY DEF Visits, Outcomes
<1>2. ASSUME NEW i \in 0..(L - 1), NEW o \in Outcomes
      PROVE  visit[Callee(v, refs[i + 1], o.seen)] \in Outcomes
  <2>1. refs[i + 1] \in Names /\ o.seen \in SUBSET Names
    BY <1>1 DEF Outcomes
  <2> QED
    BY <2>1, CalleeType DEF TypedAt
<1>3. G \in [Nat \X Outcomes -> Outcomes]
  <2> SUFFICES ASSUME NEW s \in Nat \X Outcomes
               PROVE  (IF ~s[2].ok \/ s[1] >= L THEN s[2]
                       ELSE visit[Callee(v, refs[s[1] + 1], s[2].seen)]) \in Outcomes
    OBVIOUS
  <2>1. s[1] \in Nat /\ s[2] \in Outcomes
    OBVIOUS
  <2>2. CASE ~s[2].ok \/ s[1] >= L
    BY <2>1, <2>2
  <2>3. CASE ~(~s[2].ok \/ s[1] >= L)
    <3>1. s[1] \in 0..(L - 1)
      BY <1>1, <2>1, <2>3
    <3>2. visit[Callee(v, refs[s[1] + 1], s[2].seen)] \in Outcomes
      BY <1>2, <2>1, <3>1
    <3> QED
      BY <2>3, <3>2
  <2> QED
    BY <2>2, <2>3
<1>4. PICK F : StepByStep(F, Outcomes, b, G)
  <2> HIDE DEF G, b
  <2> QED
    BY <1>1, <1>3, StepsExist
<1>5. F \in [Nat -> Outcomes] /\ F[0] = b
  BY <1>4 DEF StepByStep
<1>6. ASSUME NEW i \in 0..(L - 1)
      PROVE  F[i + 1] = IF ~F[i].ok THEN F[i] ELSE visit[Callee(v, refs[i + 1], F[i].seen)]
  <2>1. i \in Nat /\ ~(i >= L) /\ <<i, F[i]>> \in Nat \X Outcomes
    BY <1>1, <1>5
  <2>2. G[<<i, F[i]>>] = IF ~F[i].ok \/ i >= L THEN F[i]
                         ELSE visit[Callee(v, refs[i + 1], F[i].seen)]
    BY <2>1
  <2>3. F[i + 1] = G[<<i, F[i]>>]
    <3> HIDE DEF G
    <3> QED
      BY <1>4, <2>1 DEF StepByStep
  <2> QED
    BY <2>1, <2>2, <2>3
<1> DEFINE g == [i \in 0..L |-> F[i]]
<1> HIDE DEF G
<1>7. Is(g)
  <2> SUFFICES ASSUME NEW i \in 0..L
               PROVE  g[i] = IF i = 0 THEN b ELSE IF ~g[i - 1].ok THEN g[i - 1]
                             ELSE visit[Callee(v, refs[i], g[i - 1].seen)]
    BY DEF Callee
  <2>1. CASE i = 0
    BY <1>5, <2>1
  <2>2. CASE i # 0
    <3>1. i - 1 \in 0..(L - 1) /\ (i - 1) + 1 = i /\ i - 1 \in 0..L
      BY <1>1, <2>2
    <3>2. F[(i - 1) + 1] = IF ~F[i - 1].ok THEN F[i - 1]
                           ELSE visit[Callee(v, refs[(i - 1) + 1], F[i - 1].seen)]
      BY <1>6, <3>1
    <3>3. g[i] = F[i] /\ g[i - 1] = F[i - 1]
      BY <3>1
    <3> HIDE DEF g
    <3> QED
      BY <2>2, <3>1, <3>2, <3>3
  <2> QED
    BY <2>1, <2>2
<1>8. Is(r)
  <2> HIDE DEF g
  <2> QED
    BY <1>7
<1> HIDE DEF r, g
<1>9. /\ r = [i \in 0..L |-> r[i]] /\ r[0] = b
      /\ \A i \in 0..(L - 1) :
           r[i + 1] = IF ~r[i].ok THEN r[i] ELSE visit[Callee(v, refs[i + 1], r[i].seen)]
  <2>1. r = [i \in 0..L |-> r[i]]
    BY <1>8
  <2>2. r[0] = b
    BY <1>1, <1>8
  <2>3. ASSUME NEW i \in 0..(L - 1)
        PROVE  r[i + 1] = IF ~r[i].ok THEN r[i] ELSE visit[Callee(v, refs[i + 1], r[i].seen)]
    <3>1. i + 1 \in 0..L /\ i + 1 # 0 /\ (i + 1) - 1 = i
      BY <1>1
    <3>2. r[i + 1] = IF ~r[(i + 1) - 1].ok THEN r[(i + 1) - 1]
                     ELSE visit[Callee(v, refs[i + 1], r[(i + 1) - 1].seen)]
      BY <1>8, <3>1 DEF Callee
    <3> QED
      BY <3>1, <3>2
  <2> QED
    BY <2>1, <2>2, <2>3
<1>10. r \in [0..L -> Outcomes]
  <2> DEFINE V == {i \in Nat : i <= L => r[i] \in Outcomes}
  <2>1. 0 \in V
    BY <1>1, <1>9
  <2>2. ASSUME NEW i \in V
        PROVE  i + 1 \in V
    <3>1. SUFFICES ASSUME i + 1 <= L
                   PROVE  r[i + 1] \in Outcomes
      OBVIOUS
    <3>2. i \in 0..(L - 1) /\ r[i] \in Outcomes
      BY <1>1, <3>1
    <3> QED
      BY <1>2, <1>9, <3>2
  <2>3. V = Nat
    <3> HIDE DEF V
    <3>1. V \in SUBSET Nat
      BY DEF V
    <3> QED
      BY <2>1, <2>2, <3>1, SetInduction
  <2>4. \A i \in 0..L : r[i] \in Outcomes
    BY <1>1, <2>3
  <2> QED
    BY <1>9, <2>4
<1>11. VisitRefs(visit, refs, v) = r[L]
  BY DEF VisitRefs, r
<1> QED
  BY <1>9, <1>10, <1>11 DEF Rounds

LEMMA RefsType ==
    ASSUME NEW d \in Sessions, NEW n \in Names
    PROVE  RefsIn(d, n) \in Seq(Names)
<1>1. CASE d[n] = None
  BY <1>1 DEF RefsIn
<1>2. CASE d[n] # None
  <2>1. d[n].expr \in Exprs
    BY <1>2 DEF Sessions, Definitions
  <2> QED
    BY <1>2, <2>1, SignalsAssumption DEF RefsIn
<1> QED
  BY <1>1, <1>2

(* The loop depends on nothing but the calls that it makes.                *)
SameAt(visit, other, depth) == \A w \in Visits : w.depth = depth => visit[w] = other[w]

LEMMA VisitRefsSame ==
    ASSUME NEW visit, NEW other, NEW refs \in Seq(Names), NEW v \in Visits,
           TypedAt(visit, v.depth + 1), SameAt(visit, other, v.depth + 1)
    PROVE  VisitRefs(visit, refs, v) = VisitRefs(other, refs, v)
<1> DEFINE L == Len(refs)
<1>1. L \in Nat /\ TypedAt(other, v.depth + 1)
  BY DEF TypedAt, SameAt
<1>2. PICK f : Rounds(visit, refs, v, f) /\ VisitRefs(visit, refs, v) = f[L]
  BY VisitRefsRounds
<1>3. PICK g : Rounds(other, refs, v, g) /\ VisitRefs(other, refs, v) = g[L]
  BY <1>1, VisitRefsRounds
<1> DEFINE V == {i \in Nat : i <= L => f[i] = g[i]}
<1>4. 0 \in V
  BY <1>2, <1>3 DEF Rounds
<1>5. ASSUME NEW i \in V
      PROVE  i + 1 \in V
  <2>1. SUFFICES ASSUME i + 1 <= L
                 PROVE  f[i + 1] = g[i + 1]
    OBVIOUS
  <2>2. i \in 0..(L - 1) /\ i \in 0..L /\ f[i] = g[i] /\ refs[i + 1] \in Names
    BY <1>1, <2>1
  <2>3. f[i] \in Outcomes /\ f[i].seen \in SUBSET Names
    BY <1>2, <2>2 DEF Rounds, Outcomes
  <2> DEFINE w == Callee(v, refs[i + 1], f[i].seen)
  <2>4. visit[w] = other[w]
    BY <2>2, <2>3, CalleeType DEF SameAt
  <2>5. /\ f[i + 1] = IF ~f[i].ok THEN f[i] ELSE visit[w]
        /\ g[i + 1] = IF ~g[i].ok THEN g[i] ELSE other[Callee(v, refs[i + 1], g[i].seen)]
    BY <1>2, <1>3, <2>2 DEF Rounds
  <2> QED
    BY <2>2, <2>4, <2>5
<1>6. V = Nat
  <2> HIDE DEF V
  <2>1. V \in SUBSET Nat
    BY DEF V
  <2> QED
    BY <1>4, <1>5, <2>1, SetInduction
<1> QED
  BY <1>1, <1>2, <1>3, <1>6

LEMMA VisitRefsType ==
    ASSUME NEW visit, NEW refs \in Seq(Names), NEW v \in Visits, TypedAt(visit, v.depth + 1)
    PROVE  VisitRefs(visit, refs, v) \in Outcomes
<1>1. PICK f : Rounds(visit, refs, v, f) /\ VisitRefs(visit, refs, v) = f[Len(refs)]
  BY VisitRefsRounds
<1> QED
  BY <1>1 DEF Rounds

LEMMA VisitType ==
    ASSUME NEW d \in Sessions, NEW visit, NEW v \in Visits,
           v.depth <= MaxDepth => TypedAt(visit, v.depth + 1)
    PROVE  Visit(d, visit, v) \in Outcomes
<1> DEFINE below == VisitRefs(visit, RefsIn(d, v.name), v)
<1>1. v.depth \in Nat /\ v.name \in Names /\ v.seen \in SUBSET Names /\ MaxDepth \in Nat
  BY SignalsAssumption DEF Visits
<1>2. CASE v.depth > MaxDepth \/ v.name \in v.path \/ v.name \in v.seen
  BY <1>1, <1>2 DEF Visit, Outcomes
<1>3. CASE ~(v.depth > MaxDepth \/ v.name \in v.path \/ v.name \in v.seen)
  <2>1. below \in Outcomes
    BY <1>1, <1>3, RefsType, VisitRefsType
  <2>2. Visit(d, visit, v) = [below EXCEPT !.seen = @ \cup {v.name}]
    BY <1>3 DEF Visit
  <2> HIDE DEF below
  <2>3. [below EXCEPT !.seen = @ \cup {v.name}] = [ok |-> below.ok, seen |-> below.seen \cup {v.name}]
    BY <2>1 DEF Outcomes
  <2> QED
    BY <1>1, <2>1, <2>2, <2>3 DEF Outcomes
<1> QED
  BY <1>2, <1>3

LEMMA VisitSame ==
    ASSUME NEW d \in Sessions, NEW visit, NEW other, NEW v \in Visits,
           v.depth <= MaxDepth =>
             TypedAt(visit, v.depth + 1) /\ SameAt(visit, other, v.depth + 1)
    PROVE  Visit(d, visit, v) = Visit(d, other, v)
<1>1. v.depth \in Nat /\ v.name \in Names /\ MaxDepth \in Nat
  BY SignalsAssumption DEF Visits
<1>2. CASE v.depth > MaxDepth
  BY <1>2 DEF Visit
<1>3. CASE v.depth <= MaxDepth
  <2>1. VisitRefs(visit, RefsIn(d, v.name), v) = VisitRefs(other, RefsIn(d, v.name), v)
    BY <1>1, <1>3, RefsType, VisitRefsSame
  <2> QED
    BY <2>1 DEF Visit
<1> QED
  BY <1>1, <1>2, <1>3

(* _visit is well defined: the depth bounds it.  Its definition can be     *)
(* applied step by step, first at the greatest depth.                      *)
LEMMA VisitExists ==
    ASSUME NEW d \in Sessions
    PROVE  \E f : f = [v \in Visits |-> Visit(d, f, v)]
<1> DEFINE S == [Visits -> Outcomes]
           b == [v \in Visits |-> [ok |-> FALSE, seen |-> v.seen]]
           G == [s \in Nat \X S |-> [v \in Visits |-> Visit(d, s[2], v)]]
<1>1. \A f \in S : \A depth : TypedAt(f, depth)
  BY DEF TypedAt
<1>2. \A f \in S : [v \in Visits |-> Visit(d, f, v)] \in S
  BY <1>1, VisitType
<1>3. b \in S
  BY DEF Visits, Outcomes
<1>4. G \in [Nat \X S -> S]
  <2> HIDE DEF S
  <2> QED
    BY <1>2
<1>5. PICK h : StepByStep(h, S, b, G)
  <2> HIDE DEF G, b, S
  <2> QED
    BY <1>3, <1>4, StepsExist
<1>6. h \in [Nat -> S] /\ h[0] = b
  BY <1>5 DEF StepByStep
<1>7. ASSUME NEW k \in Nat
      PROVE  h[k] \in S /\ h[k + 1] = [v \in Visits |-> Visit(d, h[k], v)]
  <2>1. h[k] \in S
    <3> HIDE DEF S
    <3> QED
      BY <1>6
  <2>2. h[k + 1] = G[<<k, h[k]>>]
    <3> HIDE DEF G, S, b
    <3> QED
      BY <1>5 DEF StepByStep
  <2>3. <<k, h[k]>> \in Nat \X S
    <3> HIDE DEF S
    <3> QED
      BY <2>1
  <2>4. G[<<k, h[k]>>] = [v \in Visits |-> Visit(d, h[k], v)]
    <3> HIDE DEF S
    <3> QED
      BY <2>3
  <2> HIDE DEF G
  <2> QED
    BY <2>1, <2>2, <2>4
<1>8. MaxDepth \in Nat
  BY SignalsAssumption
<1> DEFINE V == {k \in Nat : \A v \in Visits : v.depth + k > MaxDepth => h[k][v] = h[k + 1][v]}
<1> HIDE DEF G, S
<1>9. 0 \in V
  <2> SUFFICES ASSUME NEW v \in Visits, v.depth + 0 > MaxDepth
               PROVE  h[0][v] = h[0 + 1][v]
    OBVIOUS
  <2>1. h[0 + 1] = [w \in Visits |-> Visit(d, h[0], w)]
    BY <1>7
  <2>2. v.depth > MaxDepth
    BY <1>8 DEF Visits
  <2> QED
    BY <1>6, <2>1, <2>2 DEF Visit
<1>10. ASSUME NEW k \in V
       PROVE  k + 1 \in V
  <2> SUFFICES ASSUME NEW v \in Visits, v.depth + (k + 1) > MaxDepth
               PROVE  h[k + 1][v] = h[(k + 1) + 1][v]
    OBVIOUS
  <2>1. /\ k \in Nat /\ k + 1 \in Nat /\ v.depth \in Nat
        /\ \A w \in Visits : w.depth + k > MaxDepth => h[k][w] = h[k + 1][w]
    BY DEF Visits
  <2>2. h[k + 1][v] = Visit(d, h[k], v) /\ h[(k + 1) + 1][v] = Visit(d, h[k + 1], v)
    BY <1>7, <2>1
  <2>3. TypedAt(h[k], v.depth + 1)
    BY <1>1, <1>7, <2>1
  <2>4. SameAt(h[k], h[k + 1], v.depth + 1)
    <3> SUFFICES ASSUME NEW w \in Visits, w.depth = v.depth + 1
                 PROVE  h[k][w] = h[k + 1][w]
      BY DEF SameAt
    <3>1. w.depth + k > MaxDepth
      BY <1>8, <2>1
    <3> QED
      BY <2>1, <3>1
  <2>5. Visit(d, h[k], v) = Visit(d, h[k + 1], v)
    BY <2>3, <2>4, VisitSame
  <2> QED
    BY <2>2, <2>5
<1>11. V = Nat
  <2> HIDE DEF V
  <2>1. V \in SUBSET Nat
    BY DEF V
  <2> QED
    BY <1>9, <1>10, <2>1, SetInduction
<1> DEFINE D == MaxDepth + 1
<1>12. \A v \in Visits : h[D][v] = h[D + 1][v]
  <2>1. D \in Nat /\ \A v \in Visits : v.depth \in Nat /\ v.depth + D > MaxDepth
    BY <1>8 DEF Visits
  <2>2. D \in V
    BY <1>11, <2>1
  <2> HIDE DEF D
  <2> QED
    BY <2>1, <2>2
<1>13. D \in Nat
  BY <1>8
<1> HIDE DEF D
<1>14. h[D] \in S /\ h[D + 1] = [v \in Visits |-> Visit(d, h[D], v)]
  BY <1>7, <1>13
<1>15. h[D] = [v \in Visits |-> Visit(d, h[D], v)]
  BY <1>12, <1>14 DEF S
<1> QED
  BY <1>15

(* In every set of names there is one that refers to none of them.         *)
NoCyclesIn(d, S) == \A T \in SUBSET S : T # {} => \E t \in T : Range(RefsIn(d, t)) \cap T = {}
NoCycles(d) == NoCyclesIn(d, Names)

(* What has been visited: all that it refers to has been visited too, and  *)
(* there is no cycle.                                                      *)
Clear(d, seen) ==
    /\ \A n \in seen : Range(RefsIn(d, n)) \subseteq seen
    /\ NoCyclesIn(d, seen)

(* A call that succeeds has visited its name, and finds nothing on the     *)
(* path.                                                                   *)
Sound(d, v, r) ==
    r.ok /\ Clear(d, v.seen) /\ v.seen \cap v.path = {} =>
      Clear(d, r.seen) /\ v.seen \subseteq r.seen /\ v.name \in r.seen /\ r.seen \cap v.path = {}

SoundAt(d, visit, depth) == \A w \in Visits : w.depth = depth => Sound(d, w, visit[w])

(* A name whose references have all been visited, and that is not among    *)
(* them, closes no cycle.                                                  *)
LEMMA ClearNext ==
    ASSUME NEW d, NEW seen, Clear(d, seen), NEW n, n \notin seen, Range(RefsIn(d, n)) \subseteq seen
    PROVE  Clear(d, seen \cup {n})
<1>1. ASSUME NEW T \in SUBSET (seen \cup {n}), T # {}
      PROVE  \E t \in T : Range(RefsIn(d, t)) \cap T = {}
  <2>1. CASE T \cap seen = {}
    <3>1. T = {n}
      BY <1>1, <2>1
    <3> QED
      BY <3>1
  <2>2. CASE T \cap seen # {}
    <3>1. PICK t \in T \cap seen : Range(RefsIn(d, t)) \cap (T \cap seen) = {}
      BY <2>2 DEF Clear, NoCyclesIn
    <3>2. Range(RefsIn(d, t)) \subseteq seen
      BY DEF Clear
    <3> QED
      BY <3>1, <3>2
  <2> QED
    BY <2>1, <2>2
<1>2. \A m \in seen \cup {n} : Range(RefsIn(d, m)) \subseteq seen \cup {n}
  BY DEF Clear
<1> QED
  BY <1>1, <1>2 DEF Clear, NoCyclesIn

LEMMA VisitRefsSound ==
    ASSUME NEW d, NEW visit, NEW refs \in Seq(Names), NEW v \in Visits,
           TypedAt(visit, v.depth + 1), SoundAt(d, visit, v.depth + 1),
           VisitRefs(visit, refs, v).ok, Clear(d, v.seen), v.seen \cap (v.path \cup {v.name}) = {}
    PROVE  LET seen == VisitRefs(visit, refs, v).seen
           IN /\ Clear(d, seen) /\ v.seen \subseteq seen /\ Range(refs) \subseteq seen
              /\ seen \cap (v.path \cup {v.name}) = {}
<1> DEFINE L == Len(refs)
           path == v.path \cup {v.name}
<1>1. PICK f : Rounds(visit, refs, v, f) /\ VisitRefs(visit, refs, v) = f[L]
  BY VisitRefsRounds
<1>2. L \in Nat /\ f \in [0..L -> Outcomes] /\ f[0] = [ok |-> TRUE, seen |-> v.seen]
  BY <1>1 DEF Rounds
<1> DEFINE Good(i) == f[i].ok =>
             /\ Clear(d, f[i].seen) /\ v.seen \subseteq f[i].seen
             /\ \A j \in 1..i : refs[j] \in f[i].seen
             /\ f[i].seen \cap path = {}
           V == {i \in Nat : i <= L => Good(i)}
<1>3. 0 \in V
  BY <1>2
<1>4. ASSUME NEW i \in V
      PROVE  i + 1 \in V
  <2>1. SUFFICES ASSUME i + 1 <= L, f[i + 1].ok
                 PROVE  Good(i + 1)
    OBVIOUS
  <2>2. i \in Nat /\ i \in 0..(L - 1) /\ i \in 0..L /\ refs[i + 1] \in Names /\ Good(i)
    BY <1>2, <2>1
  <2>3. f[i] \in Outcomes /\ f[i].seen \in SUBSET Names
    BY <1>2, <2>2 DEF Outcomes
  <2> DEFINE w == Callee(v, refs[i + 1], f[i].seen)
  <2>4. f[i + 1] = IF ~f[i].ok THEN f[i] ELSE visit[w]
    BY <1>1, <2>2 DEF Rounds
  <2>5. f[i].ok /\ f[i + 1] = visit[w]
    BY <2>1, <2>4
  <2>6. /\ w \in Visits /\ w.depth = v.depth + 1 /\ w.name = refs[i + 1]
        /\ w.seen = f[i].seen /\ w.path = path
    BY <2>2, <2>3, CalleeType
  <2> HIDE DEF w
  <2>7. Sound(d, w, f[i + 1])
    BY <2>5, <2>6 DEF SoundAt
  <2>8. /\ Clear(d, f[i + 1].seen) /\ f[i].seen \subseteq f[i + 1].seen
        /\ refs[i + 1] \in f[i + 1].seen /\ f[i + 1].seen \cap path = {}
    BY <2>1, <2>2, <2>5, <2>6, <2>7 DEF Sound
  <2>9. \A j \in 1..(i + 1) : refs[j] \in f[i + 1].seen
    <3> TAKE j \in 1..(i + 1)
    <3>1. j = i + 1 \/ j \in 1..i
      BY <2>2
    <3> QED
      BY <2>2, <2>5, <2>8, <3>1
  <2> QED
    BY <2>2, <2>5, <2>8, <2>9
<1>5. V = Nat
  <2> HIDE DEF V
  <2>1. V \in SUBSET Nat
    BY DEF V
  <2> QED
    BY <1>3, <1>4, <2>1, SetInduction
<1>6. Good(L)
  BY <1>2, <1>5
<1>7. Range(refs) \subseteq f[L].seen
  BY <1>1, <1>6 DEF Range
<1> QED
  BY <1>1, <1>6, <1>7

LEMMA VisitSound ==
    ASSUME NEW d \in Sessions, NEW visit, NEW v \in Visits,
           v.depth <= MaxDepth => TypedAt(visit, v.depth + 1) /\ SoundAt(d, visit, v.depth + 1)
    PROVE  Sound(d, v, Visit(d, visit, v))
<1> DEFINE r == Visit(d, visit, v)
           below == VisitRefs(visit, RefsIn(d, v.name), v)
<1>1. SUFFICES ASSUME r.ok, Clear(d, v.seen), v.seen \cap v.path = {}
               PROVE  /\ Clear(d, r.seen) /\ v.seen \subseteq r.seen
                      /\ v.name \in r.seen /\ r.seen \cap v.path = {}
  BY DEF Sound
<1>2. v.depth \in Nat /\ v.name \in Names /\ MaxDepth \in Nat
  BY SignalsAssumption DEF Visits
<1>3. ~(v.depth > MaxDepth) /\ v.name \notin v.path
  BY <1>1 DEF Visit
<1>4. CASE v.name \in v.seen
  <2>1. r = [ok |-> TRUE, seen |-> v.seen]
    BY <1>3, <1>4 DEF Visit
  <2> QED
    BY <1>1, <1>4, <2>1
<1>5. CASE v.name \notin v.seen
  <2>1. r = [below EXCEPT !.seen = @ \cup {v.name}]
    BY <1>3, <1>5 DEF Visit
  <2>2. RefsIn(d, v.name) \in Seq(Names) /\ TypedAt(visit, v.depth + 1)
        /\ SoundAt(d, visit, v.depth + 1)
    BY <1>2, <1>3, RefsType
  <2>3. below \in Outcomes
    BY <2>2, VisitRefsType
  <2> HIDE DEF below, r
  <2>4. r.ok = below.ok /\ r.seen = below.seen \cup {v.name}
    BY <2>1, <2>3 DEF Outcomes
  <2>5. v.seen \cap (v.path \cup {v.name}) = {}
    BY <1>1, <1>5
  <2>6. /\ Clear(d, below.seen) /\ v.seen \subseteq below.seen
        /\ Range(RefsIn(d, v.name)) \subseteq below.seen
        /\ below.seen \cap (v.path \cup {v.name}) = {}
    BY <1>1, <2>2, <2>4, <2>5, VisitRefsSound DEF below
  <2>7. Clear(d, r.seen)
    BY <2>4, <2>6, ClearNext
  <2> QED
    BY <1>3, <2>4, <2>6, <2>7
<1> QED
  BY <1>4, <1>5

(* _topological_sort succeeds only when the signal is among names that     *)
(* refer to no others, and without cycles.                                 *)
THEOREM SortedClear ==
    ASSUME NEW d \in Sessions, NEW start \in Names, Sorted(d, start)
    PROVE  \E S \in SUBSET Names : start \in S /\ Clear(d, S)
<1> DEFINE Is(f) == f = [v \in Visits |-> Visit(d, f, v)]
           visit == CHOOSE f : Is(f)
           first == [name |-> start, depth |-> 0, path |-> {}, seen |-> {}]
<1>1. Is(visit)
  BY VisitExists
<1>2. visit[first].ok
  BY DEF Sorted
<1>3. first \in Visits /\ MaxDepth \in Nat
  BY SignalsAssumption DEF Visits
<1> HIDE DEF visit
<1> DEFINE Below(k) == \A v \in Visits :
             v.depth + k > MaxDepth => visit[v] \in Outcomes /\ Sound(d, v, visit[v])
           V == {k \in Nat : Below(k)}
<1>4. ASSUME NEW v \in Visits,
             v.depth <= MaxDepth => TypedAt(visit, v.depth + 1) /\ SoundAt(d, visit, v.depth + 1)
      PROVE  visit[v] \in Outcomes /\ Sound(d, v, visit[v])
  <2>1. visit[v] = Visit(d, visit, v)
    BY <1>1
  <2> QED
    BY <1>4, <2>1, VisitType, VisitSound
<1>5. 0 \in V
  <2>1. SUFFICES ASSUME NEW v \in Visits, v.depth + 0 > MaxDepth
                 PROVE  visit[v] \in Outcomes /\ Sound(d, v, visit[v])
    OBVIOUS
  <2>2. ~(v.depth <= MaxDepth)
    BY <1>3, <2>1 DEF Visits
  <2> QED
    BY <1>4, <2>2
<1>6. ASSUME NEW k \in V
      PROVE  k + 1 \in V
  <2>1. SUFFICES ASSUME NEW v \in Visits, v.depth + (k + 1) > MaxDepth
                 PROVE  visit[v] \in Outcomes /\ Sound(d, v, visit[v])
    OBVIOUS
  <2>2. v.depth \in Nat /\ k \in Nat /\ Below(k)
    BY DEF Visits
  <2>3. ASSUME NEW w \in Visits, w.depth = v.depth + 1
        PROVE  visit[w] \in Outcomes /\ Sound(d, w, visit[w])
    <3>1. w.depth + k > MaxDepth
      BY <1>3, <2>1, <2>2, <2>3
    <3> QED
      BY <2>2, <3>1
  <2>4. TypedAt(visit, v.depth + 1) /\ SoundAt(d, visit, v.depth + 1)
    BY <2>3 DEF TypedAt, SoundAt
  <2> QED
    BY <1>4, <2>4
<1>7. V = Nat
  <2> HIDE DEF V
  <2>1. V \in SUBSET Nat
    BY DEF V
  <2> QED
    BY <1>5, <1>6, <2>1, SetInduction
<1>8. visit[first] \in Outcomes /\ Sound(d, first, visit[first])
  <2>1. MaxDepth + 1 \in V
    <3>1. MaxDepth + 1 \in Nat
      BY SignalsAssumption
    <3> HIDE DEF V
    <3> QED
      BY <1>7, <3>1
  <2>2. first.depth + (MaxDepth + 1) > MaxDepth
    BY <1>3
  <2> HIDE DEF first
  <2> QED
    BY <1>3, <2>1, <2>2
<1>9. Clear(d, first.seen) /\ first.seen \cap first.path = {} /\ first.name = start
  BY DEF Clear, NoCyclesIn
<1> HIDE DEF first
<1>10. Clear(d, visit[first].seen) /\ start \in visit[first].seen
  BY <1>2, <1>8, <1>9 DEF Sound
<1> QED
  BY <1>8, <1>10 DEF Outcomes

(* An edit that leaves alone all definitions but those in front of which   *)
(* the names are sorted makes no cycle.                                    *)
LEMMA EditNoCycles ==
    ASSUME NEW d, NoCycles(d), NEW new, NEW changed \in SUBSET Names,
           \A n \in Names \ changed : new[n] = d[n],
           \A n \in changed : \E S \in SUBSET Names : n \in S /\ Clear(new, S)
    PROVE  NoCycles(new)
<1> SUFFICES ASSUME NEW T \in SUBSET Names, T # {}
             PROVE  \E t \in T : Range(RefsIn(new, t)) \cap T = {}
  BY DEF NoCycles, NoCyclesIn
<1>1. CASE T \cap changed # {}
  <2>1. PICK n \in T \cap changed : TRUE
    BY <1>1
  <2>2. PICK S \in SUBSET Names : n \in S /\ Clear(new, S)
    OBVIOUS
  <2>3. T \cap S \in SUBSET S /\ T \cap S # {}
    BY <2>2
  <2>4. PICK t \in T \cap S : Range(RefsIn(new, t)) \cap (T \cap S) = {}
    BY <2>2, <2>3 DEF Clear, NoCyclesIn
  <2>5. Range(RefsIn(new, t)) \subseteq S
    BY <2>2 DEF Clear
  <2> QED
    BY <2>4, <2>5
<1>2. CASE T \cap changed = {}
  <2>1. PICK t \in T : Range(RefsIn(d, t)) \cap T = {}
    BY DEF NoCycles, NoCyclesIn
  <2>2. RefsIn(new, t) = RefsIn(d, t)
    BY <1>2 DEF RefsIn
  <2> QED
    BY <2>1, <2>2
<1> QED
  BY <1>1, <1>2

(* Without cycles no signal depends on itself, at whatever distance.       *)
LEMMA NoCyclesAcyclic ==
    ASSUME NEW d, NoCycles(d), NEW n \in Names, NEW m \in WithDependents(d, n)
    PROVE  ~DependsOn(d, n, m)
<1> SUFFICES ASSUME DependsOn(d, n, m)
             PROVE  FALSE
  OBVIOUS
<1> DEFINE R == WithDependents(d, n)
           T == {k \in R : k = n \/ \E j \in R : DependsOn(d, k, j)}
<1>1. /\ n \in R /\ R \subseteq Names
      /\ \A k \in R : \A j \in Names : DependsOn(d, j, k) => j \in R
  BY DependentsFound
<1> HIDE DEF R
<1>2. R \subseteq T
  <2>1. n \in T /\ \A k \in T : \A j \in Names : DependsOn(d, j, k) => j \in T
    BY <1>1
  <2> HIDE DEF T
  <2> QED
    BY <2>1, DependentsOnly DEF R
<1>3. \A k \in R : \E j \in R : DependsOn(d, k, j)
  BY <1>2 DEF R
<1>4. PICK t \in R : Range(RefsIn(d, t)) \cap R = {}
  BY <1>1 DEF NoCycles, NoCyclesIn
<1> QED
  BY <1>3, <1>4 DEF DependsOn

---------------------------------------------------------------------------
(* The agents, the file and the caches.                                    *)

FrameOK(f, d) == d[f.name] # None /\ <<f.name, d[f.name].expr>> \in f.got
StackOK(s, d) == s # <<>> /\ \A i \in 1..Len(s) : FrameOK(s[i], d)

(* Where a call is at each step, and what each of its evaluations has      *)
(* established: its signal is defined, and its expression is in the value. *)
Flow(a) ==
    /\ pc[a] # "idle" => req[a] \in Requests
    /\ pc[a] \in {"lock", "check", "save"} => req[a].op \in {"create", "update", "delete"}
    /\ pc[a] \in {"read", "eval"} => req[a].op \in {"eval", "value"}
    /\ pc[a] = "eval" => StackOK(stack[a], snap[a])

(* An agent edits exactly while it holds the lock.                         *)
Holds(a) == pc[a] \in {"check", "save"} <=> holder = a

(* What is used stays: no definition in new refers to one that is lost.    *)
KeepsUsed(d, new) ==
    \A n \in Names : d[n] # None /\ new[n] = None => \A m \in Names : ~DependsOn(new, m, n)

(* An edit is made from the definitions that the file holds.               *)
Current(a) ==
    /\ pc[a] \in {"check", "save"} => snap[a] = defs
    /\ pc[a] = "save" => KeepsUsed(defs, copy[a])

(* A cached value was computed from the expression in its key.             *)
CacheOwn == \A s \in Servers : \A e \in cache[s] : <<e.name, e.expr>> \in e.value

Mine(a) == Flow(a) /\ Holds(a) /\ Current(a)

IInv == TypeOK /\ CacheOwn /\ AnswersOwnExpression /\ \A a \in Agents : Mine(a)

-----------------------------------------------------------------------------
(* The cache                                                               *)

(* A non-empty finite cache has an oldest entry.                           *)
LEMMA OldestIn ==
    ASSUME NEW c \in SUBSET CacheEntries, IsFiniteSet(c), c # {}
    PROVE  Oldest(c) \in c
<1> DEFINE Beyond(e) == {o \in c : o.age > e.age}
           T == {Beyond(e) : e \in c}
           R == StrictSubsetOrdering(c)
<1>1. IsWellFoundedOn(R, SUBSET c)
  BY FS_StrictSubsetOrderingWellFounded, FS_FiniteSubsetsOfFinite
<1>2. T \subseteq SUBSET c /\ T # {}
  OBVIOUS
<1>3. PICK x \in T : \A y \in T : <<y, x>> \notin R
  <2> HIDE DEF T, R
  <2> QED
    BY <1>1, <1>2, WFMin
<1>4. PICK e \in c : x = Beyond(e)
  BY <1>3
<1>5. ASSUME NEW o \in c, o.age > e.age
      PROVE  FALSE
  <2>1. \A z \in c : z.age \in Nat
    BY DEF CacheEntries
  <2>2. Beyond(o) \subseteq Beyond(e) /\ Beyond(o) # Beyond(e)
    BY <1>5, <2>1
  <2>3. <<Beyond(o), x>> \in R
    BY <1>4, <2>2 DEF StrictSubsetOrdering
  <2> QED
    BY <1>3, <2>3
<1>6. \A o \in c : o.age <= e.age
  BY <1>5 DEF CacheEntries
<1> QED
  BY <1>6 DEF Oldest

(* The cache has room for one entry after MakeRoom.                        *)
LEMMA RoomMade ==
    ASSUME NEW c \in SUBSET CacheEntries, IsFiniteSet(c), Cardinality(c) <= MaxCache
    PROVE  /\ MakeRoom(c) \subseteq c /\ IsFiniteSet(MakeRoom(c))
           /\ Cardinality(MakeRoom(c)) \in Nat /\ Cardinality(MakeRoom(c)) < MaxCache
<1>1. Cardinality(c) \in Nat /\ MaxCache \in Nat \ {0}
  BY FS_CardinalityType, SignalsAssumption
<1>2. CASE Cardinality(c) >= MaxCache
  <2>1. c # {}
    BY <1>1, <1>2, FS_EmptySet
  <2>2. IsFiniteSet(c \ {Oldest(c)}) /\ Cardinality(c \ {Oldest(c)}) = Cardinality(c) - 1
    BY <2>1, OldestIn, FS_RemoveElement
  <2> QED
    BY <1>1, <1>2, <2>2 DEF MakeRoom
<1>3. CASE ~(Cardinality(c) >= MaxCache)
  BY <1>1, <1>3 DEF MakeRoom
<1> QED
  BY <1>2, <1>3

LEMMA EntryChanged ==
    ASSUME NEW e \in CacheEntries, NEW v \in Values
    PROVE  /\ [e EXCEPT !.value = v] \in CacheEntries
           /\ [e EXCEPT !.value = v].name = e.name /\ [e EXCEPT !.value = v].expr = e.expr
           /\ [e EXCEPT !.value = v].value = v
           /\ Older(e) \in CacheEntries
           /\ Older(e).name = e.name /\ Older(e).expr = e.expr /\ Older(e).value = e.value
<1>1. /\ e = [name |-> e.name, expr |-> e.expr, value |-> e.value, age |-> e.age]
      /\ e.name \in Names /\ e.expr \in Exprs /\ e.value \in Values /\ e.age \in Nat
  BY DEF CacheEntries
<1>2. [e EXCEPT !.value = v] = [name |-> e.name, expr |-> e.expr, value |-> v, age |-> e.age]
  BY <1>1
<1>3. Older(e) = [name |-> e.name, expr |-> e.expr, value |-> e.value, age |-> e.age + 1]
  BY <1>1 DEF Older
<1>4. e.age + 1 \in Nat
  BY <1>1
<1> QED
  BY <1>1, <1>2, <1>3, <1>4 DEF CacheEntries

LEMMA OneMore ==
    ASSUME NEW S, IsFiniteSet(S), NEW x
    PROVE  /\ IsFiniteSet(S \cup {x})
           /\ Cardinality(S \cup {x}) <= Cardinality(S) + 1
           /\ Cardinality(S) \in Nat /\ Cardinality(S \cup {x}) \in Nat
<1>1. IsFiniteSet(S \cup {x})
  BY FS_AddElement
<1>2. Cardinality(S) \in Nat /\ Cardinality(S \cup {x}) \in Nat
  BY <1>1, FS_CardinalityType
<1>3. Cardinality(S \cup {x}) = IF x \in S THEN Cardinality(S) ELSE Cardinality(S) + 1
  BY FS_AddElement
<1> QED
  BY <1>1, <1>2, <1>3

(* A changed or merged entry: replacing some elements of a set by no more  *)
(* others does not make it larger.                                         *)
LEMMA Replaced ==
    ASSUME NEW S, IsFiniteSet(S), NEW T \in SUBSET S,
           NEW U, IsFiniteSet(U), Cardinality(U) <= Cardinality(T)
    PROVE  IsFiniteSet((S \ T) \cup U) /\ Cardinality((S \ T) \cup U) <= Cardinality(S)
<1>1. IsFiniteSet(T) /\ Cardinality(T) \in Nat /\ Cardinality(S) \in Nat /\ Cardinality(U) \in Nat
  BY FS_Subset, FS_CardinalityType
<1>2. S \cap T = T
  OBVIOUS
<1>3. IsFiniteSet(S \ T) /\ Cardinality(S \ T) = Cardinality(S) - Cardinality(T)
  BY <1>2, FS_Difference
<1>4. /\ IsFiniteSet((S \ T) \cup U)
      /\ Cardinality((S \ T) \cup U)
           = Cardinality(S \ T) + Cardinality(U) - Cardinality((S \ T) \cap U)
  BY <1>3, FS_Union
<1>5. Cardinality((S \ T) \cap U) \in Nat
  BY <1>3, FS_Intersection, FS_CardinalityType
<1> QED
  BY <1>1, <1>3, <1>4, <1>5

(* What is put is in the cache, which stays within its bound.              *)
LEMMA PutType ==
    ASSUME NEW c \in SUBSET CacheEntries, IsFiniteSet(c), Cardinality(c) <= MaxCache,
           NEW n \in Names, NEW x \in Exprs, NEW v \in Values, <<n, x>> \in v,
           \A e \in c : <<e.name, e.expr>> \in e.value
    PROVE  /\ Put(c, n, x, v) \in SUBSET CacheEntries
           /\ IsFiniteSet(Put(c, n, x, v)) /\ Cardinality(Put(c, n, x, v)) <= MaxCache
           /\ \A e \in Put(c, n, x, v) : <<e.name, e.expr>> \in e.value
<1> DEFINE room == MakeRoom(c)
           same == {e \in room : e.name = n /\ e.expr = x}
           new == [name |-> n, expr |-> x, value |-> v, age |-> 0]
<1>1. /\ room \in SUBSET CacheEntries /\ IsFiniteSet(room)
      /\ Cardinality(room) \in Nat /\ Cardinality(room) < MaxCache
      /\ \A e \in room : <<e.name, e.expr>> \in e.value
  BY RoomMade
<1>2. MaxCache \in Nat
  BY SignalsAssumption
<1>3. new \in CacheEntries /\ <<new.name, new.expr>> \in new.value
  BY DEF CacheEntries
<1> HIDE DEF room
<1>4. CASE same = {}
  <2> DEFINE aged == {Older(e) : e \in room}
             f == [e \in room |-> Older(e)]
  <2>1. f \in Surjection(room, aged)
    BY DEF Surjection
  <2>2. IsFiniteSet(aged) /\ Cardinality(aged) <= Cardinality(room)
    <3> HIDE DEF f, aged
    <3> QED
      BY <1>1, <2>1, FS_Surjection
  <2>3. /\ IsFiniteSet(aged \cup {new})
        /\ Cardinality(aged \cup {new}) <= Cardinality(aged) + 1
        /\ Cardinality(aged) \in Nat /\ Cardinality(aged \cup {new}) \in Nat
    BY <2>2, OneMore
  <2>4. \A e \in room : Older(e) \in CacheEntries /\ <<Older(e).name, Older(e).expr>> \in Older(e).value
    BY <1>1, EntryChanged
  <2>5. Put(c, n, x, v) = aged \cup {new}
    BY <1>4 DEF Put, room
  <2>6. \A e \in aged \cup {new} : e \in CacheEntries /\ <<e.name, e.expr>> \in e.value
    BY <1>3, <2>4
  <2>7. Cardinality(aged \cup {new}) <= MaxCache
    <3> HIDE DEF aged, new
    <3> QED
      BY <1>1, <1>2, <2>2, <2>3
  <2> QED
    <3> HIDE DEF aged, new
    <3> QED
      BY <2>3, <2>5, <2>6, <2>7
<1>5. CASE same # {}
  <2> DEFINE changed == {[e EXCEPT !.value = v] : e \in same}
             f == [e \in same |-> [e EXCEPT !.value = v]]
  <2>1. f \in Surjection(same, changed)
    BY DEF Surjection
  <2>2. IsFiniteSet(same) /\ same \subseteq room
    BY <1>1, FS_Subset
  <2>3. IsFiniteSet(changed) /\ Cardinality(changed) <= Cardinality(same)
    <3> HIDE DEF f, changed, same
    <3> QED
      BY <2>1, <2>2, FS_Surjection
  <2>4. /\ IsFiniteSet((room \ same) \cup changed)
        /\ Cardinality((room \ same) \cup changed) <= Cardinality(room)
    <3> HIDE DEF changed, same
    <3> QED
      BY <1>1, <2>2, <2>3, Replaced
  <2>5. \A e \in same : /\ [e EXCEPT !.value = v] \in CacheEntries
                        /\ [e EXCEPT !.value = v].name = n /\ [e EXCEPT !.value = v].expr = x
                        /\ [e EXCEPT !.value = v].value = v
    BY <1>1, EntryChanged
  <2>6. Put(c, n, x, v) = (room \ same) \cup changed
    BY <1>5 DEF Put, room
  <2>7. Cardinality((room \ same) \cup changed) \in Nat
    BY <2>4, FS_CardinalityType
  <2>8. \A e \in (room \ same) \cup changed :
          e \in CacheEntries /\ <<e.name, e.expr>> \in e.value
    <3>1. \A e \in changed : e \in CacheEntries /\ <<e.name, e.expr>> \in e.value
      <4>1. SUFFICES ASSUME NEW o \in same
                     PROVE  /\ [o EXCEPT !.value = v] \in CacheEntries
                            /\ <<[o EXCEPT !.value = v].name, [o EXCEPT !.value = v].expr>>
                                 \in [o EXCEPT !.value = v].value
        OBVIOUS
      <4> QED
        BY <2>5
    <3> HIDE DEF changed, same
    <3> QED
      BY <1>1, <3>1
  <2> DEFINE all == (room \ same) \cup changed
  <2>9. all \in SUBSET CacheEntries /\ IsFiniteSet(all) /\ Cardinality(all) <= MaxCache
    <3> HIDE DEF changed, same
    <3>1. Cardinality(all) <= MaxCache
      BY <1>1, <1>2, <2>4, <2>7
    <3>2. all \in SUBSET CacheEntries
      BY <2>8
    <3> QED
      BY <2>4, <3>1, <3>2
  <2> HIDE DEF all
  <2> QED
    BY <2>6, <2>8, <2>9 DEF all
<1> QED
  BY <1>4, <1>5

-----------------------------------------------------------------------------
(* Definitions                                                             *)

LEMMA RequestType ==
    ASSUME NEW q \in Requests
    PROVE  /\ q # None /\ q.op \in {"create", "update", "delete", "eval", "value"}
           /\ q.op = "create" => q \in Creates
           /\ q.op = "update" => q \in Updates
           /\ q.op \in {"update", "delete", "eval", "value"} => q.name \in Names
BY VirtualRequestsAssumption DEF Creates, Updates, Deletes, Evals

LEMMA NoDefinitionsType == NoDefinitions \in Sessions
BY DEF NoDefinitions, Sessions

LEMMA DefinitionType ==
    ASSUME NEW d \in Sessions, NEW n \in Names, d[n] # None
    PROVE  d[n] \in Definitions /\ d[n].expr \in Exprs /\ Refs(d[n].expr) \in Seq(Names)
BY SignalsAssumption DEF Sessions, Definitions

LEMMA InferType ==
    ASSUME NEW e \in Exprs, NEW d, NEW failed
    PROVE  [expr |-> e, width |-> Infer(e, d, failed)] \in Definitions
<1> DEFINE w == WidthsIn(d, failed)
           operands == [m \in Range(Refs(e)) |-> w[m]]
<1>1. Infer(e, d, failed) = IF \A m \in DOMAIN operands : operands[m] \in Widths
                            THEN Width(e, operands) ELSE None
  BY DEF Infer, Sized
<1>2. ASSUME \A m \in DOMAIN operands : operands[m] \in Widths
      PROVE  operands \in [Range(Refs(e)) -> Widths]
  BY <1>2
<1> HIDE DEF operands
<1>3. Infer(e, d, failed) \in Widths \cup {0, None}
  BY <1>1, <1>2, SignalsAssumption
<1> QED
  BY <1>3 DEF Definitions

(* What the edits stage is a session, and keeps what is used.              *)
LEMMA CreateKeeps ==
    ASSUME NEW q \in Requests, q.op = "create", NEW d \in Sessions, NEW failed,
           CanCreate(NewDefinitions(q.new, d, failed), d)
    PROVE  LET new == WithNew(d, NewDefinitions(q.new, d, failed))
           IN new \in Sessions /\ KeepsUsed(d, new)
<1> DEFINE made == NewDefinitions(q.new, d, failed)
           new == WithNew(d, made)
<1>1. PICK S \in SUBSET Names : q.new \in [S -> Exprs]
  BY RequestType DEF Creates
<1>2. DOMAIN made = S /\ \A n \in S : made[n] = [expr |-> q.new[n], width |-> Infer(q.new[n], d, failed)]
  BY <1>1 DEF NewDefinitions
<1>3. \A n \in S : made[n] \in Definitions
  <2>1. TAKE n \in S
  <2>2. q.new[n] \in Exprs
    BY <1>1
  <2>3. [expr |-> q.new[n], width |-> Infer(q.new[n], d, failed)] \in Definitions
    BY <2>2, InferType
  <2> QED
    BY <1>2, <2>3
<1>4. \A n \in S : d[n] = None
  BY <1>2 DEF CanCreate
<1> HIDE DEF made
<1>5. new \in [Names -> Definitions \cup {None}]
      /\ \A n \in Names : new[n] = IF n \in S THEN made[n] ELSE d[n]
  BY <1>2, <1>3 DEF WithNew, Sessions
<1>6. \A n \in Names : d[n] # None => new[n] # None
  BY <1>4, <1>5
<1> QED
  BY <1>5, <1>6 DEF made, KeepsUsed, Sessions

LEMMA UpdateKeeps ==
    ASSUME NEW n \in Names, NEW e \in Exprs, NEW d \in Sessions, NEW failed
    PROVE  LET new == [d EXCEPT ![n] = [expr |-> e, width |-> Infer(e, d, failed)]]
           IN new \in Sessions /\ KeepsUsed(d, new)
<1> DEFINE x == [expr |-> e, width |-> Infer(e, d, failed)]
           new == [d EXCEPT ![n] = x]
<1>1. x \in Definitions /\ x # None
  BY InferType, SignalsAssumption
<1> HIDE DEF x
<1>2. new \in Sessions /\ \A m \in Names : d[m] # None => new[m] # None
  BY <1>1 DEF Sessions
<1> QED
  BY <1>2 DEF x, KeepsUsed

LEMMA DeleteKeeps ==
    ASSUME NEW q, q.name \in Names, NEW d \in Sessions, CanDelete(q, d)
    PROVE  LET new == [d EXCEPT ![q.name] = None]
           IN new \in Sessions /\ KeepsUsed(d, new)
<1> DEFINE new == [d EXCEPT ![q.name] = None]
<1>1. new \in Sessions /\ new[q.name] = None
      /\ \A m \in Names \ {q.name} : new[m] = d[m]
  BY DEF Sessions
<1>2. \A m \in Names \ {q.name} : ~DependsOn(new, m, q.name)
  BY <1>1 DEF CanDelete, DependsOn, RefsIn
<1>3. ~DependsOn(new, q.name, q.name)
  BY <1>1 DEF DependsOn, RefsIn, Range
<1> QED
  BY <1>1, <1>2, <1>3 DEF KeepsUsed

-----------------------------------------------------------------------------
(* Stacks of evaluations                                                   *)

LEMMA FrameChanged ==
    ASSUME NEW s \in Seq(Frames), NEW d, StackOK(s, d), NEW i \in 1..Len(s),
           NEW f \in Frames, f.name = s[i].name, s[i].got \subseteq f.got
    PROVE  [s EXCEPT ![i] = f] \in Seq(Frames) /\ StackOK([s EXCEPT ![i] = f], d)
<1>1. /\ [s EXCEPT ![i] = f] \in Seq(Frames) /\ Len([s EXCEPT ![i] = f]) = Len(s)
      /\ \A j \in 1..Len(s) : [s EXCEPT ![i] = f][j] = IF j = i THEN f ELSE s[j]
  OBVIOUS
<1>2. FrameOK(f, d)
  BY DEF StackOK, FrameOK
<1>3. [s EXCEPT ![i] = f] # <<>>
  BY <1>1
<1> QED
  BY <1>1, <1>2, <1>3 DEF StackOK

LEMMA GotOK ==
    ASSUME NEW s \in Seq(Frames), NEW d, StackOK(s, d), NEW v \in Values
    PROVE  Got(s, v) \in Seq(Frames) /\ StackOK(Got(s, v), d)
<1> DEFINE f == [s[Len(s)] EXCEPT !.got = @ \cup v]
<1>1. Len(s) \in 1..Len(s) /\ s[Len(s)] \in Frames
  BY DEF StackOK
<1>2. s[Len(s)].got \cup v \in Values
  BY <1>1 DEF Frames, Values
<1>3. f \in Frames /\ f.name = s[Len(s)].name /\ s[Len(s)].got \subseteq f.got
  BY <1>1, <1>2 DEF Frames
<1>4. Got(s, v) = [s EXCEPT ![Len(s)] = f]
  BY DEF Got
<1> HIDE DEF f
<1>5. [s EXCEPT ![Len(s)] = f] \in Seq(Frames) /\ StackOK([s EXCEPT ![Len(s)] = f], d)
  BY <1>1, <1>3, FrameChanged
<1> QED
  BY <1>4, <1>5

LEMMA TakenOK ==
    ASSUME NEW s \in Seq(Frames), NEW d, StackOK(s, d), s[Len(s)].todo # <<>>
    PROVE  /\ Taken(s) \in Seq(Frames) /\ StackOK(Taken(s), d)
           /\ Head(s[Len(s)].todo) \in Names
<1> DEFINE f == [s[Len(s)] EXCEPT !.todo = Tail(@)]
<1>1. Len(s) \in 1..Len(s) /\ s[Len(s)] \in Frames
  BY DEF StackOK
<1>2. Head(s[Len(s)].todo) \in Names /\ Tail(s[Len(s)].todo) \in Seq(Names)
  BY <1>1 DEF Frames
<1>3. f \in Frames /\ f.name = s[Len(s)].name /\ s[Len(s)].got \subseteq f.got
  BY <1>1, <1>2 DEF Frames
<1>4. Taken(s) = [s EXCEPT ![Len(s)] = f]
  BY DEF Taken
<1> HIDE DEF f
<1>5. [s EXCEPT ![Len(s)] = f] \in Seq(Frames) /\ StackOK([s EXCEPT ![Len(s)] = f], d)
  BY <1>1, <1>3, FrameChanged
<1> QED
  BY <1>2, <1>4, <1>5

LEMMA FramePushed ==
    ASSUME NEW s \in Seq(Frames), NEW d, StackOK(s, d), NEW f \in Frames, FrameOK(f, d)
    PROVE  Append(s, f) \in Seq(Frames) /\ StackOK(Append(s, f), d)
BY DEF StackOK

LEMMA LastFrame ==
    ASSUME NEW s \in Seq(Frames), NEW d, StackOK(s, d)
    PROVE  /\ Len(s) \in 1..Len(s) /\ Last(s) = s[Len(s)]
           /\ Last(s) \in Frames /\ FrameOK(Last(s), d)
BY DEF StackOK, Last

LEMMA FramePopped ==
    ASSUME NEW s \in Seq(Frames), NEW d, StackOK(s, d), Len(s) # 1
    PROVE  /\ Front(s) \in Seq(Frames) /\ StackOK(Front(s), d)
           /\ Len(Front(s)) = Len(s) - 1 /\ Len(s) - 1 \in 1..Len(Front(s))
<1>1. Len(s) \in Nat /\ Len(s) > 1
  BY LastFrame
<1>2. /\ Front(s) \in Seq(Frames) /\ Len(Front(s)) = Len(s) - 1
      /\ \A i \in 1..(Len(s) - 1) : Front(s)[i] = s[i]
  BY <1>1 DEF Front
<1> QED
  BY <1>1, <1>2 DEF StackOK

(* A new evaluation has established what it must.                          *)
LEMMA FrameNew ==
    ASSUME NEW n \in Names, NEW d \in Sessions, d[n] # None
    PROVE  Frame(n, d) \in Frames /\ FrameOK(Frame(n, d), d)
<1>1. d[n].expr \in Exprs /\ Refs(d[n].expr) \in Seq(Names)
  BY DefinitionType
<1>2. {<<n, d[n].expr>>} \in Values
  BY <1>1 DEF Values, Sources
<1> QED
  BY <1>1, <1>2 DEF Frame, Frames, FrameOK

-----------------------------------------------------------------------------
(* Steps                                                                   *)

(* A call that ends leaves nothing behind.                                 *)
LEMMA ReturnsType ==
    ASSUME TypeOK, NEW a \in Agents, Returns(a)
    PROVE  /\ pc' \in [Agents -> Steps] /\ req' \in [Agents -> Requests \cup {None}]
           /\ snap' \in [Agents -> Sessions] /\ copy' \in [Agents -> Sessions]
           /\ stack' \in [Agents -> Seq(Frames)]
           /\ pc'[a] = "idle"
           /\ \A b \in Agents \ {a} :
                /\ pc'[b] = pc[b] /\ req'[b] = req[b] /\ snap'[b] = snap[b]
                /\ copy'[b] = copy[b] /\ stack'[b] = stack[b]
<1>1. NoDefinitions \in Sessions /\ <<>> \in Seq(Frames) /\ "idle" \in Steps
  BY NoDefinitionsType DEF Steps
<1> QED
  BY <1>1 DEF Returns, Goto, TypeOK

(* An evaluation that ends hands its value to the one that waits for it,   *)
(* or ends the call with the answer.                                       *)
LEMMA DeliverType ==
    ASSUME TypeOK, NEW a \in Agents, pc[a] = "eval", Flow(a),
           NEW v \in Values, Deliver(a, v),
           <<Last(stack[a]).name, snap[a][Last(stack[a]).name].expr>> \in v
    PROVE  /\ pc' \in [Agents -> Steps] /\ req' \in [Agents -> Requests \cup {None}]
           /\ snap' \in [Agents -> Sessions] /\ copy' \in [Agents -> Sessions]
           /\ stack' \in [Agents -> Seq(Frames)]
           /\ answer' \in [Agents -> Answers \cup {None}]
           /\ \A b \in Agents \ {a} :
                /\ pc'[b] = pc[b] /\ req'[b] = req[b] /\ snap'[b] = snap[b]
                /\ copy'[b] = copy[b] /\ stack'[b] = stack[b] /\ answer'[b] = answer[b]
           /\ \/ pc'[a] = "idle"
              \/ /\ pc'[a] = "eval" /\ req'[a] = req[a] /\ snap'[a] = snap[a]
                 /\ StackOK(stack'[a], snap[a])
           /\ answer'[a] # None =>
                answer'[a] = answer[a] \/ <<answer'[a].name, answer'[a].expr>> \in answer'[a].value
<1> DEFINE s == stack[a]
           d == snap[a]
<1>1. s \in Seq(Frames) /\ d \in Sessions /\ StackOK(s, d)
  BY DEF TypeOK, Flow
<1>2. Last(s) = s[Len(s)] /\ Last(s) \in Frames /\ FrameOK(Last(s), d) /\ Len(s) \in 1..Len(s)
  BY <1>1, LastFrame
<1>3. CASE Len(s) = 1
  <2> DEFINE r == [name |-> s[1].name, expr |-> d[s[1].name].expr, value |-> v]
  <2>1. Returns(a) /\ answer' = [answer EXCEPT ![a] = r]
    BY <1>3 DEF Deliver
  <2>2. s[1] = Last(s) /\ s[1].name \in Names /\ d[s[1].name] # None
    BY <1>2, <1>3 DEF Frames, FrameOK
  <2>3. r \in Answers /\ <<r.name, r.expr>> \in r.value
    BY <1>1, <2>2, DefinitionType DEF Answers
  <2> HIDE DEF r
  <2>4. answer' \in [Agents -> Answers \cup {None}] /\ answer'[a] = r
        /\ \A b \in Agents \ {a} : answer'[b] = answer[b]
    BY <2>1, <2>3 DEF TypeOK
  <2> QED
    BY <2>1, <2>3, <2>4, ReturnsType
<1>4. CASE Len(s) # 1
  <2> DEFINE u == Got(Front(s), v)
  <2>1. u \in Seq(Frames) /\ StackOK(u, d)
    BY <1>1, <1>4, FramePopped, GotOK
  <2>2. /\ stack' = [stack EXCEPT ![a] = u]
        /\ UNCHANGED <<pc, req, snap, copy, answer>>
    BY <1>4 DEF Deliver
  <2> HIDE DEF u
  <2> QED
    BY <2>1, <2>2 DEF TypeOK
<1> QED
  BY <1>3, <1>4

(* What a step of another agent leaves alone.                              *)
LEMMA OthersKeep ==
    ASSUME IInv, NEW a \in Agents, NEW b \in Agents \ {a},
           pc'[b] = pc[b], req'[b] = req[b], snap'[b] = snap[b],
           copy'[b] = copy[b], stack'[b] = stack[b],
           holder' = b <=> holder = b, defs' = defs \/ holder # b
    PROVE  Mine(b)'
<1>1. Mine(b)
  BY DEF IInv
<1>2. Flow(b)'
  BY <1>1 DEF Mine, Flow
<1>3. Holds(b)'
  BY <1>1 DEF Mine, Holds
<1>4. Current(b)'
  BY <1>1 DEF Mine, Current, Holds
<1> QED
  BY <1>2, <1>3, <1>4 DEF Mine

(* An agent that waits for nothing has nothing to show.                    *)
LEMMA IdleMine ==
    ASSUME NEW a, pc'[a] = "idle", holder' # a
    PROVE  Mine(a)'
BY DEF Mine, Flow, Holds, Current

(* The steps that change neither a cache nor an answer.                    *)
LEMMA CallKeeps ==
    ASSUME IInv, NEW a \in Agents, NEW q \in Requests, Call(a, q)
    PROVE  IInv'
<1>1. TypeOK /\ Mine(a)
  BY DEF IInv
<1>2. TypeOK'
  <2>1. pc' \in [Agents -> Steps]
    BY <1>1 DEF TypeOK, Call, Goto, Steps
  <2>2. calls' \in 0..MaxCalls
    BY <1>1, SignalsAssumption DEF TypeOK, Call
  <2> QED
    BY <1>1, <2>1, <2>2 DEF TypeOK, Call
<1>3. CacheOwn' /\ AnswersOwnExpression'
  BY <1>1 DEF IInv, CacheOwn, AnswersOwnExpression, Call, TypeOK
<1>4. Mine(a)'
  <2>1. pc'[a] = (IF q.op \in {"eval", "value"} THEN "read" ELSE "lock") /\ req'[a] = q
    BY <1>1 DEF TypeOK, Call, Goto
  <2>2. q.op \in {"create", "update", "delete", "eval", "value"}
    BY RequestType
  <2>3. holder' # a
    BY <1>1 DEF Call, Mine, Holds
  <2> QED
    BY <2>1, <2>2, <2>3 DEF Mine, Flow, Holds, Current
<1>5. \A b \in Agents \ {a} : Mine(b)'
  BY <1>1, OthersKeep DEF Call, Goto, TypeOK
<1> QED
  BY <1>2, <1>3, <1>4, <1>5 DEF IInv

LEMMA LoadKeeps ==
    ASSUME IInv, NEW a \in Agents, Load(a)
    PROVE  IInv'
<1>1. TypeOK /\ Mine(a) /\ holder = None /\ a # None
  BY SignalsAssumption DEF IInv, Load
<1>2. TypeOK'
  BY <1>1 DEF TypeOK, Load, Goto, Steps, bounds
<1>3. CacheOwn' /\ AnswersOwnExpression'
  BY DEF IInv, CacheOwn, AnswersOwnExpression, Load
<1>4. Mine(a)'
  <2>1. pc'[a] = "check" /\ snap'[a] = defs /\ defs' = defs /\ holder' = a /\ req' = req
    BY <1>1 DEF TypeOK, Load, Goto
  <2> QED
    BY <1>1, <2>1 DEF Mine, Flow, Holds, Current, Load
<1>5. ASSUME NEW b \in Agents \ {a}
      PROVE  Mine(b)'
  <2>1. b # None
    BY SignalsAssumption
  <2> QED
    BY <1>1, <2>1, OthersKeep DEF Load, Goto, TypeOK
<1> QED
  BY <1>2, <1>3, <1>4, <1>5 DEF IInv

(* A smaller cache is a cache.                                             *)
LEMMA StageKeeps ==
    ASSUME IInv, NEW a \in Agents, pc[a] = "check",
           NEW new \in Sessions, KeepsUsed(snap[a], new),
           NEW kept \in SUBSET cache[Server(a)], Stage(a, new, kept)
    PROVE  IInv'
<1>1. TypeOK /\ Mine(a) /\ Server(a) \in Servers /\ CacheOwn
  BY DEF IInv, Servers
<1>2. IsFiniteSet(kept) /\ Cardinality(kept) <= MaxCache
  <2>1. IsFiniteSet(cache[Server(a)]) /\ Cardinality(cache[Server(a)]) <= MaxCache
    BY <1>1 DEF TypeOK
  <2>2. /\ IsFiniteSet(kept) /\ Cardinality(kept) <= Cardinality(cache[Server(a)])
        /\ Cardinality(kept) \in Nat /\ Cardinality(cache[Server(a)]) \in Nat
    BY <2>1, FS_Subset, FS_CardinalityType
  <2> QED
    BY <2>1, <2>2, SignalsAssumption
<1>3. /\ cache' \in [Servers -> SUBSET CacheEntries]
      /\ \A s \in Servers : cache'[s] = IF s = Server(a) THEN kept ELSE cache[s]
  BY <1>1 DEF Stage, TypeOK
<1>4. TypeOK'
  <2>1. \A s \in Servers : IsFiniteSet(cache'[s]) /\ Cardinality(cache'[s]) <= MaxCache
    BY <1>1, <1>2, <1>3 DEF TypeOK
  <2>2. pc' \in [Agents -> Steps] /\ copy' \in [Agents -> Sessions]
    BY <1>1 DEF TypeOK, Stage, Goto, Steps
  <2> QED
    BY <1>1, <1>3, <2>1, <2>2 DEF TypeOK, Stage, bounds
<1>5. CacheOwn'
  BY <1>1, <1>3 DEF CacheOwn
<1>6. AnswersOwnExpression'
  BY DEF IInv, AnswersOwnExpression, Stage
<1>7. Mine(a)'
  <2>1. /\ pc'[a] = "save" /\ copy'[a] = new /\ snap' = snap /\ defs' = defs
        /\ holder' = holder /\ req' = req
    BY <1>1 DEF TypeOK, Stage, Goto
  <2> QED
    BY <1>1, <2>1 DEF Mine, Flow, Holds, Current
<1>8. \A b \in Agents \ {a} : Mine(b)'
  BY <1>1, OthersKeep DEF Stage, Goto, TypeOK
<1> QED
  BY <1>4, <1>5, <1>6, <1>7, <1>8 DEF IInv

(* The edits: each stages definitions that keep what is used.              *)
LEMMA EditsKeep ==
    ASSUME IInv, NEW a \in Agents, Create(a) \/ Update(a) \/ Delete(a)
    PROVE  IInv'
<1> DEFINE q == req[a]
           d == snap[a]
<1>1. TypeOK /\ Mine(a) /\ pc[a] = "check" /\ d \in Sessions
  BY DEF IInv, TypeOK, Create, Update, Delete
<1>2. q \in Requests
  BY <1>1 DEF Mine, Flow
<1>3. Invalidate(a, q.name) \subseteq cache[Server(a)]
  BY DEF Invalidate
<1>4. CASE Create(a)
  <2>1. PICK failed \in SUBSET Real :
          /\ CanCreate(NewDefinitions(q.new, d, failed), d)
          /\ Stage(a, WithNew(d, NewDefinitions(q.new, d, failed)), cache[Server(a)])
    BY <1>4 DEF Create
  <2> QED
    BY <1>1, <1>2, <1>4, <2>1, CreateKeeps, StageKeeps DEF Create
<1>5. CASE Update(a)
  <2>1. q.op = "update" /\ q.name \in Names /\ q.expr \in Exprs
    BY <1>2, <1>5, RequestType DEF Update, Updates
  <2>2. CASE Stage(a, d, cache[Server(a)])
    BY <1>1, <2>2, StageKeeps DEF KeepsUsed
  <2>3. CASE \E failed \in SUBSET Real :
               Stage(a, [d EXCEPT ![q.name] = [expr |-> q.expr, width |-> Infer(q.expr, d, failed)]],
                     Invalidate(a, q.name))
    BY <1>1, <1>3, <2>1, <2>3, UpdateKeeps, StageKeeps
  <2> QED
    BY <1>5, <2>2, <2>3 DEF Update
<1>6. CASE Delete(a)
  <2>1. q.name \in Names /\ CanDelete(q, d)
    BY <1>2, <1>6, RequestType DEF Delete
  <2> QED
    BY <1>1, <1>3, <1>6, <2>1, DeleteKeeps, StageKeeps DEF Delete
<1> QED
  BY <1>4, <1>5, <1>6

(* The end of an edit, whether it is refused or saved.                     *)
LEMMA EditEnds ==
    ASSUME IInv, NEW a \in Agents, Refuse(a) \/ Save(a)
    PROVE  IInv'
<1>1. TypeOK /\ Mine(a) /\ pc[a] \in {"check", "save"} /\ holder = a /\ holder' = None /\ a # None
  BY SignalsAssumption DEF IInv, Refuse, Save, Mine, Holds
<1>2. /\ Returns(a) /\ UNCHANGED <<answer, cache, bounds>>
      /\ defs' \in {defs, copy[a]} /\ editors' \subseteq editors \cup {a}
  BY DEF Refuse, Save
<1>3. TypeOK'
  BY <1>1, <1>2, ReturnsType DEF TypeOK, bounds
<1>4. CacheOwn' /\ AnswersOwnExpression'
  BY <1>2 DEF IInv, CacheOwn, AnswersOwnExpression
<1>5. Mine(a)'
  BY <1>1, <1>2, ReturnsType, IdleMine
<1>6. ASSUME NEW b \in Agents \ {a}
      PROVE  Mine(b)'
  <2>1. b # None
    BY SignalsAssumption
  <2> QED
    BY <1>1, <1>2, <2>1, ReturnsType, OthersKeep
<1> QED
  BY <1>3, <1>4, <1>5, <1>6 DEF IInv

(* Evaluations change no definition, and hold no lock.                     *)
LEMMA ReadKeeps ==
    ASSUME IInv, NEW a \in Agents, Read(a)
    PROVE  IInv'
<1> DEFINE n == req[a].name
<1>1. /\ TypeOK /\ Mine(a) /\ pc[a] = "read" /\ holder # a
      /\ UNCHANGED <<defs, holder, answer, cache, editors, bounds>>
  BY DEF IInv, Mine, Holds, Read
<1>2. CacheOwn' /\ AnswersOwnExpression'
  BY <1>1 DEF IInv, CacheOwn, AnswersOwnExpression
<1>3. CASE Returns(a)
  <2>1. TypeOK'
    BY <1>1, <1>3, ReturnsType DEF TypeOK, bounds
  <2>2. Mine(a)'
    BY <1>1, <1>3, ReturnsType, IdleMine
  <2>3. \A b \in Agents \ {a} : Mine(b)'
    BY <1>1, <1>3, ReturnsType, OthersKeep
  <2> QED
    BY <1>2, <2>1, <2>2, <2>3 DEF IInv
<1>4. CASE /\ defs[n] # None
           /\ snap' = [snap EXCEPT ![a] = defs]
           /\ stack' = [stack EXCEPT ![a] = <<Frame(n, defs)>>]
           /\ Goto(a, "eval")
           /\ UNCHANGED <<req, copy>>
  <2>1. n \in Names /\ defs \in Sessions
    BY <1>1, RequestType DEF Mine, Flow, TypeOK
  <2>2. Frame(n, defs) \in Frames /\ FrameOK(Frame(n, defs), defs)
    BY <1>4, <2>1, FrameNew
  <2> DEFINE s == <<Frame(n, defs)>>
  <2>3. s \in Seq(Frames) /\ StackOK(s, defs)
    BY <2>2 DEF StackOK
  <2> HIDE DEF s
  <2>4. /\ stack' \in [Agents -> Seq(Frames)] /\ stack'[a] = s
        /\ snap' \in [Agents -> Sessions] /\ snap'[a] = defs
        /\ pc' \in [Agents -> Steps] /\ pc'[a] = "eval"
        /\ \A b \in Agents \ {a} :
             pc'[b] = pc[b] /\ snap'[b] = snap[b] /\ stack'[b] = stack[b]
    BY <1>1, <1>4, <2>1, <2>3 DEF TypeOK, Goto, Steps, s
  <2>5. TypeOK'
    BY <1>1, <1>4, <2>4 DEF TypeOK, bounds
  <2>6. Mine(a)'
    BY <1>1, <1>4, <2>3, <2>4 DEF Mine, Flow, Holds, Current
  <2>7. \A b \in Agents \ {a} : Mine(b)'
    BY <1>1, <1>4, <2>4, OthersKeep
  <2> QED
    BY <1>2, <2>5, <2>6, <2>7 DEF IInv
<1> QED
  BY <1>3, <1>4 DEF Read

(* A step that changes only the stack of the evaluation.                   *)
LEMMA StackKeeps ==
    ASSUME IInv, NEW a \in Agents, pc[a] = "eval",
           NEW s \in Seq(Frames), StackOK(s, snap[a]),
           stack' = [stack EXCEPT ![a] = s],
           UNCHANGED <<defs, holder, pc, req, snap, copy, answer, cache, editors, bounds>>
    PROVE  IInv'
<1>1. TypeOK /\ Mine(a)
  BY DEF IInv
<1>2. stack' \in [Agents -> Seq(Frames)] /\ stack'[a] = s
      /\ \A b \in Agents \ {a} : stack'[b] = stack[b]
  BY <1>1 DEF TypeOK
<1>3. TypeOK'
  BY <1>1, <1>2 DEF TypeOK, bounds
<1>4. CacheOwn' /\ AnswersOwnExpression'
  BY DEF IInv, CacheOwn, AnswersOwnExpression
<1>5. Mine(a)'
  BY <1>1, <1>2 DEF Mine, Flow, Holds, Current
<1>6. \A b \in Agents \ {a} : Mine(b)'
  BY <1>2, OthersKeep
<1> QED
  BY <1>3, <1>4, <1>5, <1>6 DEF IInv

(* A step that ends an evaluation, with a value computed from the          *)
(* expression of its signal.                                               *)
LEMMA DeliverKeeps ==
    ASSUME IInv, NEW a \in Agents, pc[a] = "eval",
           NEW v \in Values, Deliver(a, v),
           <<Last(stack[a]).name, snap[a][Last(stack[a]).name].expr>> \in v,
           UNCHANGED <<defs, holder, editors, bounds>>,
           cache' \in [Servers -> SUBSET CacheEntries],
           \A s \in Servers : IsFiniteSet(cache'[s]) /\ Cardinality(cache'[s]) <= MaxCache,
           CacheOwn'
    PROVE  IInv'
<1>1. TypeOK /\ Mine(a) /\ Flow(a) /\ holder # a
  BY DEF IInv, Mine, Holds
<1>2. /\ pc' \in [Agents -> Steps] /\ req' \in [Agents -> Requests \cup {None}]
      /\ snap' \in [Agents -> Sessions] /\ copy' \in [Agents -> Sessions]
      /\ stack' \in [Agents -> Seq(Frames)]
      /\ answer' \in [Agents -> Answers \cup {None}]
      /\ \A b \in Agents \ {a} :
           /\ pc'[b] = pc[b] /\ req'[b] = req[b] /\ snap'[b] = snap[b]
           /\ copy'[b] = copy[b] /\ stack'[b] = stack[b] /\ answer'[b] = answer[b]
      /\ \/ pc'[a] = "idle"
         \/ /\ pc'[a] = "eval" /\ req'[a] = req[a] /\ snap'[a] = snap[a]
            /\ StackOK(stack'[a], snap[a])
      /\ answer'[a] # None =>
           answer'[a] = answer[a] \/ <<answer'[a].name, answer'[a].expr>> \in answer'[a].value
  BY <1>1, DeliverType
<1>3. TypeOK'
  BY <1>1, <1>2 DEF TypeOK, bounds
<1>4. AnswersOwnExpression'
  BY <1>2 DEF IInv, AnswersOwnExpression
<1>5. Mine(a)'
  BY <1>1, <1>2, IdleMine DEF Mine, Flow, Holds, Current
<1>6. \A b \in Agents \ {a} : Mine(b)'
  BY <1>2, OthersKeep
<1> QED
  BY <1>3, <1>4, <1>5, <1>6 DEF IInv

LEMMA LookUpKeeps ==
    ASSUME IInv, NEW a \in Agents, LookUp(a)
    PROVE  IInv'
<1> DEFINE s == stack[a]
           f == Last(stack[a])
           hits == {e \in cache[Server(a)] : Matches(e, a, f.name)}
<1>1. /\ TypeOK /\ pc[a] = "eval" /\ s \in Seq(Frames) /\ StackOK(s, snap[a])
      /\ Server(a) \in Servers /\ CacheOwn
  BY DEF IInv, Mine, Flow, LookUp, TypeOK, Servers
<1>2. Len(s) \in 1..Len(s) /\ f = s[Len(s)] /\ f \in Frames
  BY <1>1, LastFrame
<1>3. CASE /\ stack' = [stack EXCEPT ![a][Len(stack[a])].looked = TRUE]
           /\ UNCHANGED <<pc, req, snap, copy, answer>>
  <2> DEFINE g == [s[Len(s)] EXCEPT !.looked = TRUE]
             t == [s EXCEPT ![Len(s)] = g]
  <2>1. g \in Frames /\ g.name = s[Len(s)].name /\ s[Len(s)].got \subseteq g.got
    BY <1>2 DEF Frames
  <2>2. stack' = [stack EXCEPT ![a] = t]
    BY <1>3
  <2> HIDE DEF g
  <2>3. t \in Seq(Frames) /\ StackOK(t, snap[a])
    BY <1>1, <1>2, <2>1, FrameChanged
  <2> HIDE DEF t
  <2> QED
    BY <1>1, <1>3, <2>2, <2>3, StackKeeps DEF LookUp
<1>4. ASSUME NEW e \in hits, Deliver(a, e.value)
      PROVE  IInv'
  <2>1. e \in CacheEntries /\ e.value \in Values /\ <<e.name, e.expr>> \in e.value
    BY <1>1 DEF TypeOK, CacheOwn, CacheEntries
  <2>2. e.name = f.name /\ e.expr = snap[a][f.name].expr
    BY DEF Matches
  <2>3. UNCHANGED <<defs, holder, cache, editors, bounds>>
    BY DEF LookUp
  <2>4. CacheOwn'
    BY <1>1, <2>3 DEF CacheOwn
  <2> QED
    BY <1>1, <1>4, <2>1, <2>2, <2>3, <2>4, DeliverKeeps DEF TypeOK
<1> QED
  BY <1>3, <1>4 DEF LookUp

LEMMA DescendKeeps ==
    ASSUME IInv, NEW a \in Agents, Descend(a)
    PROVE  IInv'
<1> DEFINE s == stack[a]
           n == Head(Last(s).todo)
           h == Frame(n, snap[a])
           t == Append(Taken(s), h)
<1>1. /\ TypeOK /\ pc[a] = "eval" /\ s \in Seq(Frames) /\ StackOK(s, snap[a])
      /\ snap[a] \in Sessions /\ Last(s).todo # <<>> /\ snap[a][n] # None
  BY DEF IInv, Mine, Flow, Descend, TypeOK
<1>2. stack' = [stack EXCEPT ![a] = t]
  BY DEF Descend
<1>3. Last(s) = s[Len(s)]
  BY <1>1, LastFrame
<1>4. Taken(s) \in Seq(Frames) /\ StackOK(Taken(s), snap[a]) /\ n \in Names
  BY <1>1, <1>3, TakenOK
<1>5. h \in Frames /\ FrameOK(h, snap[a])
  BY <1>1, <1>4, FrameNew
<1>6. t \in Seq(Frames) /\ StackOK(t, snap[a])
  BY <1>4, <1>5, FramePushed
<1> HIDE DEF t
<1> QED
  BY <1>1, <1>2, <1>6, StackKeeps DEF Descend

LEMMA FetchKeeps ==
    ASSUME IInv, NEW a \in Agents, Fetch(a)
    PROVE  IInv'
<1> DEFINE s == stack[a]
           n == Head(Last(s).todo)
<1>1. /\ TypeOK /\ pc[a] = "eval" /\ s \in Seq(Frames) /\ StackOK(s, snap[a])
      /\ Last(s).todo # <<>>
  BY DEF IInv, Mine, Flow, Fetch, TypeOK
<1>2. Last(s) = s[Len(s)]
  BY <1>1, LastFrame
<1>3. Taken(s) \in Seq(Frames) /\ StackOK(Taken(s), snap[a]) /\ n \in Names
  BY <1>1, <1>2, TakenOK
<1>4. PICK src \in {"recorded", "missing"} :
        stack' = [stack EXCEPT ![a] = Got(Taken(s), {<<n, src>>})]
  BY DEF Fetch
<1>5. {<<n, src>>} \in Values
  BY <1>3 DEF Values, Sources
<1> DEFINE t == Got(Taken(s), {<<n, src>>})
<1>6. t \in Seq(Frames) /\ StackOK(t, snap[a])
  BY <1>3, <1>5, GotOK
<1> HIDE DEF t
<1> QED
  BY <1>1, <1>4, <1>6, StackKeeps DEF Fetch, t

LEMMA FetchTooManyKeeps ==
    ASSUME IInv, NEW a \in Agents, FetchTooMany(a)
    PROVE  IInv'
<1>1. /\ TypeOK /\ Mine(a) /\ holder # a /\ Returns(a)
      /\ UNCHANGED <<defs, holder, answer, cache, editors, bounds>>
  BY DEF IInv, Mine, Holds, FetchTooMany
<1>2. TypeOK'
  BY <1>1, ReturnsType DEF TypeOK, bounds
<1>3. CacheOwn' /\ AnswersOwnExpression'
  BY <1>1 DEF IInv, CacheOwn, AnswersOwnExpression
<1>4. Mine(a)'
  BY <1>1, ReturnsType, IdleMine
<1>5. \A b \in Agents \ {a} : Mine(b)'
  BY <1>1, ReturnsType, OthersKeep
<1> QED
  BY <1>2, <1>3, <1>4, <1>5 DEF IInv

LEMMA FinishKeeps ==
    ASSUME IInv, NEW a \in Agents, Finish(a)
    PROVE  IInv'
<1> DEFINE s == stack[a]
           f == Last(stack[a])
           x == snap[a][f.name].expr
           c == cache[Server(a)]
           p == Put(c, f.name, x, f.got)
<1>1. /\ TypeOK /\ pc[a] = "eval" /\ s \in Seq(Frames) /\ StackOK(s, snap[a])
      /\ snap[a] \in Sessions /\ Server(a) \in Servers /\ CacheOwn
      /\ Deliver(a, f.got) /\ UNCHANGED <<defs, holder, editors, bounds>>
  BY DEF IInv, Mine, Flow, Finish, TypeOK, Servers
<1>2. f \in Frames /\ FrameOK(f, snap[a])
  BY <1>1, LastFrame
<1>3. f.name \in Names /\ f.got \in Values /\ x \in Exprs /\ <<f.name, x>> \in f.got
  BY <1>1, <1>2, DefinitionType DEF Frames, FrameOK
<1>4. /\ c \in SUBSET CacheEntries /\ IsFiniteSet(c) /\ Cardinality(c) <= MaxCache
      /\ \A e \in c : <<e.name, e.expr>> \in e.value
  BY <1>1 DEF TypeOK, CacheOwn
<1>5. /\ p \in SUBSET CacheEntries /\ IsFiniteSet(p) /\ Cardinality(p) <= MaxCache
      /\ \A e \in p : <<e.name, e.expr>> \in e.value
  <2> HIDE DEF x, c
  <2> QED
    BY <1>3, <1>4, PutType
<1>6. cache' = cache \/ cache' = [cache EXCEPT ![Server(a)] = p]
  BY DEF Finish
<1> HIDE DEF p
<1>7. /\ cache' \in [Servers -> SUBSET CacheEntries]
      /\ \A t \in Servers : cache'[t] = cache[t] \/ cache'[t] = p
  BY <1>1, <1>5, <1>6 DEF TypeOK
<1>8. \A t \in Servers : IsFiniteSet(cache'[t]) /\ Cardinality(cache'[t]) <= MaxCache
  BY <1>1, <1>5, <1>7 DEF TypeOK
<1>9. CacheOwn'
  BY <1>1, <1>5, <1>7 DEF CacheOwn
<1> QED
  BY <1>1, <1>3, <1>7, <1>8, <1>9, DeliverKeeps

(* A server that dies takes its agents, their locks and its cache with it. *)
LEMMA CrashKeeps ==
    ASSUME IInv, NEW k \in Servers, Crash(k)
    PROVE  IInv'
<1> DEFINE dead == {a \in Agents : Server(a) = k}
<1>1. TypeOK /\ CacheOwn /\ \A b \in Agents : b # None
  BY SignalsAssumption DEF IInv
<1>2. /\ cache' \in [Servers -> SUBSET CacheEntries]
      /\ \A s \in Servers : cache'[s] = IF s = k THEN {} ELSE cache[s]
  BY <1>1 DEF Crash, TypeOK
<1>3. \A s \in Servers : IsFiniteSet(cache'[s]) /\ Cardinality(cache'[s]) <= MaxCache
  <2>1. IsFiniteSet({}) /\ Cardinality({}) <= MaxCache
    BY FS_EmptySet, SignalsAssumption
  <2> QED
    BY <1>1, <1>2, <2>1 DEF TypeOK
<1>4. /\ pc' \in [Agents -> Steps] /\ req' \in [Agents -> Requests \cup {None}]
      /\ snap' \in [Agents -> Sessions] /\ copy' \in [Agents -> Sessions]
      /\ stack' \in [Agents -> Seq(Frames)] /\ answer' \in [Agents -> Answers \cup {None}]
  <2>1. NoDefinitions \in Sessions /\ <<>> \in Seq(Frames) /\ "idle" \in Steps
    BY NoDefinitionsType DEF Steps
  <2> QED
    BY <1>1, <2>1 DEF Crash, TypeOK
<1>5. holder' = (IF holder \in dead THEN None ELSE holder) /\ defs' = defs
      /\ crashes' \in 0..MaxCrashes /\ editors' = editors /\ calls' = calls
  BY <1>1, SignalsAssumption DEF Crash, TypeOK
<1>6. TypeOK'
  BY <1>1, <1>2, <1>3, <1>4, <1>5 DEF TypeOK
<1>7. CacheOwn'
  BY <1>1, <1>2 DEF CacheOwn
<1>8. AnswersOwnExpression'
  BY DEF IInv, AnswersOwnExpression, Crash
<1>9. ASSUME NEW b \in Agents
      PROVE  Mine(b)'
  <2>1. CASE b \in dead
    <3>1. pc'[b] = "idle"
      BY <2>1 DEF Crash
    <3>2. holder' # b
      BY <1>1, <1>5, <2>1
    <3> QED
      BY <3>1, <3>2, IdleMine
  <2>2. CASE b \notin dead
    <3>1. /\ pc'[b] = pc[b] /\ req'[b] = req[b] /\ snap'[b] = snap[b]
          /\ copy'[b] = copy[b] /\ stack'[b] = stack[b]
      BY <2>2 DEF Crash
    <3>2. holder' = b <=> holder = b
      BY <1>1, <1>5, <2>2
    <3>3. Mine(b)
      BY DEF IInv
    <3> QED
      BY <1>5, <3>1, <3>2, <3>3 DEF Mine, Flow, Holds, Current
  <2> QED
    BY <2>1, <2>2
<1> QED
  BY <1>6, <1>7, <1>8, <1>9 DEF IInv

LEMMA NothingKeeps ==
    ASSUME IInv, UNCHANGED vars
    PROVE  IInv'
<1>1. TypeOK'
  BY DEF IInv, TypeOK, vars, locals, bounds
<1>2. CacheOwn' /\ AnswersOwnExpression'
  BY DEF IInv, CacheOwn, AnswersOwnExpression, vars, locals
<1>3. \A a \in Agents : Mine(a)'
  BY DEF IInv, Mine, Flow, Holds, Current, vars, locals
<1> QED
  BY <1>1, <1>2, <1>3 DEF IInv

LEMMA InvInit == Init => IInv
<1> SUFFICES ASSUME Init
             PROVE  IInv
  OBVIOUS
<1>1. TypeOK
  <2>1. NoDefinitions \in Sessions /\ <<>> \in Seq(Frames) /\ "idle" \in Steps
    BY NoDefinitionsType DEF Steps
  <2>2. IsFiniteSet({}) /\ Cardinality({}) <= MaxCache
    BY FS_EmptySet, SignalsAssumption
  <2> QED
    BY <2>1, <2>2, SignalsAssumption DEF Init, TypeOK
<1>2. CacheOwn /\ AnswersOwnExpression
  BY DEF Init, CacheOwn, AnswersOwnExpression
<1>3. \A a \in Agents : Mine(a)
  BY SignalsAssumption DEF Init, Mine, Flow, Holds, Current
<1> QED
  BY <1>1, <1>2, <1>3 DEF IInv

LEMMA InvStep == IInv /\ [Next]_vars => IInv'
<1> SUFFICES ASSUME IInv, [Next]_vars
             PROVE  IInv'
  OBVIOUS
<1>1. ASSUME NEW a \in Agents, NEW q \in Requests, Call(a, q)
      PROVE  IInv'
  BY <1>1, CallKeeps
<1>2. ASSUME NEW a \in Agents, Load(a)
      PROVE  IInv'
  BY <1>2, LoadKeeps
<1>3. ASSUME NEW a \in Agents, Create(a) \/ Update(a) \/ Delete(a)
      PROVE  IInv'
  BY <1>3, EditsKeep
<1>4. ASSUME NEW a \in Agents, Refuse(a) \/ Save(a)
      PROVE  IInv'
  BY <1>4, EditEnds
<1>5. ASSUME NEW a \in Agents, Read(a) \/ LookUp(a) \/ Descend(a)
      PROVE  IInv'
  BY <1>5, ReadKeeps, LookUpKeeps, DescendKeeps
<1>6. ASSUME NEW a \in Agents, Fetch(a) \/ FetchTooMany(a) \/ Finish(a)
      PROVE  IInv'
  BY <1>6, FetchKeeps, FetchTooManyKeeps, FinishKeeps
<1>7. ASSUME NEW s \in Servers, Crash(s)
      PROVE  IInv'
  BY <1>7, CrashKeeps
<1>8. CASE UNCHANGED vars
  BY <1>8, NothingKeeps
<1> QED
  BY <1>1, <1>2, <1>3, <1>4, <1>5, <1>6, <1>7, <1>8 DEF Next

-----------------------------------------------------------------------------
(* Theorems                                                                *)

(* The inductive invariant: only the agent that holds the store lock edits,*)
(* from the definitions that the file holds, and every evaluation that is  *)
(* under way, and every cached entry, has its own expression in its value. *)
THEOREM SignalsInvariant == Spec => []IInv
<1>1. Init => IInv
  BY InvInit
<1>2. IInv /\ [Next]_vars => IInv'
  BY InvStep
<1> QED
  BY <1>1, <1>2, PTL DEF Spec

(* Every variable keeps its type, and no process caches more than          *)
(* _MAX_CACHE_SIZE results, however many threads share it.                 *)
THEOREM SignalTypes == Spec => []TypeOK
<1>1. IInv => TypeOK
  BY DEF IInv
<1> QED
  BY <1>1, SignalsInvariant, PTL

(* Whatever is edited while it is computed, and whether it is cached or    *)
(* not, get_transitions answers from the expression that the call read for *)
(* its signal, never from that of another signal or of an older definition.*)
THEOREM AnswersFromOwnExpression == Spec => []AnswersOwnExpression
<1>1. IInv => AnswersOwnExpression
  BY DEF IInv
<1> QED
  BY <1>1, SignalsInvariant, PTL

(* delete_signal_expression never takes away a signal to which a           *)
(* definition refers, whatever the other agents add in the meantime.       *)
THEOREM UsedSignalsStay == Spec => DeletesOnlyUnused
<1> DEFINE A == \A n \in Names : defs[n] # None /\ defs'[n] = None =>
                  \A m \in Names : ~DependsOn(defs', m, n)
<1>1. IInv /\ [Next]_vars => [A]_defs
  <2> SUFFICES ASSUME IInv, [Next]_vars, defs' # defs
               PROVE  A
    OBVIOUS
  <2>1. PICK a \in Agents : Save(a)
    BY DEF Next, Call, Load, Create, Update, Delete, Stage, Refuse, Read, LookUp, Descend,
           Fetch, FetchTooMany, Finish, Crash, vars
  <2>2. defs' = copy[a] /\ KeepsUsed(defs, copy[a])
    BY <2>1 DEF IInv, Mine, Current, Save
  <2> QED
    BY <2>2 DEF KeepsUsed
<1> QED
  BY <1>1, SignalsInvariant, PTL DEF Spec, DeletesOnlyUnused

(* There is no cycle in the file, and none in what is about to be saved.   *)
NoCyclesAnywhere == NoCycles(defs) /\ \A a \in Agents : pc[a] = "save" => NoCycles(copy[a])

LEMMA NothingRefers ==
    ASSUME NEW d \in Sessions, NEW n, d[n] = None
    PROVE  RefsIn(d, n) = <<>> /\ Range(RefsIn(d, n)) = {}
BY DEF RefsIn, Range

LEMMA NoDefinitionsNoCycles == NoCycles(NoDefinitions)
<1>1. \A n \in Names : Range(RefsIn(NoDefinitions, n)) = {}
  BY NothingRefers, NoDefinitionsType DEF NoDefinitions
<1> QED
  BY <1>1 DEF NoCycles, NoCyclesIn

LEMMA CreateNoCycles ==
    ASSUME NEW d \in Sessions, NoCycles(d), NEW made, WithNew(d, made) \in Sessions,
           DOMAIN made \subseteq Names, CanCreate(made, d)
    PROVE  NoCycles(WithNew(d, made))
<1> DEFINE new == WithNew(d, made)
<1>1. \A n \in DOMAIN made : \E S \in SUBSET Names : n \in S /\ Clear(new, S)
  BY SortedClear DEF CanCreate
<1>2. \A n \in Names \ DOMAIN made : new[n] = d[n]
  BY DEF WithNew
<1> HIDE DEF new
<1>3. NoCycles(new)
  BY <1>1, <1>2, EditNoCycles
<1> QED
  BY <1>3 DEF new

(* The sort looks at the new expression with the old width.                *)
LEMMA UpdateNoCycles ==
    ASSUME NEW d \in Sessions, NoCycles(d), NEW q, q.name \in Names, q.expr \in Exprs,
           CanUpdate(q, d), q.expr # d[q.name].expr, NEW w,
           [expr |-> q.expr, width |-> w] \in Definitions,
           NEW new, new = [d EXCEPT ![q.name] = [expr |-> q.expr, width |-> w]]
    PROVE  NoCycles(new)
<1> DEFINE n == q.name
           old == [d EXCEPT ![n].expr = q.expr]
<1>1. d[n] # None /\ Sorted(old, n)
  BY DEF CanUpdate
<1>2. d[n] \in Definitions /\ [d[n] EXCEPT !.expr = q.expr] \in Definitions
      /\ [d[n] EXCEPT !.expr = q.expr].expr = q.expr
  BY <1>1 DEF Sessions, Definitions
<1>3. old \in Sessions /\ old[n].expr = q.expr /\ old[n] # None
      /\ \A m \in Names \ {n} : old[m] = d[m]
  BY <1>2, SignalsAssumption DEF Sessions
<1>4. new[n].expr = q.expr /\ new[n] # None /\ \A m \in Names \ {n} : new[m] = d[m]
  BY SignalsAssumption DEF Sessions
<1>5. \A m \in Names : RefsIn(new, m) = RefsIn(old, m)
  BY <1>3, <1>4 DEF RefsIn
<1> HIDE DEF old
<1>6. PICK S \in SUBSET Names : n \in S /\ Clear(old, S)
  BY <1>1, <1>3, SortedClear
<1>7. Clear(new, S)
  BY <1>5, <1>6 DEF Clear, NoCyclesIn
<1> QED
  BY <1>4, <1>6, <1>7, EditNoCycles

LEMMA DeleteNoCycles ==
    ASSUME NEW d \in Sessions, NoCycles(d), NEW n \in Names
    PROVE  NoCycles([d EXCEPT ![n] = None])
<1> DEFINE new == [d EXCEPT ![n] = None]
<1>1. new \in Sessions /\ new[n] = None /\ \A m \in Names \ {n} : new[m] = d[m]
  BY DEF Sessions
<1> HIDE DEF new
<1>2. Range(RefsIn(new, n)) = {}
  BY <1>1, NothingRefers
<1>3. Clear(new, {n})
  BY <1>2 DEF Clear, NoCyclesIn
<1>4. NoCycles(new)
  BY <1>1, <1>3, EditNoCycles
<1> QED
  BY <1>4 DEF new

(* A step that saves nothing and stages nothing.                           *)
LEMMA NoCyclesKept ==
    ASSUME NoCyclesAnywhere, defs' = defs,
           \A a \in Agents : pc'[a] = "save" => pc[a] = "save" /\ copy'[a] = copy[a]
    PROVE  NoCyclesAnywhere'
BY DEF NoCyclesAnywhere

LEMMA StageNoCycles ==
    ASSUME IInv, NoCyclesAnywhere, NEW a \in Agents, NEW new, NoCycles(new),
           NEW kept, Stage(a, new, kept)
    PROVE  NoCyclesAnywhere'
<1>1. /\ defs' = defs /\ copy'[a] = new
      /\ \A b \in Agents \ {a} : pc'[b] = pc[b] /\ copy'[b] = copy[b]
  BY DEF IInv, TypeOK, Stage, Goto
<1> QED
  BY <1>1 DEF NoCyclesAnywhere

LEMMA EditsNoCycles ==
    ASSUME IInv, NoCyclesAnywhere, NEW a \in Agents, Create(a) \/ Update(a) \/ Delete(a)
    PROVE  NoCyclesAnywhere'
<1> DEFINE q == req[a]
           d == snap[a]
<1>1. pc[a] = "check" /\ d \in Sessions /\ d = defs /\ NoCycles(d) /\ q \in Requests
  BY DEF IInv, TypeOK, Mine, Current, Flow, NoCyclesAnywhere, Create, Update, Delete
<1>2. CASE Create(a)
  <2>1. PICK failed \in SUBSET Real :
          /\ CanCreate(NewDefinitions(q.new, d, failed), d)
          /\ Stage(a, WithNew(d, NewDefinitions(q.new, d, failed)), cache[Server(a)])
    BY <1>2 DEF Create
  <2> DEFINE made == NewDefinitions(q.new, d, failed)
  <2>2. q \in Creates /\ q.op = "create"
    BY <1>1, <1>2, RequestType DEF Create
  <2>3. WithNew(d, made) \in Sessions
    BY <1>1, <2>1, <2>2, CreateKeeps
  <2>4. DOMAIN made \subseteq Names
    BY <2>2 DEF Creates, NewDefinitions
  <2>5. NoCycles(WithNew(d, made))
    <3> HIDE DEF made, d, q
    <3> QED
      BY <1>1, <2>1, <2>3, <2>4, CreateNoCycles DEF made
  <2> QED
    BY <2>1, <2>5, StageNoCycles
<1>3. CASE Update(a)
  <2>1. q.op = "update" /\ q.name \in Names /\ q.expr \in Exprs /\ CanUpdate(q, d)
    BY <1>1, <1>3, RequestType DEF Update, Updates
  <2>2. CASE Stage(a, d, cache[Server(a)])
    BY <1>1, <2>2, StageNoCycles
  <2>3. ASSUME q.expr # d[q.name].expr, NEW failed \in SUBSET Real,
               Stage(a, [d EXCEPT ![q.name] = [expr |-> q.expr, width |-> Infer(q.expr, d, failed)]],
                     Invalidate(a, q.name))
        PROVE  NoCyclesAnywhere'
    <3> DEFINE w == Infer(q.expr, d, failed)
               new == [d EXCEPT ![q.name] = [expr |-> q.expr, width |-> w]]
    <3>1. [expr |-> q.expr, width |-> w] \in Definitions
      BY <2>1, InferType
    <3>2. NoCycles(new)
      <4> HIDE DEF w, d, q
      <4> QED
        BY <1>1, <2>1, <2>3, <3>1, UpdateNoCycles
    <3> QED
      BY <2>3, <3>2, StageNoCycles
  <2> QED
    BY <1>3, <2>2, <2>3 DEF Update
<1>4. CASE Delete(a)
  <2>1. q.name \in Names
    BY <1>1, <1>4, RequestType DEF Delete
  <2>2. NoCycles([d EXCEPT ![q.name] = None])
    BY <1>1, <2>1, DeleteNoCycles
  <2> QED
    BY <1>4, <2>2, StageNoCycles DEF Delete
<1> QED
  BY <1>2, <1>3, <1>4

LEMMA DeliverSteps ==
    ASSUME IInv, NEW a \in Agents, NEW v, Deliver(a, v)
    PROVE  /\ pc'[a] \in {"idle", pc[a]}
           /\ \A b \in Agents \ {a} : pc'[b] = pc[b] /\ copy'[b] = copy[b] /\ snap'[b] = snap[b]
                                      /\ stack'[b] = stack[b]
           /\ pc'[a] # "idle" => /\ Len(stack[a]) # 1 /\ copy'[a] = copy[a] /\ snap'[a] = snap[a]
                                 /\ stack' = [stack EXCEPT ![a] = Got(Front(stack[a]), v)]
BY ReturnsType DEF IInv, TypeOK, Deliver

LEMMA NoCyclesStep == IInv /\ NoCyclesAnywhere /\ [Next]_vars => NoCyclesAnywhere'
<1> SUFFICES ASSUME IInv, NoCyclesAnywhere, [Next]_vars
             PROVE  NoCyclesAnywhere'
  OBVIOUS
<1> USE DEF Goto
<1>0. TypeOK
  BY DEF IInv
<1>1. ASSUME NEW a \in Agents, NEW q \in Requests, Call(a, q)
      PROVE  NoCyclesAnywhere'
  BY <1>0, <1>1, NoCyclesKept DEF Call, TypeOK
<1>2. ASSUME NEW a \in Agents, Load(a)
      PROVE  NoCyclesAnywhere'
  BY <1>0, <1>2, NoCyclesKept DEF Load, TypeOK
<1>3. ASSUME NEW a \in Agents, Create(a) \/ Update(a) \/ Delete(a)
      PROVE  NoCyclesAnywhere'
  BY <1>3, EditsNoCycles
<1>4. ASSUME NEW a \in Agents, Refuse(a)
      PROVE  NoCyclesAnywhere'
  BY <1>0, <1>4, ReturnsType, NoCyclesKept DEF Refuse
<1>5. ASSUME NEW a \in Agents, Save(a)
      PROVE  NoCyclesAnywhere'
  <2>1. /\ defs' = copy[a] /\ NoCycles(copy[a]) /\ pc'[a] = "idle"
        /\ \A b \in Agents \ {a} : pc'[b] = pc[b] /\ copy'[b] = copy[b]
    BY <1>0, <1>5, ReturnsType DEF Save, NoCyclesAnywhere
  <2> QED
    BY <2>1 DEF NoCyclesAnywhere
<1>6. ASSUME NEW a \in Agents, Read(a)
      PROVE  NoCyclesAnywhere'
  <2>1. CASE Returns(a)
    BY <1>0, <1>6, <2>1, ReturnsType, NoCyclesKept DEF Read
  <2>2. CASE ~Returns(a)
    BY <1>0, <1>6, <2>2, NoCyclesKept DEF Read, TypeOK
  <2> QED
    BY <2>1, <2>2
<1>7. ASSUME NEW a \in Agents, NEW v, Deliver(a, v), defs' = defs, pc[a] = "eval"
      PROVE  NoCyclesAnywhere'
  BY <1>7, DeliverSteps, NoCyclesKept
<1>8. ASSUME NEW a \in Agents, LookUp(a)
      PROVE  NoCyclesAnywhere'
  BY <1>0, <1>7, <1>8, NoCyclesKept DEF LookUp, TypeOK
<1>9. ASSUME NEW a \in Agents, Descend(a) \/ Fetch(a)
      PROVE  NoCyclesAnywhere'
  BY <1>0, <1>9, NoCyclesKept DEF Descend, Fetch, TypeOK
<1>10. ASSUME NEW a \in Agents, FetchTooMany(a)
      PROVE  NoCyclesAnywhere'
  BY <1>0, <1>10, ReturnsType, NoCyclesKept DEF FetchTooMany
<1>11. ASSUME NEW a \in Agents, Finish(a)
      PROVE  NoCyclesAnywhere'
  BY <1>7, <1>11 DEF Finish
<1>12. ASSUME NEW s \in Servers, Crash(s)
      PROVE  NoCyclesAnywhere'
  BY <1>0, <1>12, NoCyclesKept DEF Crash, TypeOK
<1>13. CASE UNCHANGED vars
  BY <1>13, NoCyclesKept DEF vars, locals
<1> QED
  BY <1>1, <1>2, <1>3, <1>4, <1>5, <1>6, <1>8, <1>9, <1>10, <1>11, <1>12, <1>13 DEF Next

LEMMA NoCyclesInit == Init => NoCyclesAnywhere
BY NoDefinitionsNoCycles DEF Init, NoCyclesAnywhere

(* However agents create, update and delete signals, no signal ever        *)
(* depends on itself: _topological_sort before every save is enough.       *)
THEOREM NoSignalDependsOnItself == Spec => []Acyclic
<1>1. Init => NoCyclesAnywhere
  BY NoCyclesInit
<1>2. IInv /\ NoCyclesAnywhere /\ [Next]_vars => NoCyclesAnywhere'
  BY NoCyclesStep
<1>3. NoCyclesAnywhere => Acyclic
  BY NoCyclesAcyclic DEF NoCyclesAnywhere, Acyclic
<1> QED
  BY <1>1, <1>2, <1>3, SignalsInvariant, PTL DEF Spec

(* A value of the signal n, computed from the definitions d alone: what    *)
(* went into it are expressions of d, of signals on which n depends.       *)
ComputedFrom(d, n, v) ==
    \A m \in Names : \A x \in Exprs :
        <<m, x>> \in v => d[m] # None /\ d[m].expr = x /\ n \in WithDependents(d, m)

LEMMA ComputedHere ==
    ASSUME NEW d, NEW n \in Names, d[n] # None
    PROVE  ComputedFrom(d, n, {<<n, d[n].expr>>})
BY DependentsFound DEF ComputedFrom

LEMMA ComputedAbove ==
    ASSUME NEW d, NEW n \in Names, NEW k \in Names, DependsOn(d, n, k), NEW v, ComputedFrom(d, k, v)
    PROVE  ComputedFrom(d, n, v)
BY DependentsFound DEF ComputedFrom

LEMMA ComputedBoth ==
    ASSUME NEW d, NEW n, NEW u, ComputedFrom(d, n, u), NEW v, ComputedFrom(d, n, v)
    PROVE  ComputedFrom(d, n, u \cup v)
BY DEF ComputedFrom

(* What is read from the waveform is no expression.                        *)
LEMMA ComputedFetched ==
    ASSUME NEW d, NEW n, NEW k, NEW src \in {"recorded", "missing"}
    PROVE  ComputedFrom(d, n, {<<k, src>>})
BY SignalsAssumption DEF ComputedFrom

(* New signals take nothing away.                                          *)
LEMMA ComputedStaysCreate ==
    ASSUME NEW d \in Sessions, NEW new \in Sessions, NEW n \in Names, NEW v, ComputedFrom(d, n, v),
           \A m \in Names : d[m] # None => new[m] = d[m]
    PROVE  ComputedFrom(new, n, v)
<1> SUFFICES ASSUME NEW m \in Names, NEW x \in Exprs, <<m, x>> \in v
             PROVE  new[m] # None /\ new[m].expr = x /\ n \in WithDependents(new, m)
  BY DEF ComputedFrom
<1>1. d[m] # None /\ d[m].expr = x /\ n \in WithDependents(d, m)
  BY DEF ComputedFrom
<1> DEFINE T == WithDependents(new, m)
<1>2. m \in T /\ \A k \in T : \A j \in Names : DependsOn(new, j, k) => j \in T
  BY DependentsFound
<1>3. \A j \in Names : \A k : DependsOn(d, j, k) => DependsOn(new, j, k)
  <2> SUFFICES ASSUME NEW j \in Names, NEW k, DependsOn(d, j, k)
               PROVE  DependsOn(new, j, k)
    OBVIOUS
  <2>1. d[j] # None
    BY NothingRefers DEF DependsOn
  <2> QED
    BY <2>1 DEF DependsOn, RefsIn
<1>4. WithDependents(d, m) \subseteq T
  <2>1. \A k \in T : \A j \in Names : DependsOn(d, j, k) => j \in T
    BY <1>2, <1>3
  <2> HIDE DEF T
  <2> QED
    BY <1>2, <2>1, DependentsOnly
<1> QED
  BY <1>1, <1>4

(* A change of one signal concerns it and its dependents only.             *)
LEMMA ComputedStaysEdit ==
    ASSUME NEW d \in Sessions, NEW new \in Sessions, NEW n \in Names, NEW v, ComputedFrom(d, n, v),
           NEW c \in Names, n \notin WithDependents(d, c),
           \A m \in Names \ {c} : new[m] = d[m]
    PROVE  ComputedFrom(new, n, v)
<1> SUFFICES ASSUME NEW m \in Names, NEW x \in Exprs, <<m, x>> \in v
             PROVE  new[m] # None /\ new[m].expr = x /\ n \in WithDependents(new, m)
  BY DEF ComputedFrom
<1>1. d[m] # None /\ d[m].expr = x /\ n \in WithDependents(d, m) /\ m # c
  BY DEF ComputedFrom
<1> DEFINE T == WithDependents(new, m) \cup WithDependents(d, c)
<1>2. \A j \in Names \ {c} : \A k : DependsOn(d, j, k) => DependsOn(new, j, k)
  BY DEF DependsOn, RefsIn
<1>3. /\ m \in T
      /\ \A k \in T : \A j \in Names : DependsOn(d, j, k) => j \in T
  <2>1. /\ m \in WithDependents(new, m) /\ c \in WithDependents(d, c)
        /\ \A k \in WithDependents(new, m) : \A j \in Names :
             DependsOn(new, j, k) => j \in WithDependents(new, m)
        /\ \A k \in WithDependents(d, c) : \A j \in Names :
             DependsOn(d, j, k) => j \in WithDependents(d, c)
    BY DependentsFound
  <2> QED
    BY <1>2, <2>1
<1>4. WithDependents(d, m) \subseteq T
  <2> HIDE DEF T
  <2> QED
    BY <1>3, DependentsOnly
<1> QED
  BY <1>1, <1>4

-----------------------------------------------------------------------------
(* The evaluations under way compute from d: each has so far, and will ask *)
(* for nothing but its operands, of which the next one in the stack is one.*)
FrameFrom(s, i, d) ==
    /\ ComputedFrom(d, s[i].name, s[i].got)
    /\ Range(s[i].todo) \subseteq Range(RefsIn(d, s[i].name))
    /\ i > 1 => DependsOn(d, s[i - 1].name, s[i].name)

StackFrom(s, d) == \A i \in 1..Len(s) : FrameFrom(s, i, d)

LEMMA LinksChanged ==
    ASSUME NEW s \in Seq(Frames), NEW d, StackFrom(s, d), NEW i \in 1..Len(s), NEW f \in Frames,
           f.name = s[i].name, ComputedFrom(d, f.name, f.got),
           Range(f.todo) \subseteq Range(s[i].todo)
    PROVE  StackFrom([s EXCEPT ![i] = f], d)
<1> DEFINE t == [s EXCEPT ![i] = f]
<1>1. Len(t) = Len(s) /\ \A j \in 1..Len(s) : t[j] = IF j = i THEN f ELSE s[j]
  OBVIOUS
<1> HIDE DEF t
<1> SUFFICES ASSUME NEW j \in 1..Len(t)
             PROVE  FrameFrom(t, j, d)
  BY DEF StackFrom, t
<1>2. FrameFrom(s, j, d) /\ FrameFrom(s, i, d)
  BY <1>1 DEF StackFrom
<1>3. t[j].name = s[j].name
  BY <1>1
<1>4. ASSUME j > 1
      PROVE  DependsOn(d, t[j - 1].name, t[j].name)
  <2>1. j - 1 \in 1..Len(s) /\ DependsOn(d, s[j - 1].name, s[j].name)
    BY <1>1, <1>2, <1>4 DEF FrameFrom
  <2>2. t[j - 1].name = s[j - 1].name
    BY <1>1, <2>1
  <2> QED
    BY <1>3, <2>1, <2>2
<1> QED
  BY <1>1, <1>2, <1>4 DEF FrameFrom

LEMMA LinksGot ==
    ASSUME NEW s \in Seq(Frames), s # <<>>, NEW d, StackFrom(s, d), NEW v \in Values,
           ComputedFrom(d, s[Len(s)].name, v)
    PROVE  StackFrom(Got(s, v), d)
<1> DEFINE f == [s[Len(s)] EXCEPT !.got = @ \cup v]
<1>1. Len(s) \in 1..Len(s) /\ s[Len(s)] \in Frames
  OBVIOUS
<1>2. s[Len(s)].got \cup v \in Values
  BY <1>1 DEF Frames, Values
<1>3. /\ f \in Frames /\ f.name = s[Len(s)].name /\ f.todo = s[Len(s)].todo
      /\ f.got = s[Len(s)].got \cup v
  BY <1>1, <1>2 DEF Frames
<1>4. Got(s, v) = [s EXCEPT ![Len(s)] = f]
  BY DEF Got
<1> HIDE DEF f
<1>5. ComputedFrom(d, f.name, f.got)
  BY <1>1, <1>3, ComputedBoth DEF StackFrom, FrameFrom
<1>6. StackFrom([s EXCEPT ![Len(s)] = f], d)
  BY <1>1, <1>3, <1>5, LinksChanged
<1> QED
  BY <1>4, <1>6

LEMMA LinksTaken ==
    ASSUME NEW s \in Seq(Frames), s # <<>>, NEW d, StackFrom(s, d), s[Len(s)].todo # <<>>
    PROVE  /\ StackFrom(Taken(s), d) /\ Len(Taken(s)) = Len(s)
           /\ Taken(s)[Len(s)].name = s[Len(s)].name
           /\ DependsOn(d, s[Len(s)].name, Head(s[Len(s)].todo))
<1> DEFINE f == [s[Len(s)] EXCEPT !.todo = Tail(@)]
           todo == s[Len(s)].todo
<1>1. Len(s) \in 1..Len(s) /\ s[Len(s)] \in Frames /\ todo \in Seq(Names)
  <2>1. Len(s) \in 1..Len(s) /\ s[Len(s)] \in Frames
    OBVIOUS
  <2> QED
    BY <2>1 DEF Frames
<1>2. FrameFrom(s, Len(s), d)
  BY <1>1 DEF StackFrom
<1>3. Tail(todo) \in Seq(Names) /\ Head(todo) \in Range(todo) /\ Range(Tail(todo)) \subseteq Range(todo)
  <2> HIDE DEF todo
  <2>1. todo # <<>> /\ todo \in Seq(Names)
    BY <1>1 DEF todo
  <2>2. Tail(todo) \in Seq(Names) /\ Len(Tail(todo)) = Len(todo) - 1
        /\ \A j \in 1..Len(Tail(todo)) : Tail(todo)[j] = todo[j + 1]
    BY <2>1
  <2>3. Head(todo) = todo[1] /\ 1 \in DOMAIN todo
    BY <2>1
  <2>4. \A j \in DOMAIN Tail(todo) : Tail(todo)[j] = todo[j + 1] /\ j + 1 \in DOMAIN todo
    BY <2>1, <2>2
  <2> QED
    BY <2>2, <2>3, <2>4 DEF Range
<1>4. /\ f \in Frames /\ f.name = s[Len(s)].name /\ f.got = s[Len(s)].got /\ f.todo = Tail(todo)
  BY <1>1, <1>3 DEF Frames
<1>5. Taken(s) = [s EXCEPT ![Len(s)] = f]
  BY DEF Taken
<1> HIDE DEF f
<1>6. StackFrom([s EXCEPT ![Len(s)] = f], d)
  BY <1>1, <1>2, <1>3, <1>4, LinksChanged DEF FrameFrom
<1>7. DependsOn(d, s[Len(s)].name, Head(todo))
  BY <1>2, <1>3 DEF FrameFrom, DependsOn
<1>8. Len([s EXCEPT ![Len(s)] = f]) = Len(s) /\ [s EXCEPT ![Len(s)] = f][Len(s)] = f
  BY <1>1
<1> QED
  BY <1>4, <1>5, <1>6, <1>7, <1>8

LEMMA LinksPushed ==
    ASSUME NEW s \in Seq(Frames), s # <<>>, NEW d, StackFrom(s, d), NEW f \in Frames,
           ComputedFrom(d, f.name, f.got), Range(f.todo) \subseteq Range(RefsIn(d, f.name)),
           DependsOn(d, s[Len(s)].name, f.name)
    PROVE  StackFrom(Append(s, f), d)
<1> DEFINE t == Append(s, f)
<1>1. /\ Len(s) \in Nat \ {0} /\ Len(t) = Len(s) + 1 /\ t[Len(s) + 1] = f
      /\ \A j \in 1..Len(s) : t[j] = s[j]
  OBVIOUS
<1> HIDE DEF t
<1> SUFFICES ASSUME NEW j \in 1..Len(t)
             PROVE  FrameFrom(t, j, d)
  BY DEF StackFrom, t
<1>2. CASE j = Len(s) + 1
  <2>1. t[j] = f /\ t[j - 1] = s[Len(s)]
    BY <1>1, <1>2
  <2> QED
    BY <2>1 DEF FrameFrom
<1>3. CASE j # Len(s) + 1
  <2>1. j \in 1..Len(s) /\ t[j] = s[j] /\ (j > 1 => t[j - 1] = s[j - 1])
    BY <1>1, <1>3
  <2>2. FrameFrom(s, j, d)
    BY <2>1 DEF StackFrom
  <2> QED
    BY <2>1, <2>2 DEF FrameFrom
<1> QED
  BY <1>2, <1>3

LEMMA LinksPopped ==
    ASSUME NEW s \in Seq(Frames), s # <<>>, Len(s) # 1, NEW d, StackFrom(s, d)
    PROVE  /\ Front(s) \in Seq(Frames) /\ Front(s) # <<>> /\ StackFrom(Front(s), d)
           /\ DependsOn(d, Front(s)[Len(Front(s))].name, s[Len(s)].name)
           /\ Front(s)[Len(Front(s))].name \in Names /\ s[Len(s)].name \in Names
<1> DEFINE t == Front(s)
<1>1. Len(s) \in Nat /\ Len(s) > 1
  <2>1. Len(s) \in Nat \ {0}
    OBVIOUS
  <2>2. \A k \in Nat \ {0} : k # 1 => k > 1
    OBVIOUS
  <2> QED
    BY <2>1, <2>2
<1>2. /\ t \in Seq(Frames) /\ Len(t) = Len(s) - 1
      /\ \A i \in 1..(Len(s) - 1) : t[i] = s[i]
  BY <1>1 DEF Front
<1> HIDE DEF t
<1>3. t # <<>>
  BY <1>1, <1>2
<1>4. ASSUME NEW j \in 1..Len(t)
      PROVE  FrameFrom(t, j, d)
  <2>1. j \in 1..Len(s) /\ t[j] = s[j] /\ (j > 1 => t[j - 1] = s[j - 1])
    BY <1>1, <1>2
  <2>2. FrameFrom(s, j, d)
    BY <2>1 DEF StackFrom
  <2> QED
    BY <2>1, <2>2 DEF FrameFrom
<1>5. t[Len(t)] = s[Len(s) - 1] /\ FrameFrom(s, Len(s), d)
  BY <1>1, <1>2 DEF StackFrom
<1>6. s[Len(s) - 1] \in Frames /\ s[Len(s)] \in Frames
  BY <1>1
<1>7. DependsOn(d, s[Len(s) - 1].name, s[Len(s)].name)
  BY <1>1, <1>5 DEF FrameFrom
<1> QED
  BY <1>2, <1>3, <1>4, <1>5, <1>6, <1>7 DEF StackFrom, Frames, t

(* A new evaluation has computed nothing but its own expression.           *)
LEMMA FrameFresh ==
    ASSUME NEW d \in Sessions, NEW n \in Names, d[n] # None
    PROVE  /\ Frame(n, d) \in Frames /\ Frame(n, d).name = n
           /\ ComputedFrom(d, n, Frame(n, d).got)
           /\ Range(Frame(n, d).todo) \subseteq Range(RefsIn(d, n))
BY FrameNew, ComputedHere DEF Frame, RefsIn

(* What is put in the cache is all that is new in it.                      *)
LEMMA PutFrom ==
    ASSUME NEW c \in SUBSET CacheEntries, IsFiniteSet(c), Cardinality(c) <= MaxCache, NEW d,
           \A e \in c : ComputedFrom(d, e.name, e.value),
           NEW n \in Names, NEW x \in Exprs, NEW v \in Values, ComputedFrom(d, n, v)
    PROVE  \A e \in Put(c, n, x, v) : ComputedFrom(d, e.name, e.value)
<1> DEFINE room == MakeRoom(c)
           same == {e \in room : e.name = n /\ e.expr = x}
           new == [name |-> n, expr |-> x, value |-> v, age |-> 0]
<1>1. room \subseteq c
  BY RoomMade
<1> HIDE DEF room
<1>2. CASE same = {}
  <2>1. Put(c, n, x, v) = {Older(e) : e \in room} \cup {new}
    BY <1>2 DEF Put, room
  <2>2. \A e \in room : ComputedFrom(d, Older(e).name, Older(e).value)
    BY <1>1, EntryChanged
  <2> QED
    BY <2>1, <2>2
<1>3. CASE same # {}
  <2>1. Put(c, n, x, v) = (room \ same) \cup {[e EXCEPT !.value = v] : e \in same}
    BY <1>3 DEF Put, room
  <2>2. \A e \in same : [e EXCEPT !.value = v].name = n /\ [e EXCEPT !.value = v].value = v
    BY <1>1, EntryChanged
  <2>3. \A e \in {[o EXCEPT !.value = v] : o \in same} : ComputedFrom(d, e.name, e.value)
    BY <2>2
  <2> QED
    BY <1>1, <2>1, <2>3
<1> QED
  BY <1>2, <1>3

(* Of an agent that is alone and edits alone: its cache holds what the     *)
(* file's definitions compute, and once it has staged an edit also what    *)
(* the edited ones compute; its evaluations read what the file still holds.*)
CacheFrom(a, d) == \A e \in cache[Server(a)] : ComputedFrom(d, e.name, e.value)

Undisturbed(a) ==
    /\ CacheFrom(a, defs)
    /\ pc[a] = "save" => CacheFrom(a, copy[a])
    /\ pc[a] = "eval" => snap[a] = defs /\ StackFrom(stack[a], defs)

AloneUndisturbed == \A a \in Agents : Alone(a) /\ editors \subseteq {a} => Undisturbed(a)

(* A step of another agent saves nothing and has another cache.            *)
LEMMA OtherUndisturbed ==
    ASSUME NEW a, Undisturbed(a), defs' = defs, cache'[Server(a)] \subseteq cache[Server(a)],
           pc'[a] = pc[a], copy'[a] = copy[a], snap'[a] = snap[a], stack'[a] = stack[a]
    PROVE  Undisturbed(a)'
BY DEF Undisturbed, CacheFrom

LEMMA IdleUndisturbed ==
    ASSUME NEW a, Undisturbed(a), defs' = defs, cache'[Server(a)] \subseteq cache[Server(a)],
           pc'[a] \notin {"save", "eval"}
    PROVE  Undisturbed(a)'
BY DEF Undisturbed, CacheFrom

LEMMA StageUndisturbed ==
    ASSUME IInv, NEW a \in Agents, Undisturbed(a), NEW new, NEW kept \in SUBSET cache[Server(a)],
           Stage(a, new, kept), \A e \in kept : ComputedFrom(new, e.name, e.value)
    PROVE  Undisturbed(a)'
<1>1. /\ defs' = defs /\ copy'[a] = new /\ pc'[a] = "save" /\ cache'[Server(a)] = kept
  <2>1. Server(a) \in Servers
    BY DEF Servers
  <2> QED
    BY <2>1 DEF IInv, TypeOK, Stage, Goto
<1> QED
  BY <1>1 DEF Undisturbed, CacheFrom

LEMMA EditsUndisturbed ==
    ASSUME IInv, NEW a \in Agents, Undisturbed(a), Create(a) \/ Update(a) \/ Delete(a)
    PROVE  Undisturbed(a)'
<1> DEFINE q == req[a]
           d == snap[a]
           c == cache[Server(a)]
<1>1. /\ pc[a] = "check" /\ d \in Sessions /\ d = defs /\ q \in Requests /\ Server(a) \in Servers
      /\ c \in SUBSET CacheEntries
  BY DEF IInv, TypeOK, Mine, Current, Flow, Servers, Create, Update, Delete
<1>2. \A e \in c : e.name \in Names /\ ComputedFrom(d, e.name, e.value)
  BY <1>1 DEF Undisturbed, CacheFrom, CacheEntries
<1>3. Invalidate(a, q.name) \subseteq c
      /\ \A e \in Invalidate(a, q.name) : e.name \notin WithDependents(d, q.name)
  BY DEF Invalidate
<1>4. CASE Create(a)
  <2>1. PICK failed \in SUBSET Real :
          /\ CanCreate(NewDefinitions(q.new, d, failed), d)
          /\ Stage(a, WithNew(d, NewDefinitions(q.new, d, failed)), c)
    BY <1>4 DEF Create
  <2> DEFINE made == NewDefinitions(q.new, d, failed)
             new == WithNew(d, made)
  <2>2. new \in Sessions
    BY <1>1, <1>4, <2>1, CreateKeeps DEF Create
  <2>3. \A m \in Names : d[m] # None => new[m] = d[m]
    BY <2>1 DEF CanCreate, WithNew
  <2> HIDE DEF new, made
  <2>4. \A e \in c : ComputedFrom(new, e.name, e.value)
    <3> HIDE DEF c, d
    <3> QED
      BY <1>1, <1>2, <2>2, <2>3, ComputedStaysCreate
  <2> QED
    BY <2>1, <2>4, StageUndisturbed DEF new, made
<1>5. ASSUME NEW new \in Sessions, q.name \in Names, \A m \in Names \ {q.name} : new[m] = d[m],
             Stage(a, new, Invalidate(a, q.name))
      PROVE  Undisturbed(a)'
  <2>1. \A e \in Invalidate(a, q.name) : ComputedFrom(new, e.name, e.value)
    <3> HIDE DEF c, d, q
    <3> QED
      BY <1>1, <1>2, <1>3, <1>5, ComputedStaysEdit
  <2> QED
    BY <1>3, <1>5, <2>1, StageUndisturbed
<1>6. CASE Update(a)
  <2>1. q.op = "update" /\ q.name \in Names /\ q.expr \in Exprs
    BY <1>1, <1>6, RequestType DEF Update, Updates
  <2>2. CASE Stage(a, d, c)
    BY <1>2, <2>2, StageUndisturbed
  <2>3. ASSUME NEW failed \in SUBSET Real,
               Stage(a, [d EXCEPT ![q.name] = [expr |-> q.expr, width |-> Infer(q.expr, d, failed)]],
                     Invalidate(a, q.name))
        PROVE  Undisturbed(a)'
    <3> DEFINE new == [d EXCEPT ![q.name] = [expr |-> q.expr, width |-> Infer(q.expr, d, failed)]]
    <3>1. new \in Sessions
      BY <1>1, <2>1, UpdateKeeps
    <3>2. \A m \in Names \ {q.name} : new[m] = d[m]
      BY <1>1 DEF Sessions
    <3> HIDE DEF new
    <3> QED
      BY <1>5, <2>1, <2>3, <3>1, <3>2 DEF new
  <2> QED
    BY <1>6, <2>2, <2>3 DEF Update
<1>7. CASE Delete(a)
  <2> DEFINE new == [d EXCEPT ![q.name] = None]
  <2>1. q.name \in Names
    BY <1>1, <1>7, RequestType DEF Delete
  <2>2. new \in Sessions /\ \A m \in Names \ {q.name} : new[m] = d[m]
    BY <1>1 DEF Sessions
  <2>3. Stage(a, new, Invalidate(a, q.name))
    BY <1>7 DEF Delete
  <2> HIDE DEF new
  <2> QED
    BY <1>5, <2>1, <2>2, <2>3
<1> QED
  BY <1>4, <1>6, <1>7

(* An evaluation of an agent whose file nobody else changes.               *)
LEMMA DeliverUndisturbed ==
    ASSUME IInv, NEW a \in Agents, Undisturbed(a), pc[a] = "eval", NEW v \in Values, Deliver(a, v),
           ComputedFrom(defs, Last(stack[a]).name, v), defs' = defs,
           \A e \in cache'[Server(a)] : ComputedFrom(defs, e.name, e.value)
    PROVE  Undisturbed(a)'
<1> DEFINE s == stack[a]
           d == defs
<1>1. s \in Seq(Frames) /\ StackOK(s, snap[a]) /\ snap[a] = d /\ StackFrom(s, d)
  BY DEF IInv, TypeOK, Mine, Flow, Undisturbed
<1>2. s # <<>> /\ Last(s) = s[Len(s)]
  BY <1>1, LastFrame DEF StackOK
<1>3. CASE pc'[a] = "idle"
  BY <1>3 DEF Undisturbed, CacheFrom
<1>4. CASE pc'[a] # "idle"
  <2>1. /\ pc'[a] = "eval" /\ Len(s) # 1 /\ snap'[a] = d
        /\ stack' = [stack EXCEPT ![a] = Got(Front(s), v)]
    BY <1>1, <1>4, DeliverSteps
  <2> DEFINE t == Front(s)
  <2>2. /\ t \in Seq(Frames) /\ t # <<>> /\ StackFrom(t, d)
        /\ DependsOn(d, t[Len(t)].name, s[Len(s)].name)
        /\ t[Len(t)].name \in Names /\ s[Len(s)].name \in Names
    BY <1>1, <1>2, <2>1, LinksPopped
  <2>3. ComputedFrom(d, t[Len(t)].name, v)
    <3> HIDE DEF t
    <3> QED
      BY <1>2, <2>2, ComputedAbove
  <2>4. StackFrom(Got(t, v), d)
    <3> HIDE DEF t
    <3> QED
      BY <2>2, <2>3, LinksGot
  <2>5. stack'[a] = Got(t, v)
    BY <2>1 DEF IInv, TypeOK
  <2> HIDE DEF t, s
  <2> QED
    BY <2>1, <2>4, <2>5 DEF Undisturbed, CacheFrom
<1> QED
  BY <1>3, <1>4

LEMMA StackUndisturbed ==
    ASSUME IInv, NEW a \in Agents, Undisturbed(a), pc[a] = "eval",
           NEW s, StackFrom(s, defs), stack' = [stack EXCEPT ![a] = s],
           UNCHANGED <<defs, pc, snap, copy, cache>>
    PROVE  Undisturbed(a)'
<1>1. stack'[a] = s
  BY DEF IInv, TypeOK
<1> QED
  BY <1>1 DEF Undisturbed, CacheFrom

LEMMA EvaluationUndisturbed ==
    ASSUME IInv, NEW a \in Agents, Undisturbed(a),
           LookUp(a) \/ Descend(a) \/ Fetch(a) \/ Finish(a)
    PROVE  Undisturbed(a)'
<1> DEFINE s == stack[a]
           f == s[Len(s)]
           d == defs
           c == cache[Server(a)]
<1>1. /\ pc[a] = "eval" /\ s \in Seq(Frames) /\ StackOK(s, d) /\ snap[a] = d /\ StackFrom(s, d)
      /\ d \in Sessions /\ Server(a) \in Servers /\ c \in SUBSET CacheEntries /\ IsFiniteSet(c)
      /\ Cardinality(c) <= MaxCache
  BY DEF IInv, TypeOK, Mine, Flow, Undisturbed, Servers, LookUp, Descend, Fetch, Finish
<1>2. /\ Len(s) \in 1..Len(s) /\ Last(s) = f /\ f \in Frames /\ s # <<>> /\ FrameFrom(s, Len(s), d)
      /\ d[f.name] # None
  BY <1>1, LastFrame DEF StackOK, StackFrom, FrameOK
<1>3. /\ f.name \in Names /\ f.got \in Values /\ ComputedFrom(d, f.name, f.got)
      /\ d[f.name].expr \in Exprs
  BY <1>1, <1>2, DefinitionType DEF Frames, FrameFrom
<1>4. \A e \in c : ComputedFrom(d, e.name, e.value) /\ e.value \in Values
  BY <1>1 DEF Undisturbed, CacheFrom, CacheEntries
<1> HIDE DEF f, c, s
<1>5. CASE LookUp(a)
  <2>1. CASE /\ stack' = [stack EXCEPT ![a][Len(stack[a])].looked = TRUE]
             /\ UNCHANGED <<pc, req, snap, copy, answer>>
    <3> DEFINE g == [f EXCEPT !.looked = TRUE]
               t == [s EXCEPT ![Len(s)] = g]
    <3>1. g \in Frames /\ g.name = f.name /\ g.got = f.got /\ g.todo = f.todo
      BY <1>2 DEF Frames
    <3>2. stack' = [stack EXCEPT ![a] = t]
      BY <2>1 DEF f, s
    <3> HIDE DEF g
    <3>3. StackFrom(t, d)
      BY <1>1, <1>2, <1>3, <3>1, LinksChanged DEF f
    <3> HIDE DEF t
    <3> QED
      BY <1>1, <1>5, <2>1, <3>2, <3>3, StackUndisturbed DEF LookUp
  <2>2. ASSUME NEW e \in c, Matches(e, a, f.name), Deliver(a, e.value)
        PROVE  Undisturbed(a)'
    <3>1. e.name = f.name /\ UNCHANGED <<defs, cache>>
      BY <1>5, <2>2 DEF Matches, LookUp
    <3> QED
      BY <1>1, <1>2, <1>4, <2>2, <3>1, DeliverUndisturbed DEF s, c
  <2> QED
    BY <1>2, <1>5, <2>1, <2>2 DEF LookUp, s, c
<1>6. CASE Descend(a)
  <2> DEFINE n == Head(f.todo)
             h == Frame(n, d)
             t == Taken(s)
  <2>1. /\ stack' = [stack EXCEPT ![a] = Append(t, h)] /\ f.todo # <<>> /\ d[n] # None
        /\ UNCHANGED <<defs, pc, snap, copy, cache>>
    BY <1>1, <1>2, <1>6 DEF Descend, s
  <2>2. t \in Seq(Frames) /\ StackOK(t, d) /\ n \in Names
    BY <1>1, <2>1, TakenOK DEF f
  <2>3. /\ StackFrom(t, d) /\ Len(t) = Len(s) /\ t[Len(s)].name = f.name
        /\ DependsOn(d, f.name, n)
    BY <1>1, <1>2, <2>1, LinksTaken DEF f
  <2>4. /\ h \in Frames /\ h.name = n /\ ComputedFrom(d, n, h.got)
        /\ Range(h.todo) \subseteq Range(RefsIn(d, n))
    BY <1>1, <2>1, <2>2, FrameFresh
  <2> HIDE DEF h, n, t
  <2>5. StackFrom(Append(t, h), d)
    BY <2>2, <2>3, <2>4, LinksPushed DEF StackOK
  <2> QED
    BY <1>1, <2>1, <2>5, StackUndisturbed
<1>7. CASE Fetch(a)
  <2> DEFINE n == Head(f.todo)
             t == Taken(s)
  <2>1. f.todo # <<>> /\ UNCHANGED <<defs, pc, snap, copy, cache>>
    BY <1>2, <1>7 DEF Fetch, s
  <2>2. PICK src \in {"recorded", "missing"} : stack' = [stack EXCEPT ![a] = Got(t, {<<n, src>>})]
    BY <1>2, <1>7 DEF Fetch, s
  <2>3. t \in Seq(Frames) /\ StackOK(t, d) /\ n \in Names
    BY <1>1, <2>1, TakenOK DEF f
  <2>4. StackFrom(t, d) /\ t # <<>>
    BY <1>1, <1>2, <2>1, <2>3, LinksTaken DEF f, StackOK
  <2>5. {<<n, src>>} \in Values /\ ComputedFrom(d, t[Len(t)].name, {<<n, src>>})
    <3> HIDE DEF n, t
    <3>1. {<<n, src>>} \in Values
      BY <2>3 DEF Values, Sources
    <3>2. ComputedFrom(d, t[Len(t)].name, {<<n, src>>})
      BY ComputedFetched
    <3> QED
      BY <3>1, <3>2
  <2> HIDE DEF n, t
  <2>6. StackFrom(Got(t, {<<n, src>>}), d)
    BY <2>3, <2>4, <2>5, LinksGot
  <2> QED
    BY <1>1, <2>1, <2>2, <2>6, StackUndisturbed
<1>8. CASE Finish(a)
  <2> DEFINE x == d[f.name].expr
             p == Put(c, f.name, x, f.got)
  <2>1. Deliver(a, f.got) /\ defs' = defs /\ (cache' = cache \/ cache' = [cache EXCEPT ![Server(a)] = p])
    BY <1>1, <1>2, <1>8 DEF Finish, s, c
  <2>2. \A e \in p : ComputedFrom(d, e.name, e.value)
    <3> HIDE DEF x
    <3> QED
      BY <1>1, <1>3, <1>4, PutFrom DEF x
  <2> HIDE DEF p
  <2>3. cache'[Server(a)] = c \/ cache'[Server(a)] = p
    <3>1. cache \in [Servers -> SUBSET CacheEntries]
      BY DEF IInv, TypeOK
    <3> QED
      BY <1>1, <2>1, <3>1 DEF c
  <2>4. \A e \in cache'[Server(a)] : ComputedFrom(d, e.name, e.value)
    BY <1>4, <2>2, <2>3
  <2> QED
    BY <1>1, <1>2, <1>3, <2>1, <2>4, DeliverUndisturbed DEF s
<1> QED
  BY <1>5, <1>6, <1>7, <1>8

LEMMA AloneStep == IInv /\ AloneUndisturbed /\ [Next]_vars => AloneUndisturbed'
<1> SUFFICES ASSUME IInv, AloneUndisturbed, [Next]_vars,
                    NEW a \in Agents, Alone(a), editors' \subseteq {a}
             PROVE  Undisturbed(a)'
  BY DEF AloneUndisturbed, Alone
<1> USE DEF Goto
<1>0. TypeOK /\ Server(a) \in Servers /\ cache \in [Servers -> SUBSET CacheEntries]
  BY DEF IInv, TypeOK, Servers
<1>1. Undisturbed(a)
  <2>1. editors \subseteq editors'
    BY DEF Next, vars, bounds, Call, Load, Create, Update, Delete, Stage, Refuse, Save, Read, LookUp,
           Descend, Fetch, FetchTooMany, Finish, Crash
  <2> QED
    BY <2>1 DEF AloneUndisturbed
<1>2. ASSUME NEW b \in Agents, NEW q \in Requests, Call(b, q)
      PROVE  Undisturbed(a)'
  <2>1. defs' = defs /\ cache' = cache
    BY <1>2 DEF Call
  <2>2. CASE b = a
    BY <1>0, <1>1, <1>2, <2>1, <2>2, IdleUndisturbed DEF Call, TypeOK
  <2>3. CASE b # a
    BY <1>0, <1>1, <1>2, <2>1, <2>3, OtherUndisturbed DEF Call, TypeOK
  <2> QED
    BY <2>2, <2>3
<1>3. ASSUME NEW b \in Agents, Load(b)
      PROVE  Undisturbed(a)'
  <2>1. defs' = defs /\ cache' = cache
    BY <1>3 DEF Load
  <2>2. CASE b = a
    BY <1>0, <1>1, <1>3, <2>1, <2>2, IdleUndisturbed DEF Load, TypeOK
  <2>3. CASE b # a
    BY <1>0, <1>1, <1>3, <2>1, <2>3, OtherUndisturbed DEF Load, TypeOK
  <2> QED
    BY <2>2, <2>3
<1>4. ASSUME NEW b \in Agents, b # a, NEW new, NEW kept, Stage(b, new, kept)
      PROVE  Undisturbed(a)'
  <2>1. Server(b) # Server(a)
    BY <1>4 DEF Alone
  <2>2. defs' = defs /\ cache'[Server(a)] = cache[Server(a)]
    BY <1>0, <1>4, <2>1 DEF Stage
  <2> QED
    BY <1>0, <1>1, <1>4, <2>2, OtherUndisturbed DEF Stage, TypeOK
<1>5. ASSUME NEW b \in Agents, Create(b) \/ Update(b) \/ Delete(b)
      PROVE  Undisturbed(a)'
  <2>1. CASE b = a
    BY <1>1, <1>5, <2>1, EditsUndisturbed
  <2>2. CASE b # a
    BY <1>4, <1>5, <2>2 DEF Create, Update, Delete
  <2> QED
    BY <2>1, <2>2
<1>6. ASSUME NEW b \in Agents, Returns(b), defs' = defs, cache' = cache
      PROVE  Undisturbed(a)'
  <2>1. CASE b = a
    BY <1>0, <1>1, <1>6, <2>1, ReturnsType, IdleUndisturbed
  <2>2. CASE b # a
    BY <1>0, <1>1, <1>6, <2>2, ReturnsType, OtherUndisturbed
  <2> QED
    BY <2>1, <2>2
<1>7. ASSUME NEW b \in Agents, Refuse(b) \/ FetchTooMany(b)
      PROVE  Undisturbed(a)'
  BY <1>6, <1>7 DEF Refuse, FetchTooMany
<1>8. ASSUME NEW b \in Agents, Save(b)
      PROVE  Undisturbed(a)'
  <2>1. b = a
    BY <1>8 DEF Save
  <2>2. defs' = copy[a] /\ cache' = cache /\ pc[a] = "save" /\ pc'[a] = "idle"
    BY <1>0, <1>8, <2>1, ReturnsType DEF Save
  <2> QED
    BY <1>1, <2>2 DEF Undisturbed, CacheFrom
<1>9. ASSUME NEW b \in Agents, Read(b)
      PROVE  Undisturbed(a)'
  <2>1. defs' = defs /\ cache' = cache
    BY <1>9 DEF Read
  <2>2. CASE Returns(b)
    BY <1>6, <2>1, <2>2
  <2>3. CASE ~Returns(b)
    <3> DEFINE n == req[b].name
    <3>1. /\ pc[b] = "read" /\ defs[n] # None /\ snap' = [snap EXCEPT ![b] = defs]
          /\ stack' = [stack EXCEPT ![b] = <<Frame(n, defs)>>]
          /\ pc' = [pc EXCEPT ![b] = "eval"] /\ copy' = copy
      BY <1>9, <2>3 DEF Read
    <3>2. CASE b # a
      BY <1>0, <1>1, <2>1, <3>1, <3>2, OtherUndisturbed DEF TypeOK
    <3>3. CASE b = a
      <4>1. n \in Names /\ defs \in Sessions
        BY <3>1, RequestType DEF IInv, Mine, Flow, TypeOK
      <4> DEFINE f == Frame(n, defs)
                 s == <<f>>
      <4>2. /\ ComputedFrom(defs, f.name, f.got)
            /\ Range(f.todo) \subseteq Range(RefsIn(defs, f.name))
        BY <3>1, <4>1, FrameFresh
      <4> HIDE DEF f
      <4>3. StackFrom(s, defs)
        BY <4>2 DEF StackFrom, FrameFrom
      <4> HIDE DEF s
      <4>4. pc'[a] = "eval" /\ snap'[a] = defs /\ stack'[a] = s
        BY <1>0, <3>1, <3>3 DEF TypeOK, s, f
      <4> QED
        BY <1>1, <2>1, <4>3, <4>4 DEF Undisturbed, CacheFrom
    <3> QED
      BY <3>2, <3>3
  <2> QED
    BY <2>2, <2>3
<1>10. ASSUME NEW b \in Agents, LookUp(b) \/ Descend(b) \/ Fetch(b) \/ Finish(b)
       PROVE  Undisturbed(a)'
  <2>1. CASE b = a
    BY <1>1, <1>10, <2>1, EvaluationUndisturbed
  <2>2. CASE b # a
    <3>1. Server(b) # Server(a)
      BY <2>2 DEF Alone
    <3>2. defs' = defs /\ cache'[Server(a)] = cache[Server(a)]
      BY <1>0, <1>10, <3>1 DEF LookUp, Descend, Fetch, Finish
    <3>3. pc'[a] = pc[a] /\ copy'[a] = copy[a] /\ snap'[a] = snap[a] /\ stack'[a] = stack[a]
      <4>1. ASSUME NEW v, Deliver(b, v)
            PROVE  pc'[a] = pc[a] /\ copy'[a] = copy[a] /\ snap'[a] = snap[a] /\ stack'[a] = stack[a]
        BY <2>2, <4>1, DeliverSteps
      <4>2. CASE LookUp(b)
        BY <1>0, <2>2, <4>1, <4>2 DEF LookUp, TypeOK
      <4>3. CASE Finish(b)
        BY <4>1, <4>3 DEF Finish
      <4>4. CASE Descend(b) \/ Fetch(b)
        BY <1>0, <2>2, <4>4 DEF Descend, Fetch, TypeOK
      <4> QED
        BY <1>10, <4>2, <4>3, <4>4
    <3> QED
      BY <1>1, <3>2, <3>3, OtherUndisturbed
  <2> QED
    BY <2>1, <2>2
<1>11. ASSUME NEW k \in Servers, Crash(k)
       PROVE  Undisturbed(a)'
  <2>1. defs' = defs /\ cache'[Server(a)] \subseteq cache[Server(a)]
    BY <1>0, <1>11 DEF Crash
  <2>2. CASE Server(a) = k
    BY <1>1, <1>11, <2>1, <2>2, IdleUndisturbed DEF Crash
  <2>3. CASE Server(a) # k
    BY <1>1, <1>11, <2>1, <2>3, OtherUndisturbed DEF Crash
  <2> QED
    BY <2>2, <2>3
<1>12. CASE UNCHANGED vars
  BY <1>1, <1>12, OtherUndisturbed DEF vars, locals
<1> QED
  BY <1>2, <1>3, <1>5, <1>7, <1>8, <1>9, <1>10, <1>11, <1>12 DEF Next

LEMMA AloneInit == Init => AloneUndisturbed
BY DEF Init, AloneUndisturbed, Undisturbed, CacheFrom, Servers

(* What a server process has cached for the one agent that uses it and     *)
(* makes all the edits is never stale: _cache_invalidate_all drops every   *)
(* result that an edit changes, at whatever distance, before it is saved.  *)
THEOREM OwnEditsInvalidate == Spec => []AloneIsCurrent
<1>1. Init => AloneUndisturbed
  BY AloneInit
<1>2. IInv /\ AloneUndisturbed /\ [Next]_vars => AloneUndisturbed'
  BY AloneStep
<1>3. AloneUndisturbed => AloneIsCurrent
  BY DEF AloneUndisturbed, Undisturbed, CacheFrom, ComputedFrom, AloneIsCurrent
<1> QED
  BY <1>1, <1>2, <1>3, SignalsInvariant, PTL DEF Spec
===========================================================================
