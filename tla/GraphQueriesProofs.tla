----------------------- MODULE GraphQueriesProofs -------------------------
(***************************************************************************)
(* Proofs about the queries that need the endpoints of a graph.  For the   *)
(* lists of endpoints that a compile writes, whatever the records and      *)
(* their hashes: the ranges are united exactly, and each record is there   *)
(* once.  For selections, whatever the axes: bits, pieces, hint and filter *)
(* agree.  For the walk of a trace, whatever the netlist: what is shown is *)
(* connected to what was asked for.                                        *)
(***************************************************************************)
EXTENDS EndpointDedup, Coordinates, TraceQueries, FiniteInduction, SequenceTheorems

---------------------------------------------------------------------------
(* The hash table: a search goes through every slot, and a table that is   *)
(* too small is replaced by one that is not.                               *)

LEMMA EmptySlots ==
    ASSUME NEW c \in Nat, NEW table, DOMAIN table = 0 .. c - 1
    PROVE  Slots(table) = c
<1>1. IsFiniteSet(0 .. c - 1) /\ Cardinality(0 .. c - 1) = IF 0 > c - 1 THEN 0 ELSE (c - 1) - 0 + 1
  BY FS_Interval
<1> QED
  BY <1>1 DEF Slots

Place(c, e, k) == LET p == (HashOf(e) % c) + k IN IF p < c THEN p ELSE p - c

LEMMA ProbeIs ==
    ASSUME NEW c \in Nat, NEW table, DOMAIN table = 0 .. c - 1
    PROVE  \A e, k : Probe(table, e, k) = Place(c, e, k)
BY EmptySlots DEF Probe, Place

(* From any hash, the places of 0 .. c - 1 are the slots, each once.        *)
LEMMA PlacesAre ==
    ASSUME NEW c \in Nat \ {0}, NEW e, HashOf(e) \in Nat
    PROVE  /\ \A k \in 0 .. c - 1 : Place(c, e, k) \in 0 .. c - 1
           /\ \A p \in 0 .. c - 1 : \E k \in 0 .. c - 1 : Place(c, e, k) = p
<1> DEFINE h == HashOf(e) % c
<1>1. h \in 0 .. c - 1
  OBVIOUS
<1> HIDE DEF h
<1>2. \A k \in 0 .. c - 1 : Place(c, e, k) = IF h + k < c THEN h + k ELSE h + k - c
  BY DEF Place, h
<1>3. \A k \in 0 .. c - 1 : Place(c, e, k) \in 0 .. c - 1
  BY <1>1, <1>2
<1>4. ASSUME NEW p \in 0 .. c - 1
      PROVE  \E k \in 0 .. c - 1 : Place(c, e, k) = p
  <2>1. CASE h <= p
    <3>1. p - h \in 0 .. c - 1 /\ h + (p - h) = p /\ p < c
      BY <1>1, <2>1
    <3> QED
      BY <1>2, <3>1
  <2>2. CASE ~(h <= p)
    <3>1. c + p - h \in 0 .. c - 1 /\ ~(h + (c + p - h) < c) /\ h + (c + p - h) - c = p
      BY <1>1, <2>2
    <3> QED
      BY <1>2, <3>1
  <2> QED
    BY <2>1, <2>2
<1> QED
  BY <1>3, <1>4

LEMMA DoubledIs ==
    ASSUME NEW N \in Nat
    PROVE  \A k \in 0 .. N : Doubled(N)[k] \in Nat /\ Doubled(N)[k] >= 2 * k + 2
<1> DEFINE J == [i \in 0 .. N |-> Nat]
           G == [x \in Nat \X Nat |-> 2 * x[2]]
           d == Doubled(N)
<1>1. PICK f : InSteps(f, N, MinSlots, G, J)
  <2>1. J \in [0 .. N -> SUBSET Nat] /\ MinSlots \in J[0]
    BY DedupAssumption
  <2>2. \A i \in 1 .. N : \A x \in J[i - 1] : G[<<i, x>>] \in J[i]
    <3> SUFFICES ASSUME NEW i \in 1 .. N, NEW x \in J[i - 1] PROVE G[<<i, x>>] \in J[i]
      OBVIOUS
    <3>1. i \in Nat /\ i - 1 \in 0 .. N /\ i \in 0 .. N
      OBVIOUS
    <3>2. x \in Nat
      BY <3>1
    <3>3. <<i, x>> \in Nat \X Nat
      BY <3>1, <3>2
    <3> QED
      BY <3>1, <3>2, <3>3
  <2> HIDE DEF J, G
  <2> QED
    BY <2>1, <2>2, StepsInside
<1>2. f = [k \in 0 .. N |-> IF k = 0 THEN MinSlots ELSE 2 * f[k - 1]]
  <2>1. ASSUME NEW k \in 0 .. N, k # 0
        PROVE  G[<<k, f[k - 1]>>] = 2 * f[k - 1]
    <3>1. k - 1 \in 0 .. N /\ k \in Nat
      BY <2>1
    <3>2. f[k - 1] \in Nat
      BY <1>1, <3>1 DEF InSteps
    <3>3. <<k, f[k - 1]>> \in Nat \X Nat
      BY <3>1, <3>2
    <3> QED
      BY <3>3
  <2>2. [k \in 0 .. N |-> IF k = 0 THEN MinSlots ELSE G[<<k, f[k - 1]>>]]
        = [k \in 0 .. N |-> IF k = 0 THEN MinSlots ELSE 2 * f[k - 1]]
    <3> HIDE DEF G
    <3> QED
      BY <2>1
  <2> QED
    BY <1>1, <2>2 DEF InSteps
<1>3. d = [k \in 0 .. N |-> IF k = 0 THEN MinSlots ELSE 2 * d[k - 1]]
  BY <1>2 DEF Doubled
<1> HIDE DEF d
<1> DEFINE T == {k \in Nat : k <= N => d[k] \in Nat /\ d[k] >= 2 * k + 2}
<1>4. 0 \in T
  <2>1. 0 \in 0 .. N
    OBVIOUS
  <2> QED
    BY <1>3, <2>1, DedupAssumption
<1>5. ASSUME NEW k \in T PROVE k + 1 \in T
  <2> SUFFICES ASSUME k + 1 <= N PROVE d[k + 1] \in Nat /\ d[k + 1] >= 2 * (k + 1) + 2
    OBVIOUS
  <2>1. k \in Nat /\ k + 1 \in 0 .. N /\ k + 1 # 0 /\ (k + 1) - 1 = k /\ k <= N
    OBVIOUS
  <2>2. d[k + 1] = 2 * d[k]
    BY <1>3, <2>1
  <2>3. d[k] \in Nat /\ d[k] >= 2 * k + 2
    BY <2>1
  <2> QED
    BY <2>1, <2>2, <2>3
<1>6. T = Nat
  <2> HIDE DEF T
  <2>1. T \in SUBSET Nat
    BY DEF T
  <2> QED
    BY <1>4, <1>5, <2>1, SetInduction
<1> QED
  BY <1>6 DEF d

(* Half of the slots of a table are as many as the records, at least.      *)
LEMMA GrownIs ==
    ASSUME NEW b \in Nat, NEW N \in Nat
    PROVE  \E c \in Nat : c >= 2 * N /\ Grown(Empty(b), N) = Empty(c)
<1>1. Slots(Empty(b)) = b
  BY EmptySlots DEF Empty
<1>2. CASE b \div 2 >= N
  <2>1. b >= 2 * N
    BY <1>2
  <2> QED
    BY <1>1, <1>2, <2>1 DEF Grown
<1>3. CASE ~(b \div 2 >= N)
  <2> DEFINE C == {c \in {Doubled(N)[k] : k \in 0 .. N} : c \div 2 >= N}
  <2>1. C \in SUBSET Nat
    BY DoubledIs
  <2>2. C # {}
    <3>1. N \in 0 .. N /\ Doubled(N)[N] \in Nat /\ Doubled(N)[N] >= 2 * N + 2
      BY DoubledIs
    <3>2. \A c \in Nat : c >= 2 * N + 2 => c \div 2 >= N
      OBVIOUS
    <3> QED
      BY <3>1, <3>2
  <2> HIDE DEF C
  <2>3. PICK c \in C : \A x \in C : c <= x
    BY <2>1, <2>2, LeastExists
  <2>4. Min(C) \in C
    BY <2>3 DEF Min
  <2>5. Min(C) \in Nat /\ Min(C) \div 2 >= N
    BY <2>1, <2>4 DEF C
  <2>6. Min(C) >= 2 * N
    BY <2>5
  <2> QED
    BY <1>1, <1>3, <2>5, <2>6 DEF Grown, C
<1> QED
  BY <1>2, <1>3

(* list[j] is equal to an earlier record.                                  *)
Again(list, j) == \E m \in 1 .. j - 1 : list[m] = list[j]
Slots0(list) == [index : 0 .. Len(list), hash : Nat]
LookStates(list, c) ==
  [table : [0 .. c - 1 -> Slots0(list)], touched : SUBSET (0 .. c - 1), dropped : SUBSET (1 .. Len(list))]

(* After i records: those that are kept are found again from their hash,   *)
(* and no slot on the way there is free.                                   *)
Stored(t, c, e, j) == \E k \in 0 .. c - 1 :
  /\ t[Place(c, e, k)].index = j
  /\ \A m \in 0 .. k - 1 : t[Place(c, e, m)] # Free
LookInv(s, list, c, i) ==
  /\ s \in LookStates(list, c)
  /\ s.touched = {p \in 0 .. c - 1 : s.table[p] # Free}
  /\ Cardinality(s.touched) <= i
  /\ s.dropped = {j \in 1 .. i : Again(list, j)}
  /\ \A p \in s.touched : s.table[p].index \in 1 .. i /\ s.table[p].hash = HashOf(list[s.table[p].index])
  /\ \A j \in 1 .. i : ~Again(list, j) => Stored(s.table, c, list[j], j)

Hashed(list) == \A i \in 1 .. Len(list) : HashOf(list[i]) \in Nat

(* The search ends at a free slot or at an equal record, and passes        *)
(* neither.                                                                *)
SlotFor(t, c, list, i, k) ==
  /\ k \in 0 .. c - 1 /\ Slot(t, list, i) = Place(c, list[i], k)
  /\ t[Place(c, list[i], k)] = Free \/ Found(t, Place(c, list[i], k), list, i)
  /\ \A m \in 0 .. k - 1 : t[Place(c, list[i], m)] # Free /\ ~Found(t, Place(c, list[i], m), list, i)

LEMMA SlotIs ==
    ASSUME NEW list, NEW c \in Nat, NEW i \in 1 .. Len(list), Len(list) \in Nat, Hashed(list), c >= 2 * Len(list),
           NEW s, LookInv(s, list, c, i - 1)
    PROVE  \E k : SlotFor(s.table, c, list, i, k)
<1> DEFINE t == s.table
           e == list[i]
           K == {k \in 0 .. c - 1 : t[Place(c, e, k)] = Free \/ Found(t, Place(c, e, k), list, i)}
<1>1. DOMAIN t = 0 .. c - 1 /\ c \in Nat \ {0} /\ HashOf(e) \in Nat /\ s.touched \subseteq 0 .. c - 1
  BY DEF LookInv, LookStates, Hashed
<1>2. K # {}
  <2>1. PICK p \in 0 .. c - 1 : p \notin s.touched
    <3> SUFFICES ASSUME s.touched = 0 .. c - 1 PROVE FALSE
      BY <1>1
    <3>1. Cardinality(0 .. c - 1) = c
      BY EmptySlots, <1>1 DEF Slots
    <3>2. Cardinality(s.touched) <= i - 1
      BY DEF LookInv
    <3> QED
      BY <3>1, <3>2
  <2>2. PICK k \in 0 .. c - 1 : Place(c, e, k) = p
    BY <1>1, PlacesAre
  <2>3. t[p] = Free
    BY <2>1 DEF LookInv
  <2> QED
    BY <2>2, <2>3
<1>3. K \in SUBSET Nat /\ K \subseteq 0 .. c - 1
  OBVIOUS
<1>4. Slot(t, list, i) = Place(c, e, Min(K))
  <2>1. {k \in DOMAIN t : t[Probe(t, e, k)] = Free \/ Found(t, Probe(t, e, k), list, i)} = K
    <3>1. \A k : Probe(t, e, k) = Place(c, e, k)
      BY <1>1, ProbeIs
    <3> QED
      BY <1>1, <3>1
  <2>2. Slot(t, list, i)
        = Probe(t, e, Min({k \in DOMAIN t : t[Probe(t, e, k)] = Free \/ Found(t, Probe(t, e, k), list, i)}))
    BY DEF Slot
  <2> HIDE DEF K
  <2>3. Probe(t, e, Min(K)) = Place(c, e, Min(K))
    BY <1>1, ProbeIs
  <2> QED
    BY ONLY <2>1, <2>2, <2>3
<1> HIDE DEF K
<1>5. PICK k \in K : \A x \in K : k <= x
  BY <1>2, <1>3, LeastExists
<1>6. Min(K) = k
  <2>1. Min(K) \in K /\ \A x \in K : Min(K) <= x
    BY <1>5 DEF Min
  <2>2. Min(K) \in Nat /\ k \in Nat /\ Min(K) <= k /\ k <= Min(K)
    BY <1>3, <1>5, <2>1
  <2>3. \A x, y \in Nat : x <= y /\ y <= x => x = y
    OBVIOUS
  <2> QED
    BY <2>2, <2>3, Zenon
<1>7. \A m \in 0 .. k - 1 : m \in 0 .. c - 1 /\ m \notin K
  BY <1>3, <1>5
<1>8. \A m \in 0 .. k - 1 : t[Place(c, e, m)] # Free /\ ~Found(t, Place(c, e, m), list, i)
  BY <1>7 DEF K
<1>9. t[Place(c, e, k)] = Free \/ Found(t, Place(c, e, k), list, i)
  BY <1>5 DEF K
<1> QED
  BY <1>3, <1>4, <1>5, <1>6, <1>8, <1>9 DEF SlotFor

(* The first of the records that are equal to list[i].                     *)
LEMMA FirstOf ==
    ASSUME NEW list, NEW i \in Nat, Again(list, i)
    PROVE  \E j \in 1 .. i - 1 : list[j] = list[i] /\ ~Again(list, j)
<1> DEFINE D == {m \in 1 .. i - 1 : list[m] = list[i]}
<1>1. D \in SUBSET Nat /\ D # {}
  BY DEF Again
<1>2. PICK j \in D : \A m \in D : j <= m
  <2> HIDE DEF D
  <2> QED
    BY <1>1, LeastExists
<1>3. ~Again(list, j)
  <2> SUFFICES ASSUME NEW m \in 1 .. j - 1, list[m] = list[j] PROVE FALSE
    BY DEF Again
  <2>1. m \in D /\ ~(j <= m)
    BY <1>2
  <2> QED
    BY <1>2, <2>1
<1> QED
  BY <1>2, <1>3

(* One record more: it is entered, or dropped if it is there again.        *)
LEMMA LookKeeps ==
    ASSUME NEW list, NEW c \in Nat, NEW i \in 1 .. Len(list), Len(list) \in Nat, Hashed(list), c >= 2 * Len(list),
           NEW s, LookInv(s, list, c, i - 1)
    PROVE  LookInv(Look(s, list, i), list, c, i)
<1> DEFINE t == s.table
           e == list[i]
           u == Look(s, list, i)
<1>1. PICK k : SlotFor(t, c, list, i, k)
  BY SlotIs
<1> DEFINE p == Place(c, e, k)
<1>2. Slot(t, list, i) = p /\ k \in 0 .. c - 1 /\ p \in 0 .. c - 1
  <2>1. c \in Nat \ {0} /\ HashOf(e) \in Nat
    BY DEF Hashed
  <2> QED
    BY <1>1, <2>1, PlacesAre DEF SlotFor
<1>3. /\ s \in LookStates(list, c) /\ s.touched = {q \in 0 .. c - 1 : t[q] # Free} /\ Cardinality(s.touched) <= i - 1
      /\ s.dropped = {j \in 1 .. i - 1 : Again(list, j)}
      /\ \A q \in s.touched : t[q].index \in 1 .. i - 1 /\ t[q].hash = HashOf(list[t[q].index])
      /\ \A j \in 1 .. i - 1 : ~Again(list, j) => Stored(t, c, list[j], j)
  BY DEF LookInv
<1>4. /\ t \in [0 .. c - 1 -> Slots0(list)] /\ s.touched \in SUBSET (0 .. c - 1) /\ s.dropped \in SUBSET (1 .. Len(list))
      /\ s = [table |-> t, touched |-> s.touched, dropped |-> s.dropped]
  BY <1>3 DEF LookStates
<1>5. /\ IsFiniteSet(s.touched) /\ Cardinality(s.touched) \in Nat
  <2>1. IsFiniteSet(0 .. c - 1)
    BY FS_Interval
  <2> QED
    BY <1>4, <2>1, FS_Subset, FS_CardinalityType
<1>6. i \in Nat /\ \A j : j \in 1 .. i <=> (j \in 1 .. i - 1 \/ j = i)
  OBVIOUS
<1>7. CASE t[p] = Free
  <2> DEFINE w == [t EXCEPT ![p] = [index |-> i, hash |-> HashOf(e)]]
  <2>1. u = [table |-> w, touched |-> s.touched \cup {p}, dropped |-> s.dropped]
    <3>1. u = [s EXCEPT !.table[p] = [index |-> i, hash |-> HashOf(e)], !.touched = @ \cup {p}]
      BY <1>2, <1>7 DEF Look
    <3> QED
      BY <1>4, <3>1
  <2>2. ~Again(list, i)
    <3> SUFFICES ASSUME Again(list, i) PROVE FALSE
      OBVIOUS
    <3>1. PICK j \in 1 .. i - 1 : list[j] = e /\ ~Again(list, j)
      BY <1>6, FirstOf
    <3>2. PICK m \in 0 .. c - 1 : t[Place(c, e, m)].index = j /\ \A x \in 0 .. m - 1 : t[Place(c, e, x)] # Free
      BY <1>3, <3>1 DEF Stored
    <3>3. ~(k < m)
      BY <1>2, <1>7, <3>2
    <3>4. k # m
      BY <1>7, <3>1, <3>2 DEF Free
    <3>5. m \in 0 .. k - 1
      BY <1>2, <3>2, <3>3, <3>4
    <3> DEFINE q == Place(c, e, m)
    <3>6. q \in 0 .. c - 1
      <4>1. c \in Nat \ {0} /\ HashOf(e) \in Nat
        BY DEF Hashed
      <4> QED
        BY <4>1, PlacesAre
    <3>7. t[q] # Free /\ ~Found(t, q, list, i)
      BY <1>1, <3>5 DEF SlotFor
    <3>8. q \in s.touched
      BY <1>3, <3>6, <3>7
    <3>9. t[q].hash = HashOf(list[j])
      BY <1>3, <3>2, <3>8
    <3> QED
      BY <3>1, <3>2, <3>7, <3>9 DEF Found, SameEndpointFields
  <2>3. [index |-> i, hash |-> HashOf(e)] \in Slots0(list) /\ [index |-> i, hash |-> HashOf(e)] # Free
    BY DEF Slots0, Free, Hashed
  <2>4. w \in [0 .. c - 1 -> Slots0(list)] /\ w[p] = [index |-> i, hash |-> HashOf(e)]
        /\ \A q \in 0 .. c - 1 : q # p => w[q] = t[q]
    BY <1>2, <1>4, <2>3
  <2> HIDE DEF w
  <2>5. u.table = w /\ u.touched = s.touched \cup {p} /\ u.dropped = s.dropped /\ u \in LookStates(list, c)
    BY <1>2, <1>4, <2>1, <2>4 DEF LookStates
  <2> HIDE DEF u, p
  <2>6. u.touched = {q \in 0 .. c - 1 : u.table[q] # Free}
    BY <1>2, <1>3, <2>3, <2>4, <2>5
  <2>7. Cardinality(u.touched) <= i
    <3>1. Cardinality(s.touched \cup {p}) \in {Cardinality(s.touched), Cardinality(s.touched) + 1}
      BY <1>5, FS_AddElement
    <3> QED
      BY <1>3, <1>5, <2>5, <3>1
  <2>8. u.dropped = {j \in 1 .. i : Again(list, j)}
    BY <1>3, <1>6, <2>2, <2>5
  <2>9. ASSUME NEW q \in u.touched
        PROVE  u.table[q].index \in 1 .. i /\ u.table[q].hash = HashOf(list[u.table[q].index])
    <3>1. CASE q = p
      BY <1>6, <2>4, <2>5, <3>1
    <3>2. CASE q # p
      <4>1. q \in s.touched /\ q \in 0 .. c - 1
        BY <1>4, <2>5, <3>2
      <4>2. u.table[q] = t[q]
        BY <2>4, <2>5, <3>2, <4>1
      <4> QED
        BY <1>3, <1>6, <4>1, <4>2
    <3> QED
      BY <3>1, <3>2
  <2>10. ASSUME NEW j \in 1 .. i, ~Again(list, j)
         PROVE  Stored(u.table, c, list[j], j)
    <3>0. c \in Nat \ {0} /\ HashOf(list[j]) \in Nat
      BY DEF Hashed
    <3>1. \A m \in 0 .. c - 1 : Place(c, list[j], m) \in 0 .. c - 1
      BY <3>0, PlacesAre
    <3>2. CASE j = i
      <4>1. w[Place(c, list[i], k)].index = i
        BY <2>4 DEF p
      <4>2. ASSUME NEW m \in 0 .. k - 1 PROVE w[Place(c, list[i], m)] # Free
        <5>1. m \in 0 .. c - 1
          BY <1>2
        <5>2. t[Place(c, list[i], m)] # Free /\ Place(c, list[i], m) \in 0 .. c - 1
          BY <1>1, <3>1, <3>2, <5>1 DEF SlotFor
        <5> QED
          BY <2>3, <2>4, <5>2
      <4> QED
        BY <1>2, <2>5, <3>2, <4>1, <4>2 DEF Stored
    <3>3. CASE j # i
      <4>1. j \in 1 .. i - 1
        BY <1>6, <3>3
      <4>2. PICK m \in 0 .. c - 1 : t[Place(c, list[j], m)].index = j /\ \A x \in 0 .. m - 1 : t[Place(c, list[j], x)] # Free
        BY <1>3, <2>10, <4>1 DEF Stored
      <4>3. Place(c, list[j], m) # p
        <5>1. t[p].index = 0
          BY <1>7 DEF Free
        <5> QED
          BY <4>1, <4>2, <5>1
      <4>4. w[Place(c, list[j], m)].index = j
        BY <2>4, <3>1, <4>2, <4>3
      <4>5. ASSUME NEW x \in 0 .. m - 1 PROVE w[Place(c, list[j], x)] # Free
        <5>1. x \in 0 .. c - 1
          BY <4>2
        <5>2. t[Place(c, list[j], x)] # Free /\ Place(c, list[j], x) \in 0 .. c - 1
          BY <3>1, <4>2, <5>1
        <5> QED
          BY <2>3, <2>4, <5>2
      <4> QED
        BY <2>5, <4>4, <4>5 DEF Stored
    <3> QED
      BY <3>2, <3>3
  <2> QED
    BY <2>5, <2>6, <2>7, <2>8, <2>9, <2>10 DEF LookInv, u
<1>8. CASE t[p] # Free
  <2>1. u = [table |-> t, touched |-> s.touched, dropped |-> s.dropped \cup {i}]
    <3>1. u = [s EXCEPT !.dropped = @ \cup {i}]
      BY <1>2, <1>8 DEF Look
    <3> QED
      BY <1>4, <3>1
  <2>2. Again(list, i)
    <3>1. Found(t, p, list, i)
      BY <1>1, <1>8 DEF SlotFor
    <3>2. p \in s.touched
      BY <1>2, <1>3, <1>8
    <3>3. t[p].index \in 1 .. i - 1
      BY <1>3, <3>2
    <3> QED
      BY <3>1, <3>3 DEF Found, SameEndpointFields, Again
  <2>3. u.table = t /\ u.touched = s.touched /\ u.dropped = s.dropped \cup {i} /\ u \in LookStates(list, c)
    BY <1>4, <2>1 DEF LookStates
  <2> HIDE DEF u, p
  <2>4. u.dropped = {j \in 1 .. i : Again(list, j)}
    BY <1>3, <1>6, <2>2, <2>3
  <2>5. \A q \in u.touched : u.table[q].index \in 1 .. i /\ u.table[q].hash = HashOf(list[u.table[q].index])
    BY <1>3, <1>6, <2>3
  <2>6. \A j \in 1 .. i : ~Again(list, j) => Stored(u.table, c, list[j], j)
    BY <1>3, <1>6, <2>2, <2>3
  <2>7. u.touched = {q \in 0 .. c - 1 : u.table[q] # Free} /\ Cardinality(u.touched) <= i
    BY <1>3, <1>5, <2>3
  <2> QED
    BY <2>3, <2>4, <2>5, <2>6, <2>7 DEF LookInv, u
<1> QED
  BY <1>7, <1>8

(* All records of a list.                                                  *)
LEMMA LookedIs ==
    ASSUME NEW list, Len(list) \in Nat \ {0}, Hashed(list), NEW b \in Nat,
           NEW c \in Nat, c >= 2 * Len(list), Grown(Empty(b), Len(list)) = Empty(c)
    PROVE  LookInv(Looked(list, Empty(b))[Len(list)], list, c, Len(list))
<1> DEFINE N == Len(list)
           S == LookStates(list, c)
           blank == [table |-> Empty(c), touched |-> {}, dropped |-> {}]
           J == [i \in 0 .. N |-> {s \in S : LookInv(s, list, c, i)}]
           G == [x \in (1 .. N) \X S |-> Look(x[2], list, x[1])]
           d == Looked(list, Empty(b))
<1>1. LookInv(blank, list, c, 0)
  <2>1. blank.table = Empty(c) /\ blank.touched = {} /\ blank.dropped = {}
    OBVIOUS
  <2>2. Free \in Slots0(list) /\ Empty(c) \in [0 .. c - 1 -> Slots0(list)]
    BY DEF Free, Slots0, Empty
  <2>3. blank \in S
    BY <2>2 DEF LookStates
  <2>4. \A p \in 0 .. c - 1 : Empty(c)[p] = Free
    BY DEF Empty
  <2>5. 1 .. 0 = {} /\ Cardinality({}) = 0
    BY FS_EmptySet
  <2> HIDE DEF blank
  <2> QED
    BY <2>1, <2>3, <2>4, <2>5 DEF LookInv
<1>2. ASSUME NEW i \in 1 .. N, NEW s, LookInv(s, list, c, i - 1)
      PROVE  LookInv(Look(s, list, i), list, c, i)
  BY <1>2, LookKeeps
<1>3. \A i : \A s : LookInv(s, list, c, i) => s \in S
  BY DEF LookInv
<1>4. PICK f : InSteps(f, N, blank, G, J)
  <2>1. J \in [0 .. N -> SUBSET S]
    OBVIOUS
  <2>2. blank \in J[0]
    BY <1>1, <1>3
  <2>3. ASSUME NEW i \in 1 .. N, NEW s \in J[i - 1]
        PROVE  G[<<i, s>>] \in J[i]
    <3>1. i - 1 \in 0 .. N /\ i \in 0 .. N
      OBVIOUS
    <3>2. s \in S /\ LookInv(s, list, c, i - 1)
      BY <3>1
    <3>3. G[<<i, s>>] = Look(s, list, i)
      <4>1. <<i, s>> \in (1 .. N) \X S
        BY <3>2
      <4> HIDE DEF S
      <4> QED
        BY <4>1
    <3> HIDE DEF S, G
    <3> QED
      BY <1>2, <1>3, <3>1, <3>2, <3>3
  <2> HIDE DEF J, G, S, blank
  <2> QED
    BY <2>1, <2>2, <2>3, StepsInside
<1>5. f = [i \in 0 .. N |-> IF i = 0 THEN blank ELSE Look(f[i - 1], list, i)]
  <2>1. ASSUME NEW i \in 0 .. N, i # 0
        PROVE  G[<<i, f[i - 1]>>] = Look(f[i - 1], list, i)
    <3>1. i - 1 \in 0 .. N /\ i \in 1 .. N
      BY <2>1
    <3>2. f[i - 1] \in S
      BY <1>4, <3>1 DEF InSteps
    <3>3. <<i, f[i - 1]>> \in (1 .. N) \X S
      BY <3>1, <3>2
    <3> HIDE DEF S
    <3> QED
      BY <3>3
  <2>2. [i \in 0 .. N |-> IF i = 0 THEN blank ELSE G[<<i, f[i - 1]>>]]
        = [i \in 0 .. N |-> IF i = 0 THEN blank ELSE Look(f[i - 1], list, i)]
    <3> HIDE DEF G, blank
    <3> QED
      BY <2>1
  <2>3. f = [i \in 0 .. N |-> IF i = 0 THEN blank ELSE G[<<i, f[i - 1]>>]]
    BY <1>4 DEF InSteps
  <2> QED
    BY ONLY <2>2, <2>3
<1>6. d = [i \in 0 .. N |-> IF i = 0 THEN blank ELSE Look(d[i - 1], list, i)]
  <2> HIDE DEF J, G, S
  <2> QED
    BY <1>5 DEF Looked
<1> HIDE DEF d, blank, J, G, S
<1> DEFINE T == {i \in Nat : i <= N => LookInv(d[i], list, c, i)}
<1>7. 0 \in T
  <2>1. 0 \in 0 .. N
    OBVIOUS
  <2>2. d[0] = blank
    BY <1>6, <2>1
  <2> QED
    BY <1>1, <2>2
<1>8. ASSUME NEW i \in T PROVE i + 1 \in T
  <2> SUFFICES ASSUME i + 1 <= N PROVE LookInv(d[i + 1], list, c, i + 1)
    OBVIOUS
  <2>1. i \in Nat /\ i + 1 \in 0 .. N /\ i + 1 \in 1 .. N /\ i + 1 # 0 /\ (i + 1) - 1 = i /\ i <= N
    OBVIOUS
  <2>2. d[i + 1] = Look(d[i], list, i + 1)
    BY <1>6, <2>1
  <2>3. LookInv(d[i], list, c, (i + 1) - 1)
    BY <2>1
  <2> QED
    BY <1>2, <2>1, <2>2, <2>3
<1>9. T = Nat
  <2> HIDE DEF T
  <2>1. T \in SUBSET Nat
    BY DEF T
  <2> QED
    BY <1>7, <1>8, <2>1, SetInduction
<1>10. LookInv(d[N], list, c, N)
  BY <1>9
<1> QED
  BY <1>10 DEF d

(* The first of each record is kept, and the table is free again.          *)
LEMMA DedupIs ==
    ASSUME NEW R, NEW list \in Seq(R), Hashed(list), NEW b \in Nat
    PROVE  /\ DeduplicateEndpointsInPlace(list, Empty(b)).list = Picked(list, {i \in DOMAIN list : ~Again(list, i)})
           /\ \E c \in Nat : DeduplicateEndpointsInPlace(list, Empty(b)).table = Empty(c)
<1> DEFINE N == Len(list)
           r == DeduplicateEndpointsInPlace(list, Empty(b))
<1>1. N \in Nat /\ DOMAIN list = 1 .. N
  BY DomainIs
<1>2. CASE N < 2
  <2>1. r.list = list /\ r.table = Empty(b)
    BY <1>2 DEF DeduplicateEndpointsInPlace
  <2>2. \A i \in 1 .. N : ~Again(list, i)
    BY <1>1, <1>2 DEF Again
  <2>3. {i \in DOMAIN list : ~Again(list, i)} = DOMAIN list
    BY <1>1, <2>2
  <2> QED
    BY <2>1, <2>3, PickedWhole
<1>3. CASE ~(N < 2)
  <2>1. PICK c \in Nat : c >= 2 * N /\ Grown(Empty(b), N) = Empty(c)
    BY <1>1, GrownIs
  <2> DEFINE s == Looked(list, Empty(b))[N]
  <2>2. LookInv(s, list, c, N)
    BY <1>1, <1>3, <2>1, LookedIs
  <2>3. r = [list |-> Picked(list, DOMAIN list \ s.dropped), table |-> ClearTouched(s)]
    BY <1>3 DEF DeduplicateEndpointsInPlace
  <2> HIDE DEF s
  <2>4. DOMAIN list \ s.dropped = {i \in DOMAIN list : ~Again(list, i)}
    BY <1>1, <2>2 DEF LookInv
  <2>5. DOMAIN s.table = 0 .. c - 1 /\ s.touched = {p \in 0 .. c - 1 : s.table[p] # Free}
    BY <2>2 DEF LookInv, LookStates
  <2>6. ClearTouched(s) = Empty(c)
    BY <2>5 DEF ClearTouched, Empty
  <2> HIDE DEF r
  <2>7. r.list = Picked(list, DOMAIN list \ s.dropped) /\ r.table = Empty(c)
    BY <2>3, <2>6
  <2>8. r.list = Picked(list, {i \in DOMAIN list : ~Again(list, i)})
    BY <2>4, <2>7
  <2> QED
    BY <2>7, <2>8 DEF r
<1> QED
  BY <1>2, <1>3

LEMMA PickedIs ==
    ASSUME NEW list, NEW S \in SUBSET Int, IsFiniteSet(S)
    PROVE  /\ Picked(list, S) \in Seq({list[i] : i \in S})
           /\ DOMAIN Picked(list, S) = 1 .. Cardinality(S)
           /\ \A k \in 1 .. Cardinality(S) : Picked(list, S)[k] = list[Ascending(S)[k]]
<1>1. /\ DOMAIN Ascending(S) = 1 .. Cardinality(S) /\ Cardinality(S) \in Nat
      /\ \A k \in DOMAIN Ascending(S) : Ascending(S)[k] \in S
  BY AscendingIs
<1>2. Picked(list, S) = [k \in 1 .. Cardinality(S) |-> list[Ascending(S)[k]]]
  BY <1>1 DEF Picked
<1> QED
  BY <1>1, <1>2

LEMMA MergeIsSeq ==
    ASSUME NEW R, NEW list \in Seq(R)
    PROVE  \E Q : MergeEndpointBitRangesInPlace(list) \in Seq(Q)
<1> SUFFICES ASSUME NEW united, NEW dropped
             PROVE  \E Q : Picked(united, DOMAIN list \ dropped) \in Seq(Q)
  BY DEF MergeEndpointBitRangesInPlace
<1>1. DOMAIN list \ dropped \in SUBSET Int /\ IsFiniteSet(DOMAIN list \ dropped)
  BY DomainIs, FS_Subset
<1> QED
  BY <1>1, PickedIs

LEMMA FirstsIs ==
  FirstsAreKept <=> kept = Picked(MergeEndpointBitRangesInPlace(given),
                                  {i \in DOMAIN MergeEndpointBitRangesInPlace(given) : ~Again(MergeEndpointBitRangesInPlace(given), i)})
BY DEF FirstsAreKept, Again

---------------------------------------------------------------------------
(* The passes, one list after another: between two lists every slot of the *)
(* table is free.                                                          *)

DedupSpec == DedupInit /\ [][DedupPass]_dedupVars

TableIsFree == \E b \in Nat : dedupTable = Empty(b)
DedupInv == TableIsFree /\ (given \in Lists \cup {<<>>}) /\ FirstsAreKept

LEMMA DedupInitInv == DedupInit => DedupInv
<1> SUFFICES ASSUME DedupInit PROVE DedupInv
  OBVIOUS
<1>1. TableIsFree /\ given = <<>> /\ kept = <<>>
  BY DEF DedupInit, TableIsFree
<1> DEFINE m == MergeEndpointBitRangesInPlace(given)
           Nothing(S) == S \subseteq {} => \A l : Picked(l, S) = <<>>
<1>2. \A S : Nothing(S)
  <2> SUFFICES ASSUME NEW l PROVE Picked(l, {}) = <<>>
    OBVIOUS
  <2>1. {} \in SUBSET Int /\ IsFiniteSet({}) /\ Cardinality({}) = 0
    BY FS_EmptySet
  <2>2. DOMAIN Picked(l, {}) = 1 .. 0 /\ Picked(l, {}) \in Seq({l[i] : i \in {}})
    BY <2>1, PickedIs
  <2> HIDE DEF Picked
  <2>3. Len(Picked(l, {})) = 0
    BY <2>2
  <2> QED
    BY <2>2, <2>3
<1>3. m = <<>>
  <2>1. DOMAIN given = {}
    BY <1>1
  <2> SUFFICES ASSUME NEW united, NEW dropped
               PROVE  Picked(united, DOMAIN given \ dropped) = <<>>
    BY DEF MergeEndpointBitRangesInPlace
  <2> QED
    BY <1>2, <2>1
<1>4. {i \in DOMAIN m : ~Again(m, i)} \subseteq {}
  BY <1>3
<1>5. kept = Picked(m, {i \in DOMAIN m : ~Again(m, i)})
  BY <1>1, <1>2, <1>4
<1> QED
  BY <1>1, <1>5, FirstsIs DEF DedupInv

LEMMA DedupPassKeeps == ASSUME DedupInv, DedupPass PROVE DedupInv'
<1>1. PICK l \in Lists :
        LET r == DeduplicateEndpointsInPlace(MergeEndpointBitRangesInPlace(l), dedupTable)
        IN  given' = l /\ kept' = r.list /\ dedupTable' = r.table
  BY DEF DedupPass
<1>2. PICK b \in Nat : dedupTable = Empty(b)
  BY DEF DedupInv, TableIsFree
<1> DEFINE m == MergeEndpointBitRangesInPlace(l)
           r == DeduplicateEndpointsInPlace(m, Empty(b))
<1>3. given' = l /\ kept' = r.list /\ dedupTable' = r.table
  BY <1>1, <1>2
<1>4. PICK Q : m \in Seq(Q)
  <2>1. l \in Seq(UNION {ToSet(x) : x \in Lists})
    BY DedupAssumption
  <2> QED
    BY <2>1, MergeIsSeq
<1>5. Hashed(m)
  <2>1. \A e \in ToSet(m) : HashOf(e) \in Nat
    BY DedupAssumption
  <2> HIDE DEF m
  <2>2. \A i \in 1 .. Len(m) : m[i] \in ToSet(m)
    BY <1>4 DEF ToSet
  <2> QED
    BY <2>1, <2>2 DEF Hashed
<1>6. r.list = Picked(m, {i \in DOMAIN m : ~Again(m, i)}) /\ \E c \in Nat : r.table = Empty(c)
  <2> HIDE DEF m
  <2> QED
    BY <1>4, <1>5, DedupIs
<1>7. FirstsAreKept'
  BY <1>3, <1>6 DEF FirstsAreKept, Again
<1>8. TableIsFree'
  BY <1>3, <1>6 DEF TableIsFree
<1> QED
  BY <1>3, <1>7, <1>8 DEF DedupInv

---------------------------------------------------------------------------
(* The ranges: what the pass knows of the records.                         *)

LEMMA OfTwo ==
  \A a, b \in Int : Min({a, b}) = (IF a <= b THEN a ELSE b) /\ Max({a, b}) = (IF a >= b THEN a ELSE b)
<1> SUFFICES ASSUME NEW a \in Int, NEW b \in Int
             PROVE  Min({a, b}) = (IF a <= b THEN a ELSE b) /\ Max({a, b}) = (IF a >= b THEN a ELSE b)
  OBVIOUS
<1> DEFINE lo == IF a <= b THEN a ELSE b
           hi == IF a >= b THEN a ELSE b
<1>1. lo \in {a, b} /\ \A x \in {a, b} : lo <= x
  OBVIOUS
<1>2. hi \in {a, b} /\ \A x \in {a, b} : hi >= x
  OBVIOUS
<1>3. \A x, y \in Int : x <= y /\ y <= x => x = y
  OBVIOUS
<1>4. lo \in Int /\ hi \in Int /\ {a, b} \subseteq Int
  OBVIOUS
<1> HIDE DEF lo, hi
<1>5. Min({a, b}) \in {a, b} /\ \A x \in {a, b} : Min({a, b}) <= x
  BY <1>1 DEF Min
<1>6. Max({a, b}) \in {a, b} /\ \A x \in {a, b} : Max({a, b}) >= x
  BY <1>2 DEF Max
<1>7. Min({a, b}) = lo
  BY <1>1, <1>3, <1>4, <1>5
<1>8. Max({a, b}) = hi
  BY <1>2, <1>3, <1>4, <1>6
<1> QED
  BY <1>7, <1>8 DEF lo, hi

LEMMA RangeIs ==
    ASSUME NEW r \in Int \X Int
    PROVE  /\ Low(r) \in Int /\ High(r) \in Int /\ Low(r) <= High(r) /\ Span(r) = Low(r) .. High(r)
           /\ Low(r) = (IF r[1] <= r[2] THEN r[1] ELSE r[2]) /\ High(r) = (IF r[1] >= r[2] THEN r[1] ELSE r[2])
<1>1. r[1] \in Int /\ r[2] \in Int
  OBVIOUS
<1> QED
  BY <1>1, OfTwo DEF Low, High, Span

RangeBits(list, i) == Span(list[i].bits[1])
AreRecords(list) ==
  /\ list \in Seq(ToSet(list)) /\ \A i \in DOMAIN list : IsEndpointRecord(list[i]) /\ ~list[i].merged

LEMMA MergeableIs ==
    ASSUME NEW e, IsEndpointRecord(e)
    PROVE  /\ Mergeable(e) => e.bits[1] \in Int \X Int
           /\ Mergeable(e) <=> /\ Len(e.bits) = 1 /\ e.bits[1] # Symbolic
                               /\ e.legacy \/ (~e.approx /\ e.cover = {})
<1>1. e.bits \in Seq({Symbolic} \cup (Int \X Int))
  BY DEF IsEndpointRecord
<1>2. DOMAIN e.bits = 1 .. Len(e.bits) /\ Len(e.bits) \in Nat
  BY <1>1
<1>3. ParseExactBitMapText(e.bits) # {} <=> Len(e.bits) = 1 /\ e.bits[1] # Symbolic
  <2>1. ASSUME Len(e.bits) = 1, e.bits[1] # Symbolic
        PROVE  e.bits[1] \in ParseExactBitMapText(e.bits)
    <3>1. 1 \in {k \in DOMAIN e.bits : Len(e.bits) = 1 /\ e.bits[k] # Symbolic}
      BY <1>2, <2>1
    <3> QED
      BY <3>1 DEF ParseExactBitMapText
  <2>2. ASSUME ParseExactBitMapText(e.bits) # {}
        PROVE  Len(e.bits) = 1 /\ e.bits[1] # Symbolic
    <3>1. PICK k \in DOMAIN e.bits : Len(e.bits) = 1 /\ e.bits[k] # Symbolic
      BY <2>2 DEF ParseExactBitMapText
    <3>2. k = 1
      BY <1>2, <3>1
    <3> QED
      BY <3>1, <3>2
  <2> QED
    BY <2>1, <2>2
<1>4. Mergeable(e) <=> /\ Len(e.bits) = 1 /\ e.bits[1] # Symbolic
                       /\ e.legacy \/ (~e.approx /\ e.cover = {})
  BY <1>3 DEF Mergeable
<1>5. Len(e.bits) = 1 => e.bits[1] \in {Symbolic} \cup (Int \X Int)
  BY <1>1, <1>2
<1> QED
  BY <1>4, <1>5

LEMMA ItemIs ==
    ASSUME NEW list, AreRecords(list), NEW i \in Items(list)
    PROVE  /\ i \in Nat /\ i \in DOMAIN list /\ list[i].bits[1] \in Int \X Int
           /\ Run(list, i).lo \in Int /\ Run(list, i).hi \in Int /\ Run(list, i).lo <= Run(list, i).hi
           /\ RangeBits(list, i) = Run(list, i).lo .. Run(list, i).hi
           /\ Run(list, i).first = i /\ Run(list, i).members = {i}
           /\ Run(list, i) = [lo |-> Run(list, i).lo, hi |-> Run(list, i).hi, first |-> i, members |-> {i}]
<1>1. i \in DOMAIN list /\ Mergeable(list[i]) /\ IsEndpointRecord(list[i])
  BY DEF Items, AreRecords
<1>2. i \in Nat
  BY <1>1 DEF AreRecords
<1>3. list[i].bits[1] \in Int \X Int
  BY <1>1, MergeableIs
<1>4. Run(list, i) = [lo |-> Low(list[i].bits[1]), hi |-> High(list[i].bits[1]), first |-> i, members |-> {i}]
  BY DEF Run
<1> QED
  BY <1>1, <1>2, <1>3, <1>4, RangeIs DEF RangeBits

(* The order of the sweep is one.                                          *)
LEMMA SpansOrdered ==
    ASSUME NEW list, AreRecords(list), NEW g \in SUBSET Items(list)
    PROVE  TotalOn({x \in g \X g : Precedes(list, x[1], x[2])}, g)
<1> DEFINE before == {x \in g \X g : Precedes(list, x[1], x[2])}
           lo(i) == Run(list, i).lo
           hi(i) == Run(list, i).hi
<1>1. \A i \in g : i \in Int /\ lo(i) \in Int /\ hi(i) \in Int
  BY ItemIs
<1>2. \A i, j \in g : <<i, j>> \in before <=>
        lo(i) < lo(j) \/ (lo(i) = lo(j) /\ hi(i) < hi(j)) \/ (lo(i) = lo(j) /\ hi(i) = hi(j) /\ i < j)
  BY DEF Precedes
<1> HIDE DEF before, lo, hi
<1>3. \A x \in g : <<x, x>> \notin before
  BY <1>1, <1>2
<1>4. \A x, y, z \in g : <<x, y>> \in before /\ <<y, z>> \in before => <<x, z>> \in before
  <2> SUFFICES ASSUME NEW x \in g, NEW y \in g, NEW z \in g, <<x, y>> \in before, <<y, z>> \in before
               PROVE  <<x, z>> \in before
    OBVIOUS
  <2>1. lo(x) < lo(y) \/ (lo(x) = lo(y) /\ hi(x) < hi(y)) \/ (lo(x) = lo(y) /\ hi(x) = hi(y) /\ x < y)
    BY <1>2
  <2>2. lo(y) < lo(z) \/ (lo(y) = lo(z) /\ hi(y) < hi(z)) \/ (lo(y) = lo(z) /\ hi(y) = hi(z) /\ y < z)
    BY <1>2
  <2>3. lo(x) < lo(z) \/ (lo(x) = lo(z) /\ hi(x) < hi(z)) \/ (lo(x) = lo(z) /\ hi(x) = hi(z) /\ x < z)
    BY <1>1, <2>1, <2>2
  <2> QED
    BY <1>2, <2>3
<1>5. \A x, y \in g : x # y => <<x, y>> \in before \/ <<y, x>> \in before
  <2> SUFFICES ASSUME NEW x \in g, NEW y \in g, x # y PROVE <<x, y>> \in before \/ <<y, x>> \in before
    OBVIOUS
  <2>1. x < y \/ y < x
    BY <1>1
  <2> QED
    BY <1>1, <1>2, <2>1
<1> QED
  BY <1>3, <1>4, <1>5 DEF TotalOn, before

LEMMA BySpanIs ==
    ASSUME NEW list, AreRecords(list), NEW g \in SUBSET Items(list)
    PROVE  /\ BySpan(list, g) \in Seq(g) /\ ToSet(BySpan(list, g)) = g
           /\ \A i, j \in DOMAIN BySpan(list, g) : i < j =>
                Run(list, BySpan(list, g)[i]).lo <= Run(list, BySpan(list, g)[j]).lo
<1> DEFINE before == {x \in g \X g : Precedes(list, x[1], x[2])}
           at == BySpan(list, g)
<1>1. IsFiniteSet(g)
  <2>1. IsFiniteSet(DOMAIN list) /\ g \subseteq DOMAIN list
    BY DomainIs DEF AreRecords, Items
  <2> QED
    BY <2>1, FS_Subset
<1>2. IsListed(at, g, before) /\ ToSet(at) = g
  BY <1>1, SpansOrdered, InTurnLists DEF BySpan
<1> HIDE DEF at
<1>3. ASSUME NEW i \in DOMAIN at, NEW j \in DOMAIN at, i < j
      PROVE  Run(list, at[i]).lo <= Run(list, at[j]).lo
  <2>1. Precedes(list, at[i], at[j])
    BY <1>2, <1>3 DEF IsListed
  <2>2. at[i] \in g /\ at[j] \in g
    BY <1>2 DEF IsListed
  <2>3. Run(list, at[i]).lo \in Int /\ Run(list, at[j]).lo \in Int
    BY <2>2, ItemIs
  <2> QED
    BY <2>1, <2>3 DEF Precedes
<1> QED
  BY <1>2, <1>3 DEF IsListed, at

LEMMA AppendIs ==
    ASSUME NEW S, NEW s \in Seq(S), NEW x \in S
    PROVE  /\ Append(s, x) \in Seq(S) /\ Len(Append(s, x)) = Len(s) + 1 /\ Append(s, x)[Len(s) + 1] = x
           /\ \A i \in 1 .. Len(s) : Append(s, x)[i] = s[i]
OBVIOUS

RunStates(g) == [lo : Int, hi : Int, first : g, members : SUBSET g]
RunFits(list, r) == r.lo <= r.hi /\ r.first \in r.members /\ r.lo .. r.hi = UNION {RangeBits(list, m) : m \in r.members}

(* After k places: the runs have them all, and leave a bit between them.   *)
SweepInv(list, g, at, k, runs) ==
  /\ runs \in Seq(RunStates(g))
  /\ \A a \in 1 .. Len(runs) : RunFits(list, runs[a])
  /\ \A j \in 1 .. k : \E a \in 1 .. Len(runs) : at[j] \in runs[a].members
  /\ \A a, b \in 1 .. Len(runs) : a < b => runs[a].hi + 1 < runs[b].lo
  /\ IF k = 0 THEN runs = <<>> ELSE runs # <<>> /\ runs[Len(runs)].lo <= Run(list, at[k]).lo

(* One range more: it extends the last run, or starts one.                 *)
LEMMA ExtendKeeps ==
    ASSUME NEW list, AreRecords(list), NEW g \in SUBSET Items(list), NEW at \in Seq(g),
           \A i, j \in DOMAIN at : i < j => Run(list, at[i]).lo <= Run(list, at[j]).lo,
           NEW k \in 1 .. Len(at), NEW runs, SweepInv(list, g, at, k - 1, runs)
    PROVE  SweepInv(list, g, at, k, Extend(runs, Run(list, at[k])))
<1> DEFINE x == Run(list, at[k])
           N == Len(runs)
           t == Last(runs)
           u == Extend(runs, x)
<1>1. /\ at[k] \in g /\ k \in Nat /\ k # 0 /\ k \in DOMAIN at
      /\ \A j : j \in 1 .. k <=> (j \in 1 .. k - 1 \/ j = k)
  OBVIOUS
<1>2. /\ x.lo \in Int /\ x.hi \in Int /\ x.lo <= x.hi /\ RangeBits(list, at[k]) = x.lo .. x.hi
      /\ x.first = at[k] /\ x.members = {at[k]}
      /\ x = [lo |-> x.lo, hi |-> x.hi, first |-> at[k], members |-> {at[k]}]
  BY <1>1, ItemIs
<1>3. x \in RunStates(g) /\ RunFits(list, x)
  <2>1. UNION {RangeBits(list, m) : m \in x.members} = RangeBits(list, at[k])
    BY <1>2
  <2> HIDE DEF x
  <2> QED
    BY <1>1, <1>2, <2>1 DEF RunStates, RunFits
<1>4. /\ runs \in Seq(RunStates(g)) /\ N \in Nat /\ \A a \in 1 .. N : runs[a] \in RunStates(g) /\ RunFits(list, runs[a])
      /\ \A j \in 1 .. k - 1 : \E a \in 1 .. N : at[j] \in runs[a].members
      /\ \A a, b \in 1 .. N : a < b => runs[a].hi + 1 < runs[b].lo
  BY DEF SweepInv
<1>5. \A a \in 1 .. N : runs[a].lo \in Int /\ runs[a].hi \in Int /\ runs[a].lo <= runs[a].hi
  BY <1>4 DEF RunStates, RunFits
<1> HIDE DEF x
<1>6. CASE runs = <<>>
  <2>1. u = Append(runs, x) /\ N = 0
    BY <1>6 DEF Extend
  <2>2. u \in Seq(RunStates(g)) /\ Len(u) = 1 /\ u[1] = x /\ u # <<>>
    <3>1. Append(runs, x) \in Seq(RunStates(g)) /\ Len(Append(runs, x)) = N + 1 /\ Append(runs, x)[N + 1] = x
      BY <1>3, <1>4, AppendIs
    <3>2. N + 1 = 1
      BY <2>1
    <3> HIDE DEF u
    <3>3. u \in Seq(RunStates(g)) /\ Len(u) = 1 /\ u[1] = x
      BY <2>1, <3>1, <3>2
    <3>4. Append(runs, x) # <<>>
      BY <1>4, <3>1, <3>2
    <3> QED
      BY <2>1, <3>3, <3>4
  <2>3. k = 1
    <3> SUFFICES ASSUME k # 1 PROVE FALSE
      OBVIOUS
    <3>1. 1 \in 1 .. k - 1
      BY <1>1
    <3>2. PICK a \in 1 .. N : TRUE
      BY <1>4, <3>1
    <3> QED
      BY <2>1
  <2>4. \A a \in 1 .. 1 : a = 1
    OBVIOUS
  <2> HIDE DEF u
  <2>5. at[k] \in x.members /\ x.lo <= x.lo
    BY <1>2
  <2> QED
    BY <1>1, <1>3, <2>2, <2>3, <2>4, <2>5 DEF SweepInv, x, u
<1>7. CASE runs # <<>>
  <2>1. N \in 1 .. N /\ t = runs[N] /\ N - 1 \in Nat
    BY <1>4, <1>7 DEF Last
  <2>2. t \in RunStates(g) /\ RunFits(list, t) /\ t.lo \in Int /\ t.hi \in Int /\ t.lo <= t.hi
    BY <1>4, <1>5, <2>1
  <2>3. t.lo <= x.lo
    <3>1. k - 1 # 0
      BY <1>7 DEF SweepInv
    <3>2. k - 1 \in DOMAIN at /\ k - 1 < k
      BY <1>1, <3>1
    <3>3. t.lo <= Run(list, at[k - 1]).lo
      BY <2>1, <3>1 DEF SweepInv
    <3>4. Run(list, at[k - 1]).lo <= x.lo
      BY <1>1, <3>2 DEF x
    <3>5. Run(list, at[k - 1]).lo \in Int
      <4>1. at[k - 1] \in g
        BY <3>2
      <4> QED
        BY <4>1, ItemIs
    <3> QED
      BY <1>2, <2>2, <3>3, <3>4, <3>5
  <2>4. CASE x.lo <= t.hi + 1
    <3> DEFINE y == Join(t, x)
    <3>1. u = Append(Front(runs), y)
      BY <1>7, <2>4 DEF Extend
    <3>2. y.lo = t.lo /\ y.hi = (IF t.hi >= x.hi THEN t.hi ELSE x.hi) /\ y.members = t.members \cup x.members
          /\ y.first = (IF t.first <= x.first THEN t.first ELSE x.first)
          /\ y = [lo |-> y.lo, hi |-> y.hi, first |-> y.first, members |-> y.members]
      <4>1. t.first \in Int /\ x.first \in Int
        <5>1. \A i \in g : i \in Int
          BY ItemIs
        <5> QED
          BY <1>3, <2>2, <5>1 DEF RunStates
      <4> QED
        <5>1. y = [lo |-> t.lo, hi |-> Max({t.hi, x.hi}), first |-> Min({t.first, x.first}),
                   members |-> t.members \cup x.members]
          BY DEF Join
        <5>2. /\ Max({t.hi, x.hi}) = (IF t.hi >= x.hi THEN t.hi ELSE x.hi)
              /\ Min({t.first, x.first}) = (IF t.first <= x.first THEN t.first ELSE x.first)
          <6> DEFINE a == t.hi
                     b == x.hi
                     c == t.first
                     d == x.first
          <6>1. a \in Int /\ b \in Int /\ c \in Int /\ d \in Int
            BY <1>2, <2>2, <4>1
          <6> HIDE DEF a, b, c, d
          <6>2. Max({a, b}) = (IF a >= b THEN a ELSE b) /\ Min({c, d}) = (IF c <= d THEN c ELSE d)
            BY <6>1, OfTwo
          <6> QED
            BY <6>2 DEF a, b, c, d
        <5> HIDE DEF y
        <5> QED
          BY <5>1, <5>2
    <3> HIDE DEF y
    <3>3. y.first \in y.members /\ y.members \in SUBSET g /\ y.lo \in Int /\ y.hi \in Int /\ y.lo <= y.hi
          /\ y.first \in g
      BY <1>2, <1>3, <2>2, <3>2 DEF RunStates, RunFits
    <3>4. y.lo .. y.hi = (t.lo .. t.hi) \cup (x.lo .. x.hi)
      <4>1. ASSUME NEW b \in Int
            PROVE  (y.lo <= b /\ b <= y.hi) <=> ((t.lo <= b /\ b <= t.hi) \/ (x.lo <= b /\ b <= x.hi))
        BY <1>2, <2>2, <2>3, <2>4, <3>2
      <4> QED
        BY <1>2, <2>2, <3>3, <4>1
    <3>5. UNION {RangeBits(list, m) : m \in y.members} = (t.lo .. t.hi) \cup (x.lo .. x.hi)
      <4>1. t.lo .. t.hi = UNION {RangeBits(list, m) : m \in t.members} /\ x.lo .. x.hi = UNION {RangeBits(list, m) : m \in x.members}
        BY <1>3, <2>2 DEF RunFits
      <4>2. \A A, B : UNION {RangeBits(list, m) : m \in A \cup B} = (UNION {RangeBits(list, m) : m \in A}) \cup (UNION {RangeBits(list, m) : m \in B})
        OBVIOUS
      <4>3. UNION {RangeBits(list, m) : m \in t.members \cup x.members}
            = (UNION {RangeBits(list, m) : m \in t.members}) \cup (UNION {RangeBits(list, m) : m \in x.members})
        BY ONLY <4>2
      <4>4. y.members = t.members \cup x.members
        BY <3>2
      <4> QED
        BY ONLY <4>1, <4>3, <4>4
    <3>6. y \in RunStates(g) /\ RunFits(list, y)
      BY <3>2, <3>3, <3>4, <3>5 DEF RunStates, RunFits
    <3>7. u \in Seq(RunStates(g)) /\ Len(u) = N /\ u[N] = y /\ (\A a \in 1 .. N - 1 : u[a] = runs[a]) /\ u # <<>>
      <4>1. Front(runs) \in Seq(RunStates(g)) /\ Len(Front(runs)) = N - 1 /\ \A a \in 1 .. N - 1 : Front(runs)[a] = runs[a]
        BY <1>4, <1>7, FrontIs
      <4>2. (N - 1) + 1 = N
        BY <1>4
      <4>3. /\ Append(Front(runs), y) \in Seq(RunStates(g)) /\ Len(Append(Front(runs), y)) = N
            /\ Append(Front(runs), y)[N] = y
            /\ \A a \in 1 .. N - 1 : Append(Front(runs), y)[a] = runs[a]
        BY <3>6, <4>1, <4>2, AppendIs
      <4>4. Append(Front(runs), y) # <<>>
        BY <2>1, <4>1, <4>3
      <4> QED
        BY <3>1, <4>3, <4>4
    <3> HIDE DEF u
    <3>8. \A a \in 1 .. N : a \in 1 .. N - 1 \/ a = N
      BY <1>4
    <3>9. \A a \in 1 .. N - 1 : a \in 1 .. N /\ a < N /\ a # N
      BY <1>4
    <3>10. \A a \in 1 .. N : RunFits(list, u[a])
      BY <1>4, <3>6, <3>7, <3>8, <3>9
    <3>11. ASSUME NEW j \in 1 .. k
           PROVE  \E a \in 1 .. N : at[j] \in u[a].members
      <4>1. CASE j = k
        BY <1>2, <2>1, <3>2, <3>7, <4>1
      <4>2. CASE j # k
        <5>1. PICK a \in 1 .. N : at[j] \in runs[a].members
          BY <1>1, <1>4, <4>2
        <5>2. CASE a = N
          BY <2>1, <3>2, <3>7, <5>1, <5>2
        <5>3. CASE a # N
          BY <3>7, <3>8, <5>1, <5>3
        <5> QED
          BY <5>2, <5>3
      <4> QED
        BY <4>1, <4>2
    <3>12. ASSUME NEW a \in 1 .. N, NEW b \in 1 .. N, a < b
           PROVE  u[a].hi + 1 < u[b].lo
      <4>1. a \in 1 .. N - 1 /\ u[a] = runs[a]
        BY <1>4, <3>7, <3>12
      <4>2. u[b].lo = runs[b].lo
        BY <2>1, <3>2, <3>7, <3>8
      <4> QED
        BY <1>4, <3>12, <4>1, <4>2
    <3>13. u[Len(u)].lo <= x.lo
      BY <2>3, <3>2, <3>7
    <3> QED
      BY <1>1, <3>7, <3>10, <3>11, <3>12, <3>13 DEF SweepInv, x, u
  <2>5. CASE ~(x.lo <= t.hi + 1)
    <3>1. u = Append(runs, x)
      BY <2>5 DEF Extend
    <3>2. u \in Seq(RunStates(g)) /\ Len(u) = N + 1 /\ u[N + 1] = x /\ (\A a \in 1 .. N : u[a] = runs[a]) /\ u # <<>>
      BY <1>3, <1>4, <3>1, AppendIs
    <3> HIDE DEF u
    <3>3. \A a \in 1 .. N + 1 : a \in 1 .. N \/ a = N + 1
      BY <1>4
    <3>4. \A a \in 1 .. N + 1 : RunFits(list, u[a])
      BY <1>3, <1>4, <3>2, <3>3
    <3>5. ASSUME NEW j \in 1 .. k
          PROVE  \E a \in 1 .. N + 1 : at[j] \in u[a].members
      <4>1. CASE j = k
        <5>1. N + 1 \in 1 .. N + 1
          BY <1>4
        <5> QED
          BY <1>2, <3>2, <4>1, <5>1
      <4>2. CASE j # k
        <5>1. PICK a \in 1 .. N : at[j] \in runs[a].members
          BY <1>1, <1>4, <4>2
        <5>2. a \in 1 .. N + 1
          BY <1>4
        <5> QED
          BY <3>2, <5>1, <5>2
      <4> QED
        BY <4>1, <4>2
    <3>6. ASSUME NEW a \in 1 .. N + 1, NEW b \in 1 .. N + 1, a < b
          PROVE  u[a].hi + 1 < u[b].lo
      <4>1. a \in 1 .. N /\ u[a] = runs[a]
        BY <1>4, <3>2, <3>6
      <4>2. CASE b # N + 1
        BY <1>4, <3>2, <3>3, <3>6, <4>1, <4>2
      <4>3. CASE b = N + 1
        <5>1. t.hi + 1 < x.lo
          BY <1>2, <2>2, <2>5
        <5>2. runs[a].hi <= t.hi
          <6>1. CASE a = N
            BY <2>1, <2>2, <6>1
          <6>2. CASE a # N
            <7>1. runs[a].hi + 1 < runs[N].lo
              BY <1>4, <2>1, <4>1, <6>2
            <7> QED
              BY <1>5, <2>1, <2>2, <4>1, <7>1
          <6> QED
            BY <6>1, <6>2
        <5> QED
          BY <1>2, <1>5, <2>2, <3>2, <4>1, <4>3, <5>1, <5>2
      <4> QED
        BY <4>2, <4>3
    <3>7. u[Len(u)].lo <= x.lo
      BY <1>2, <3>2
    <3> QED
      BY <1>1, <3>2, <3>4, <3>5, <3>6, <3>7 DEF SweepInv, x, u
  <2> QED
    BY <2>4, <2>5
<1> QED
  BY <1>6, <1>7

(* All ranges of a group.                                                  *)
LEMMA SweepIs ==
    ASSUME NEW list, AreRecords(list), NEW g \in SUBSET Items(list)
    PROVE  LET at == BySpan(list, g) IN SweepInv(list, g, at, Len(at), Sweep(list, g))
<1> DEFINE at == BySpan(list, g)
           N == Len(at)
           S == Seq(RunStates(g))
           J == [k \in 0 .. N |-> {runs \in S : SweepInv(list, g, at, k, runs)}]
           G == [x \in (1 .. N) \X S |-> Extend(x[2], Run(list, at[x[1]]))]
           d == Swept(list, at)
<1>0. /\ at \in Seq(g) /\ N \in Nat /\ Sweep(list, g) = d[N]
      /\ \A i, j \in DOMAIN at : i < j => Run(list, at[i]).lo <= Run(list, at[j]).lo
  BY BySpanIs DEF Sweep
<1> HIDE DEF at
<1>1. SweepInv(list, g, at, 0, <<>>)
  <2>1. <<>> \in S /\ Len(<<>>) = 0
    OBVIOUS
  <2> QED
    BY <2>1 DEF SweepInv
<1>2. ASSUME NEW k \in 1 .. N, NEW runs, SweepInv(list, g, at, k - 1, runs)
      PROVE  SweepInv(list, g, at, k, Extend(runs, Run(list, at[k])))
  BY <1>0, <1>2, ExtendKeeps
<1>3. \A k : \A runs : SweepInv(list, g, at, k, runs) => runs \in S
  BY DEF SweepInv
<1>4. PICK f : InSteps(f, N, <<>>, G, J)
  <2>1. J \in [0 .. N -> SUBSET S]
    OBVIOUS
  <2>2. <<>> \in J[0]
    BY <1>0, <1>1, <1>3
  <2>3. ASSUME NEW k \in 1 .. N, NEW runs \in J[k - 1]
        PROVE  G[<<k, runs>>] \in J[k]
    <3>1. k - 1 \in 0 .. N /\ k \in 0 .. N
      BY <1>0
    <3>2. runs \in S /\ SweepInv(list, g, at, k - 1, runs)
      BY <3>1
    <3>3. G[<<k, runs>>] = Extend(runs, Run(list, at[k]))
      <4>1. <<k, runs>> \in (1 .. N) \X S
        BY <3>2
      <4> HIDE DEF S
      <4> QED
        BY <4>1
    <3> HIDE DEF S, G
    <3> QED
      BY <1>2, <1>3, <3>1, <3>2, <3>3
  <2> HIDE DEF J, G, S
  <2> QED
    BY <1>0, <2>1, <2>2, <2>3, StepsInside
<1>5. f = [k \in 0 .. N |-> IF k = 0 THEN <<>> ELSE Extend(f[k - 1], Run(list, at[k]))]
  <2>1. ASSUME NEW k \in 0 .. N, k # 0
        PROVE  G[<<k, f[k - 1]>>] = Extend(f[k - 1], Run(list, at[k]))
    <3>1. k - 1 \in 0 .. N /\ k \in 1 .. N
      BY <1>0, <2>1
    <3>2. f[k - 1] \in S
      BY <1>4, <3>1 DEF InSteps
    <3>3. <<k, f[k - 1]>> \in (1 .. N) \X S
      BY <3>1, <3>2
    <3> HIDE DEF S
    <3> QED
      BY <3>3
  <2>2. [k \in 0 .. N |-> IF k = 0 THEN <<>> ELSE G[<<k, f[k - 1]>>]]
        = [k \in 0 .. N |-> IF k = 0 THEN <<>> ELSE Extend(f[k - 1], Run(list, at[k]))]
    <3> HIDE DEF G
    <3> QED
      BY <2>1
  <2>3. f = [k \in 0 .. N |-> IF k = 0 THEN <<>> ELSE G[<<k, f[k - 1]>>]]
    BY <1>4 DEF InSteps
  <2> QED
    BY ONLY <2>2, <2>3
<1>6. d = [k \in 0 .. N |-> IF k = 0 THEN <<>> ELSE Extend(d[k - 1], Run(list, at[k]))]
  <2> HIDE DEF J, G, S
  <2> QED
    BY <1>5 DEF Swept
<1> HIDE DEF d, J, G, S
<1> DEFINE T == {k \in Nat : k <= N => SweepInv(list, g, at, k, d[k])}
<1>7. 0 \in T
  <2>1. 0 \in 0 .. N
    BY <1>0
  <2>2. d[0] = <<>>
    BY <1>6, <2>1
  <2> QED
    BY <1>1, <2>2
<1>8. ASSUME NEW k \in T PROVE k + 1 \in T
  <2> SUFFICES ASSUME k + 1 <= N PROVE SweepInv(list, g, at, k + 1, d[k + 1])
    OBVIOUS
  <2>1. k \in Nat /\ k + 1 \in 0 .. N /\ k + 1 \in 1 .. N /\ k + 1 # 0 /\ (k + 1) - 1 = k /\ k <= N
    BY <1>0
  <2>2. d[k + 1] = Extend(d[k], Run(list, at[k + 1]))
    BY <1>6, <2>1
  <2>3. SweepInv(list, g, at, (k + 1) - 1, d[k])
    BY <2>1
  <2> QED
    BY <1>2, <2>1, <2>2, <2>3
<1>9. T = Nat
  <2> HIDE DEF T
  <2>1. T \in SUBSET Nat
    BY DEF T
  <2> QED
    BY <1>7, <1>8, <2>1, SetInduction
<1>10. SweepInv(list, g, at, N, d[N])
  BY <1>0, <1>9
<1> QED
  BY <1>0, <1>10 DEF at

(* All runs of a list.                                                     *)
RunIs(list, r) ==
  /\ r.lo \in Int /\ r.hi \in Int /\ r.members \subseteq Items(list) /\ RunFits(list, r)
  /\ \A m \in r.members : EndpointMergeKey(list[m]) = EndpointMergeKey(list[r.first])

LEMMA RunsAre ==
    ASSUME NEW list, AreRecords(list)
    PROVE  \A r \in RunsOf(list) :
             RunIs(list, r) /\ \E a \in DOMAIN Sweep(list, GroupOf(list, r.first)) : r = Sweep(list, GroupOf(list, r.first))[a]
<1> SUFFICES ASSUME NEW r \in RunsOf(list)
             PROVE  RunIs(list, r) /\ \E a \in DOMAIN Sweep(list, GroupOf(list, r.first)) : r = Sweep(list, GroupOf(list, r.first))[a]
  OBVIOUS
<1>1. PICK i \in Items(list) : r \in ToSet(Sweep(list, GroupOf(list, i)))
  BY DEF RunsOf
<1> DEFINE g == GroupOf(list, i)
           runs == Sweep(list, g)
<1>2. g \in SUBSET Items(list) /\ \A j \in g : EndpointMergeKey(list[j]) = EndpointMergeKey(list[i])
  BY DEF GroupOf
<1> HIDE DEF g
<1>3. SweepInv(list, g, BySpan(list, g), Len(BySpan(list, g)), runs)
  BY <1>2, SweepIs
<1> HIDE DEF runs
<1>4. runs \in Seq(RunStates(g)) /\ \A a \in 1 .. Len(runs) : RunFits(list, runs[a])
  BY <1>3 DEF SweepInv
<1>5. PICK a \in 1 .. Len(runs) : r = runs[a]
  BY <1>1, <1>4 DEF ToSet, g, runs
<1>6. r \in RunStates(g) /\ RunFits(list, r)
  BY <1>4, <1>5
<1>7. r.lo \in Int /\ r.hi \in Int /\ r.members \subseteq g /\ r.first \in g
  BY <1>6 DEF RunStates
<1>8. GroupOf(list, r.first) = g
  BY <1>2, <1>7 DEF GroupOf, g
<1>9. RunIs(list, r)
  BY <1>2, <1>6, <1>7 DEF RunIs
<1> QED
  BY <1>4, <1>5, <1>8, <1>9 DEF runs

(* Every mergeable record is in a run, ...                                 *)
LEMMA RunsCover ==
    ASSUME NEW list, AreRecords(list), NEW i \in Items(list)
    PROVE  \E r \in RunsOf(list) : i \in r.members
<1> DEFINE g == GroupOf(list, i)
           at == BySpan(list, g)
           runs == Sweep(list, g)
<1>1. g \in SUBSET Items(list) /\ i \in g
  BY DEF GroupOf
<1> HIDE DEF g
<1>2. SweepInv(list, g, at, Len(at), runs) /\ at \in Seq(g) /\ ToSet(at) = g
  BY <1>1, SweepIs, BySpanIs
<1> HIDE DEF at, runs
<1>3. PICK j \in 1 .. Len(at) : at[j] = i
  BY <1>1, <1>2 DEF ToSet
<1>4. PICK a \in 1 .. Len(runs) : i \in runs[a].members
  BY <1>2, <1>3 DEF SweepInv
<1>5. runs[a] \in ToSet(runs)
  BY <1>2, <1>4 DEF SweepInv, ToSet
<1>6. runs[a] \in RunsOf(list)
  BY <1>5 DEF RunsOf, g, runs
<1> QED
  BY <1>4, <1>6

(* ... the runs of one key leave a bit between them, ...                   *)
LEMMA RunsApart ==
    ASSUME NEW list, AreRecords(list), NEW r \in RunsOf(list), NEW q \in RunsOf(list),
           EndpointMergeKey(list[r.first]) = EndpointMergeKey(list[q.first])
    PROVE  r = q \/ r.hi + 1 < q.lo \/ q.hi + 1 < r.lo
<1> DEFINE g == GroupOf(list, r.first)
           runs == Sweep(list, g)
<1>1. g \in SUBSET Items(list) /\ GroupOf(list, q.first) = g
  BY DEF GroupOf
<1>2. (\E a \in DOMAIN runs : r = runs[a]) /\ \E a \in DOMAIN runs : q = runs[a]
  BY <1>1, RunsAre
<1> HIDE DEF g
<1>3. SweepInv(list, g, BySpan(list, g), Len(BySpan(list, g)), runs)
  BY <1>1, SweepIs
<1> HIDE DEF runs
<1>4. /\ DOMAIN runs = 1 .. Len(runs) /\ Len(runs) \in Nat
      /\ \A a, b \in 1 .. Len(runs) : a < b => runs[a].hi + 1 < runs[b].lo
  BY <1>3 DEF SweepInv
<1>5. PICK a \in 1 .. Len(runs) : r = runs[a]
  BY <1>2, <1>4
<1>6. PICK b \in 1 .. Len(runs) : q = runs[b]
  BY <1>2, <1>4
<1>7. a = b \/ a < b \/ b < a
  BY <1>4
<1> QED
  BY <1>4, <1>5, <1>6, <1>7

(* ... and no two runs share a record.                                     *)
LEMMA RunsDisjoint ==
    ASSUME NEW list, AreRecords(list), NEW r \in RunsOf(list), NEW q \in RunsOf(list),
           NEW m \in r.members, m \in q.members
    PROVE  r = q
<1>1. RunIs(list, r) /\ RunIs(list, q)
  BY RunsAre
<1>2. EndpointMergeKey(list[r.first]) = EndpointMergeKey(list[q.first])
  BY <1>1 DEF RunIs
<1>3. RangeBits(list, m) \subseteq r.lo .. r.hi /\ RangeBits(list, m) \subseteq q.lo .. q.hi
  BY <1>1 DEF RunIs, RunFits
<1>4. RangeBits(list, m) # {}
  <2>1. m \in Items(list)
    BY <1>1 DEF RunIs
  <2>2. RangeBits(list, m) = Run(list, m).lo .. Run(list, m).hi /\ Run(list, m).lo \in Int /\ Run(list, m).hi \in Int
        /\ Run(list, m).lo <= Run(list, m).hi
    BY <2>1, ItemIs
  <2> QED
    BY <2>2
<1>5. PICK b : b \in r.lo .. r.hi /\ b \in q.lo .. q.hi
  BY <1>3, <1>4
<1>6. ~(r.hi + 1 < q.lo) /\ ~(q.hi + 1 < r.lo)
  BY <1>1, <1>5 DEF RunIs
<1> QED
  BY <1>2, <1>6, RunsApart

(* A record without its range and without the mark of a merge.             *)
Class(e) == [EndpointMergeKey(e) EXCEPT !.merged = FALSE]

LEMMA ClassIs ==
    ASSUME NEW a, IsEndpointRecord(a), ~a.merged
    PROVE  Class(a) = EndpointMergeKey(a)
<1>1. a = [f \in DOMAIN a |-> a[f]] /\ a.merged = FALSE
  BY DEF IsEndpointRecord
<1> DEFINE k == EndpointMergeKey(a)
           D == DOMAIN a
<1>2. k = [f \in DOMAIN a |-> k[f]] /\ k.merged = FALSE
  <2>1. k = [f \in D |-> IF f = "constant" THEN FALSE ELSE IF f = "unresolved" THEN FALSE
                         ELSE IF f = "routes" THEN <<>> ELSE IF f = "bits" THEN <<>> ELSE a[f]]
    BY DEF EndpointMergeKey
  <2>2. "merged" \in D
    BY DEF IsEndpointRecord
  <2> HIDE DEF k, D
  <2>3. k.merged = FALSE
    BY <1>1, <2>1, <2>2
  <2>4. k = [f \in D |-> k[f]]
    BY <2>1
  <2> QED
    BY <2>3, <2>4 DEF D
<1> HIDE DEF k
<1>3. [k EXCEPT !.merged = FALSE] = k
  BY <1>2
<1> QED
  BY <1>3 DEF Class, k

LEMMA ClassMerged ==
    ASSUME NEW a, IsEndpointRecord(a), NEW m \in BOOLEAN, NEW b
    PROVE  Class([a EXCEPT !.merged = m, !.bits = b]) = Class(a)
<1> DEFINE D == DOMAIN a
           e == [a EXCEPT !.merged = m, !.bits = b]
           F(x) == [f \in D |-> IF f = "merged" THEN FALSE ELSE IF f = "constant" THEN FALSE
                                ELSE IF f = "unresolved" THEN FALSE ELSE IF f = "routes" THEN <<>>
                                ELSE IF f = "bits" THEN <<>> ELSE x[f]]
<1>1. a = [f \in D |-> a[f]]
  BY DEF IsEndpointRecord
<1>2. DOMAIN e = D /\ \A f \in D : f # "merged" /\ f # "bits" => e[f] = a[f]
  OBVIOUS
<1>3. ASSUME NEW x, DOMAIN x = D
      PROVE  Class(x) = F(x)
  BY <1>3 DEF Class, EndpointMergeKey
<1>4. F(e) = F(a)
  <2> HIDE DEF e, D
  <2> QED
    BY <1>2
<1> HIDE DEF F, e
<1>5. Class(e) = F(e) /\ Class(a) = F(a)
  BY <1>2, <1>3
<1> QED
  BY <1>4, <1>5 DEF e

LEMMA MergedRecordIs ==
    ASSUME NEW list, AreRecords(list), NEW r \in RunsOf(list)
    PROVE  /\ Class(MergedRecord(list, r)) = Class(list[r.first])
           /\ Mergeable(MergedRecord(list, r)) /\ Span(MergedRecord(list, r).bits[1]) = r.lo .. r.hi
<1> DEFINE a == list[r.first]
           e == MergedRecord(list, r)
<1>1. RunIs(list, r)
  BY RunsAre
<1>2. r.first \in Items(list) /\ r.lo \in Int /\ r.hi \in Int /\ r.lo <= r.hi
  BY <1>1 DEF RunIs, RunFits
<1>3. IsEndpointRecord(a) /\ Mergeable(a)
  BY <1>2 DEF Items, AreRecords
<1>4. PICK x \in Int \X Int, m \in BOOLEAN :
        e = [a EXCEPT !.merged = m, !.bits = <<x>>] /\ (x = <<r.lo, r.hi>> \/ x = <<r.hi, r.lo>>)
  <2> SUFFICES ASSUME NEW up, NEW different \in BOOLEAN,
                      e = [a EXCEPT !.merged = @ \/ different,
                                    !.bits = << IF up THEN <<r.lo, r.hi>> ELSE FormatBitRange(r.hi, r.lo) >>]
               PROVE  \E x \in Int \X Int, m \in BOOLEAN :
                        e = [a EXCEPT !.merged = m, !.bits = <<x>>] /\ (x = <<r.lo, r.hi>> \/ x = <<r.hi, r.lo>>)
    <3> DEFINE up == (\E i \in r.members : list[i].bits[1][1] < list[i].bits[1][2])
                     /\ ~\E i \in r.members : list[i].bits[1][1] > list[i].bits[1][2]
               different == \E i, j \in r.members : Span(list[i].bits[1]) # Span(list[j].bits[1])
    <3>1. e = [a EXCEPT !.merged = @ \/ different,
                        !.bits = << IF up THEN <<r.lo, r.hi>> ELSE FormatBitRange(r.hi, r.lo) >>]
      BY DEF MergedRecord
    <3>2. different \in BOOLEAN
      OBVIOUS
    <3> HIDE DEF up, different, e, a
    <3> QED
      BY <3>1, <3>2
  <2> DEFINE x == IF up THEN <<r.lo, r.hi>> ELSE <<r.hi, r.lo>>
             m == a.merged \/ different
  <2>1. x \in Int \X Int /\ (x = <<r.lo, r.hi>> \/ x = <<r.hi, r.lo>>) /\ m \in BOOLEAN
    BY <1>2
  <2>2. e = [a EXCEPT !.merged = m, !.bits = <<x>>]
    BY DEF FormatBitRange
  <2> HIDE DEF x, m, e, a
  <2> QED
    BY <2>1, <2>2
<1>5. Span(x) = r.lo .. r.hi
  <2>1. Low(x) = r.lo /\ High(x) = r.hi
    BY <1>2, <1>4, RangeIs
  <2> QED
    BY <1>4, <2>1, RangeIs
<1>6. Class(e) = Class(a)
  <2> HIDE DEF e, a
  <2> QED
    BY <1>3, <1>4, ClassMerged
<1>7. e.bits = <<x>> /\ e.legacy = a.legacy /\ e.approx = a.approx /\ e.cover = a.cover
  <2> HIDE DEF e, a
  <2>1. {"bits", "approx", "cover", "legacy", "merged"} \subseteq DOMAIN a
    BY <1>3 DEF IsEndpointRecord
  <2> QED
    BY <1>4, <2>1
<1>8. Mergeable(e)
  <2>1. x # Symbolic
    <3>1. Len(x) = 2 /\ Len(<<>>) = 0
      BY <1>4
    <3> QED
      BY <3>1 DEF Symbolic
  <2>2. 1 \in {k \in DOMAIN e.bits : Len(e.bits) = 1 /\ e.bits[k] # Symbolic}
    BY <1>7, <2>1
  <2>3. ParseExactBitMapText(e.bits) # {}
    BY <2>2 DEF ParseExactBitMapText
  <2>4. a.legacy \/ (~a.approx /\ a.cover = {})
    BY <1>3 DEF Mergeable
  <2> HIDE DEF e, a
  <2> QED
    BY <1>7, <2>3, <2>4 DEF Mergeable
<1>9. Span(e.bits[1]) = r.lo .. r.hi
  <2>1. e.bits[1] = x
    BY <1>7
  <2> QED
    BY <1>5, <2>1
<1> QED
  BY <1>6, <1>8, <1>9

---------------------------------------------------------------------------
(* The parts of MergeEndpointBitRangesInPlace.                             *)
Many(list) == {run \in RunsOf(list) : Cardinality(run.members) > 1}
Dropped(list) == UNION {run.members \ {run.first} : run \in Many(list)}
United(list) == [i \in DOMAIN list |->
                   IF \E run \in Many(list) : run.first = i
                   THEN MergedRecord(list, CHOOSE run \in Many(list) : run.first = i) ELSE list[i]]

(* The record at i has become the one of a run.                            *)
StandsFor(list, i, r) ==
  /\ r \in RunsOf(list) /\ r.first = i
  /\ Mergeable(United(list)[i]) /\ Class(United(list)[i]) = Class(list[i])
  /\ Span(United(list)[i].bits[1]) = r.lo .. r.hi

LEMMA RunOfOne ==
    ASSUME NEW list, AreRecords(list), NEW r \in RunsOf(list), Cardinality(r.members) <= 1
    PROVE  r.members = {r.first}
<1>1. r.members \subseteq DOMAIN list /\ r.first \in r.members
  BY RunsAre DEF RunIs, RunFits, Items
<1>2. IsFiniteSet(r.members)
  BY <1>1, DomainIs, FS_Subset DEF AreRecords
<1>3. Cardinality(r.members) \in Nat
  BY <1>2, FS_CardinalityType
<1>4. Cardinality(r.members) = 1
  BY <1>1, <1>2, <1>3, FS_EmptySet
<1>5. PICK x : r.members = {x}
  BY <1>2, <1>4, FS_Singleton
<1> QED
  BY <1>1, <1>5

(* A run leaves its first record, a record without a range stays.          *)
LEMMA FirstsStay ==
    ASSUME NEW list, AreRecords(list), NEW r \in RunsOf(list)
    PROVE  r.first \in r.members /\ r.first \in Items(list) /\ r.first \notin Dropped(list)
<1>1. r.first \in r.members /\ r.first \in Items(list)
  BY RunsAre DEF RunIs, RunFits
<1>2. ASSUME NEW q \in Many(list), r.first \in q.members \ {q.first} PROVE FALSE
  <2>1. q \in RunsOf(list)
    BY DEF Many
  <2>2. r = q
    BY <1>1, <1>2, <2>1, RunsDisjoint
  <2> QED
    BY <1>2, <2>2
<1> QED
  BY <1>1, <1>2 DEF Dropped

LEMMA OthersStay ==
    ASSUME NEW list, AreRecords(list), NEW i \in DOMAIN list, i \notin Items(list)
    PROVE  i \notin Dropped(list) /\ United(list)[i] = list[i]
<1>1. \A r \in Many(list) : r.members \subseteq Items(list) /\ r.first \in r.members
  BY RunsAre DEF RunIs, RunFits, Many
<1>2. i \notin Dropped(list)
  BY <1>1 DEF Dropped
<1>3. ~\E run \in Many(list) : run.first = i
  BY <1>1
<1> QED
  BY <1>2, <1>3 DEF United

(* A mergeable record that is left stands for its run.                     *)
LEMMA UnitedIs ==
    ASSUME NEW list, AreRecords(list), NEW i \in Items(list), i \notin Dropped(list)
    PROVE  \E r : StandsFor(list, i, r)
<1>1. PICK r \in RunsOf(list) : i \in r.members
  BY RunsCover
<1>2. i \in DOMAIN list /\ Mergeable(list[i])
  BY DEF Items
<1>3. r.first = i
  <2>1. CASE r \in Many(list)
    BY <1>1, <2>1 DEF Dropped
  <2>2. CASE r \notin Many(list)
    <3>1. r.members \subseteq DOMAIN list
      BY RunsAre DEF RunIs, Items
    <3>2. Cardinality(r.members) \in Nat
      BY <3>1, DomainIs, FS_Subset, FS_CardinalityType DEF AreRecords
    <3>3. Cardinality(r.members) <= 1
      BY <2>2, <3>2 DEF Many
    <3> QED
      BY <1>1, <3>3, RunOfOne
  <2> QED
    BY <2>1, <2>2
<1>4. \A q \in RunsOf(list) : q.first = i => q = r
  <2> SUFFICES ASSUME NEW q \in RunsOf(list), q.first = i PROVE q = r
    OBVIOUS
  <2>1. i \in q.members
    BY FirstsStay
  <2> QED
    BY <1>1, <2>1, RunsDisjoint
<1> DEFINE e == United(list)[i]
<1>5. CASE r \in Many(list)
  <2>1. \A q \in Many(list) : q.first = i => q = r
    BY <1>4 DEF Many
  <2>2. (CHOOSE run \in Many(list) : run.first = i) = r
    BY <1>3, <1>5, <2>1
  <2>3. e = MergedRecord(list, r)
    BY <1>2, <1>3, <1>5, <2>2 DEF United
  <2>4. Class(MergedRecord(list, r)) = Class(list[i])
    BY <1>3, MergedRecordIs
  <2>5. Mergeable(MergedRecord(list, r)) /\ Span(MergedRecord(list, r).bits[1]) = r.lo .. r.hi
    BY MergedRecordIs
  <2> QED
    BY <1>3, <2>3, <2>4, <2>5 DEF StandsFor
<1>6. CASE r \notin Many(list)
  <2>1. ~\E q \in Many(list) : q.first = i
    BY <1>4, <1>6 DEF Many
  <2>2. e = list[i]
    BY <1>2, <2>1 DEF United
  <2>3. r.members = {i}
    <3>1. r.members \subseteq DOMAIN list
      BY RunsAre DEF RunIs, Items
    <3>2. Cardinality(r.members) \in Nat
      BY <3>1, DomainIs, FS_Subset, FS_CardinalityType DEF AreRecords
    <3>3. Cardinality(r.members) <= 1
      BY <1>6, <3>2 DEF Many
    <3> QED
      BY <1>3, <3>3, RunOfOne
  <2>4. r.lo .. r.hi = UNION {RangeBits(list, m) : m \in r.members}
    BY RunsAre DEF RunIs, RunFits
  <2>5. r.lo .. r.hi = RangeBits(list, i)
    BY <2>3, <2>4
  <2> QED
    BY <1>2, <1>3, <2>2, <2>5 DEF StandsFor, RangeBits
<1> QED
  BY <1>5, <1>6

(* What is left: m of the places at, which ascend.                         *)
IsLeft(list, m, at) ==
  /\ DOMAIN m = DOMAIN at /\ DOMAIN m \in SUBSET Int /\ IsFiniteSet(DOMAIN m)
  /\ \A k \in DOMAIN m : at[k] \in DOMAIN list /\ at[k] \notin Dropped(list) /\ m[k] = United(list)[at[k]]
  /\ \A i \in DOMAIN list : i \notin Dropped(list) => \E k \in DOMAIN m : at[k] = i
  /\ \A a, b \in DOMAIN m : a < b => at[a] < at[b]

LEMMA LeftIs ==
    ASSUME NEW list, AreRecords(list)
    PROVE  \E at : IsLeft(list, MergeEndpointBitRangesInPlace(list), at)
<1> DEFINE M == DOMAIN list \ Dropped(list)
           at == Ascending(M)
           m == MergeEndpointBitRangesInPlace(list)
<1>1. M \in SUBSET Int /\ IsFiniteSet(M)
  BY DomainIs, FS_Subset DEF AreRecords
<1>2. m = Picked(United(list), M)
  BY DEF MergeEndpointBitRangesInPlace, Dropped, United, Many
<1> HIDE DEF M, m
<1>3. m = [k \in DOMAIN at |-> United(list)[at[k]]]
  BY <1>2 DEF Picked
<1>4. /\ DOMAIN at = 1 .. Cardinality(M) /\ Cardinality(M) \in Nat
      /\ \A k \in DOMAIN at : at[k] \in M
      /\ \A i \in M : \E k \in DOMAIN at : at[k] = i
      /\ \A i, j \in DOMAIN at : i < j => at[i] < at[j]
  BY <1>1, AscendingIs
<1>5. IsFiniteSet(DOMAIN at)
  <2>1. 1 \in Int /\ Cardinality(M) \in Int
    BY <1>4
  <2> QED
    BY <1>4, <2>1, FS_Interval
<1> HIDE DEF at
<1>6. DOMAIN m = DOMAIN at /\ \A k \in DOMAIN at : m[k] = United(list)[at[k]]
  BY <1>3
<1>7. IsLeft(list, m, at)
  <2>1. DOMAIN m \in SUBSET Int /\ IsFiniteSet(DOMAIN m)
    BY <1>4, <1>5, <1>6
  <2>2. \A i : i \in M <=> i \in DOMAIN list /\ i \notin Dropped(list)
    BY DEF M
  <2> QED
    BY <1>4, <1>6, <2>1, <2>2 DEF IsLeft
<1> QED
  BY <1>7 DEF m

(* A record of the result that is mergeable stands for a run.              *)
LEMMA LeftStands ==
    ASSUME NEW list, AreRecords(list), NEW m, NEW at, IsLeft(list, m, at), NEW k \in DOMAIN m
    PROVE  /\ Mergeable(m[k]) <=> at[k] \in Items(list)
           /\ Mergeable(m[k]) => \E r : StandsFor(list, at[k], r)
           /\ ~Mergeable(m[k]) => m[k] = list[at[k]]
<1>1. at[k] \in DOMAIN list /\ at[k] \notin Dropped(list) /\ m[k] = United(list)[at[k]]
  BY DEF IsLeft
<1>2. CASE at[k] \in Items(list)
  <2>1. PICK r : StandsFor(list, at[k], r)
    BY <1>1, <1>2, UnitedIs
  <2> QED
    BY <1>1, <1>2, <2>1 DEF StandsFor
<1>3. CASE at[k] \notin Items(list)
  <2>1. m[k] = list[at[k]]
    BY <1>1, <1>3, OthersStay
  <2> QED
    BY <1>1, <1>3, <2>1 DEF Items
<1> QED
  BY <1>2, <1>3

Spans(l, e) == {Span(l[i].bits[1]) : i \in {j \in DOMAIN l : Mergeable(l[j]) /\ Class(l[j]) = Class(e)}}

(* The records of a run differ in their range alone.                       *)
LEMMA MembersAlike ==
    ASSUME NEW list, AreRecords(list), NEW r \in RunsOf(list), NEW i \in r.members
    PROVE  i \in Items(list) /\ i \in DOMAIN list /\ Mergeable(list[i]) /\ Class(list[i]) = Class(list[r.first])
           /\ RangeBits(list, i) \subseteq r.lo .. r.hi
<1>1. RunIs(list, r)
  BY RunsAre
<1>2. EndpointMergeKey(list[i]) = EndpointMergeKey(list[r.first])
  BY <1>1 DEF RunIs
<1>3. Class(list[i]) = Class(list[r.first])
  BY <1>2 DEF Class
<1> QED
  BY <1>1, <1>3 DEF RunIs, RunFits, Items

(* The three parts of MergeExact.                                          *)
LEMMA BitsKept ==
    ASSUME NEW list, AreRecords(list), NEW m, NEW at, IsLeft(list, m, at), NEW e
    PROVE  UNION Spans(list, e) = UNION Spans(m, e)
<1>1. ASSUME NEW x \in UNION Spans(list, e)
      PROVE  x \in UNION Spans(m, e)
  <2>1. PICK i \in DOMAIN list : Mergeable(list[i]) /\ Class(list[i]) = Class(e) /\ x \in RangeBits(list, i)
    BY DEF Spans, RangeBits
  <2>2. PICK r \in RunsOf(list) : i \in r.members
    BY <2>1, RunsCover DEF Items
  <2> DEFINE f == r.first
  <2>3. f \in r.members /\ f \in Items(list) /\ f \notin Dropped(list)
    BY FirstsStay
  <2>4. PICK q : StandsFor(list, f, q)
    BY <2>3, UnitedIs
  <2>5. q = r
    <3>1. q \in RunsOf(list) /\ q.first = f
      BY <2>4 DEF StandsFor
    <3>2. f \in q.members
      BY <3>1, FirstsStay
    <3> QED
      BY <2>3, <3>1, <3>2, RunsDisjoint
  <2>6. x \in r.lo .. r.hi /\ Class(list[f]) = Class(list[i])
    BY <2>1, <2>2, MembersAlike
  <2>7. PICK k \in DOMAIN m : at[k] = f
    BY <2>3 DEF IsLeft, Items
  <2>8. m[k] = United(list)[f]
    BY <2>7 DEF IsLeft
  <2>9. Mergeable(m[k]) /\ Class(m[k]) = Class(e) /\ x \in Span(m[k].bits[1])
    BY <2>1, <2>4, <2>5, <2>6, <2>8 DEF StandsFor
  <2> QED
    BY <2>9 DEF Spans
<1>2. ASSUME NEW x \in UNION Spans(m, e)
      PROVE  x \in UNION Spans(list, e)
  <2>1. PICK k \in DOMAIN m : Mergeable(m[k]) /\ Class(m[k]) = Class(e) /\ x \in Span(m[k].bits[1])
    BY DEF Spans
  <2>2. PICK r : StandsFor(list, at[k], r)
    BY <2>1, LeftStands
  <2>3. m[k] = United(list)[at[k]]
    BY DEF IsLeft
  <2>4. x \in r.lo .. r.hi /\ r \in RunsOf(list) /\ Class(list[r.first]) = Class(e)
    BY <2>1, <2>2, <2>3 DEF StandsFor
  <2>5. r.lo .. r.hi = UNION {RangeBits(list, i) : i \in r.members}
    BY <2>4, RunsAre DEF RunIs, RunFits
  <2>6. PICK i \in r.members : x \in RangeBits(list, i)
    BY <2>4, <2>5
  <2>7. i \in DOMAIN list /\ Mergeable(list[i]) /\ Class(list[i]) = Class(e)
    BY <2>4, MembersAlike
  <2> QED
    BY <2>6, <2>7 DEF Spans, RangeBits
<1> QED
  BY <1>1, <1>2

LEMMA EndsOf ==
    ASSUME NEW lo \in Int, NEW hi \in Int, lo <= hi
    PROVE  Min(lo .. hi) = lo /\ Max(lo .. hi) = hi
<1>1. lo \in lo .. hi /\ \A x \in lo .. hi : lo <= x
  OBVIOUS
<1>2. hi \in lo .. hi /\ \A x \in lo .. hi : hi >= x
  OBVIOUS
<1>3. \A x, y \in Int : x <= y /\ y <= x => x = y
  OBVIOUS
<1>4. Min(lo .. hi) \in lo .. hi /\ \A x \in lo .. hi : Min(lo .. hi) <= x
  BY <1>1 DEF Min
<1>5. Max(lo .. hi) \in lo .. hi /\ \A x \in lo .. hi : Max(lo .. hi) >= x
  BY <1>2 DEF Max
<1>6. Min(lo .. hi) \in Int /\ Max(lo .. hi) \in Int
  BY <1>4, <1>5
<1>7. Min(lo .. hi) <= lo /\ lo <= Min(lo .. hi)
  BY <1>1, <1>4
<1>8. Max(lo .. hi) <= hi /\ hi <= Max(lo .. hi)
  BY <1>2, <1>5, <1>6
<1>9. Min(lo .. hi) = lo
  BY <1>3, <1>6, <1>7, Zenon
<1>10. Max(lo .. hi) = hi
  BY <1>3, <1>6, <1>8, Zenon
<1> QED
  BY <1>9, <1>10

Touching(a, b) == Min(a) <= Max(b) + 1 /\ Min(b) <= Max(a) + 1

LEMMA LeftApart ==
    ASSUME NEW list, AreRecords(list), NEW m, NEW at, IsLeft(list, m, at),
           NEW a \in DOMAIN m, NEW b \in DOMAIN m, a < b, Mergeable(m[a]), Mergeable(m[b]), Class(m[a]) = Class(m[b])
    PROVE  ~Touching(Span(m[a].bits[1]), Span(m[b].bits[1]))
<1>1. PICK r : StandsFor(list, at[a], r)
  BY LeftStands
<1>2. PICK q : StandsFor(list, at[b], q)
  BY LeftStands
<1>3. m[a] = United(list)[at[a]] /\ m[b] = United(list)[at[b]] /\ at[a] < at[b]
  BY DEF IsLeft
<1>4. /\ r \in RunsOf(list) /\ r.first = at[a] /\ Class(m[a]) = Class(list[r.first]) /\ Span(m[a].bits[1]) = r.lo .. r.hi
      /\ q \in RunsOf(list) /\ q.first = at[b] /\ Class(m[b]) = Class(list[q.first]) /\ Span(m[b].bits[1]) = q.lo .. q.hi
  BY <1>1, <1>2, <1>3 DEF StandsFor
<1>5. /\ r.lo \in Int /\ r.hi \in Int /\ r.lo <= r.hi /\ r.first \in Items(list)
      /\ q.lo \in Int /\ q.hi \in Int /\ q.lo <= q.hi /\ q.first \in Items(list)
  BY <1>4, RunsAre DEF RunIs, RunFits
<1>6. r # q
  <2>1. r.first \in Nat /\ q.first \in Nat
    BY <1>5, ItemIs
  <2> QED
    BY <1>3, <1>4, <2>1
<1>7. EndpointMergeKey(list[r.first]) = EndpointMergeKey(list[q.first])
  <2>1. /\ IsEndpointRecord(list[r.first]) /\ ~list[r.first].merged
        /\ IsEndpointRecord(list[q.first]) /\ ~list[q.first].merged
    BY <1>5 DEF AreRecords, Items
  <2> QED
    BY <1>4, <2>1, ClassIs
<1>8. r.hi + 1 < q.lo \/ q.hi + 1 < r.lo
  BY <1>4, <1>6, <1>7, RunsApart
<1>9. Min(r.lo .. r.hi) = r.lo /\ Max(r.lo .. r.hi) = r.hi /\ Min(q.lo .. q.hi) = q.lo /\ Max(q.lo .. q.hi) = q.hi
  BY <1>5, EndsOf
<1>10. ~Touching(r.lo .. r.hi, q.lo .. q.hi)
  BY <1>5, <1>8, <1>9 DEF Touching
<1> QED
  BY <1>4, <1>10

Rest(l) == Picked(l, {i \in DOMAIN l : ~Mergeable(l[i])})

LEMMA RestKept ==
    ASSUME NEW list, AreRecords(list), NEW m, NEW at, IsLeft(list, m, at)
    PROVE  Rest(m) = Rest(list)
<1> DEFINE A == {i \in DOMAIN list : ~Mergeable(list[i])}
           B == {k \in DOMAIN m : ~Mergeable(m[k])}
           s == Ascending(B)
           t == [j \in DOMAIN s |-> at[s[j]]]
<1>1. A \in SUBSET Int /\ IsFiniteSet(A)
  BY DomainIs, FS_Subset DEF AreRecords
<1>2. B \in SUBSET Int /\ IsFiniteSet(B)
  BY FS_Subset DEF IsLeft
<1>3. \A k \in B : k \in DOMAIN m /\ at[k] \in A /\ m[k] = list[at[k]]
  BY LeftStands DEF IsLeft, Items
<1>4. \A i \in A : \E k \in B : at[k] = i
  <2> SUFFICES ASSUME NEW i \in A PROVE \E k \in B : at[k] = i
    OBVIOUS
  <2>1. i \in DOMAIN list /\ i \notin Items(list)
    BY DEF Items
  <2>2. PICK k \in DOMAIN m : at[k] = i
    BY <2>1, OthersStay DEF IsLeft
  <2>3. ~Mergeable(m[k])
    BY <2>1, <2>2, LeftStands
  <2> QED
    BY <2>2, <2>3
<1> HIDE DEF A, B
<1>5. /\ DOMAIN s = 1 .. Cardinality(B) /\ Cardinality(B) \in Nat
      /\ \A j \in DOMAIN s : s[j] \in B
      /\ \A k \in B : \E j \in DOMAIN s : s[j] = k
      /\ \A i, j \in DOMAIN s : i < j => s[i] < s[j]
  BY <1>2, AscendingIs
<1>6. Rest(m) = [j \in DOMAIN s |-> m[s[j]]]
  BY DEF Rest, Picked, B
<1> HIDE DEF s
<1>7. t \in Seq(A) /\ DOMAIN t = DOMAIN s
  BY <1>3, <1>5
<1>8. A \subseteq ToSet(t)
  <2> SUFFICES ASSUME NEW i \in A PROVE \E j \in DOMAIN t : t[j] = i
    BY DEF ToSet
  <2>1. PICK k \in B : at[k] = i
    BY <1>4
  <2>2. PICK j \in DOMAIN s : s[j] = k
    BY <1>5
  <2> QED
    BY <2>1, <2>2
<1>9. \A i, j \in DOMAIN t : i < j => t[i] < t[j]
  <2> SUFFICES ASSUME NEW i \in DOMAIN s, NEW j \in DOMAIN s, i < j PROVE at[s[i]] < at[s[j]]
    BY <1>7
  <2>1. s[i] \in DOMAIN m /\ s[j] \in DOMAIN m /\ s[i] < s[j]
    BY <1>3, <1>5
  <2> QED
    BY <2>1 DEF IsLeft
<1>10. \A j \in DOMAIN s : m[s[j]] = list[t[j]]
  BY <1>3, <1>5
<1> HIDE DEF t
<1>11. t = Ascending(A)
  BY <1>1, <1>7, <1>8, <1>9, AscendingOnce
<1>12. Rest(list) = [j \in DOMAIN t |-> list[t[j]]]
  BY <1>11 DEF Rest, Picked, A
<1>13. [j \in DOMAIN s |-> m[s[j]]] = [j \in DOMAIN s |-> list[t[j]]]
  BY <1>10
<1> QED
  BY <1>6, <1>7, <1>12, <1>13

LEMMA GivenAre ==
    ASSUME given \in Lists \cup {<<>>}
    PROVE  AreRecords(given)
<1>1. CASE given = <<>>
  BY <1>1 DEF AreRecords, ToSet
<1>2. CASE given \in Lists
  <2>1. given \in Seq(UNION {ToSet(l) : l \in Lists})
    BY <1>2, DedupAssumption
  <2>2. DOMAIN given = 1 .. Len(given) /\ Len(given) \in Nat /\ \A i \in DOMAIN given : given[i] \in ToSet(given)
    BY <2>1 DEF ToSet
  <2>3. given \in Seq(ToSet(given))
    BY <2>1, <2>2
  <2>4. \A e \in ToSet(given) : IsEndpointRecord(e) /\ ~e.merged
    BY <1>2, DedupAssumption
  <2> QED
    BY <2>2, <2>3, <2>4 DEF AreRecords
<1> QED
  BY <1>1, <1>2

LEMMA MergesExactly ==
    ASSUME given \in Lists \cup {<<>>}
    PROVE  MergeExact
<1> DEFINE m == MergeEndpointBitRangesInPlace(given)
<1>1. AreRecords(given)
  BY GivenAre
<1>2. PICK at : IsLeft(given, m, at)
  BY <1>1, LeftIs
<1>3. MergeExact <=>
        /\ \A e \in ToSet(given) \cup ToSet(m) : Mergeable(e) => UNION Spans(given, e) = UNION Spans(m, e)
        /\ \A i, j \in DOMAIN m :
             (i < j /\ Mergeable(m[i]) /\ Mergeable(m[j]) /\ Class(m[i]) = Class(m[j]))
             => ~Touching(Span(m[i].bits[1]), Span(m[j].bits[1]))
        /\ Rest(m) = Rest(given)
  BY DEF MergeExact, Class, Spans, Touching, Rest
<1> HIDE DEF m
<1> QED
  BY <1>1, <1>2, <1>3, BitsKept, LeftApart, RestKept

(* Whatever the lists, their records and the hashes of these, and whatever *)
(* lists went before: the pass over bit ranges loses and adds no bit and   *)
(* leaves no two ranges that touch, the pass over repetitions keeps the    *)
(* first of each record, and both keep the order of the rest.              *)
THEOREM ListsAreExact == DedupSpec => []ListsExact
<1>1. DedupInit => DedupInv
  BY DedupInitInv
<1>2. DedupInv /\ [DedupPass]_dedupVars => DedupInv'
  <2> SUFFICES ASSUME DedupInv, [DedupPass]_dedupVars PROVE DedupInv'
    OBVIOUS
  <2>1. CASE DedupPass
    BY <2>1, DedupPassKeeps
  <2>2. CASE UNCHANGED dedupVars
    BY <2>2 DEF dedupVars, DedupInv, TableIsFree, FirstsAreKept
  <2> QED
    BY <2>1, <2>2
<1>3. DedupInv => ListsExact
  BY MergesExactly DEF DedupInv, ListsExact
<1> QED
  BY <1>1, <1>2, <1>3, PTL DEF DedupSpec

---------------------------------------------------------------------------
(* Selections: the bits, the pieces, the hint and the filter of a          *)
(* selection agree.  First, whole numbers divided by a stride.             *)

Pos == Nat \ {0}

LEMMA DivIs ==
    ASSUME NEW x \in Int, NEW s \in Pos
    PROVE  /\ x \div s \in Int /\ x % s \in 0 .. s - 1 /\ x = ((x \div s) * s) + (x % s)
           /\ x >= 0 => x \div s >= 0
BY DEF Pos

LEMMA DivOf ==
    ASSUME NEW q \in Int, NEW s \in Pos, NEW r \in 0 .. s - 1
    PROVE  ((q * s) + r) \div s = q /\ ((q * s) + r) % s = r
BY DEF Pos

LEMMA DivDiv ==
    ASSUME NEW x \in Int, NEW w \in Pos, NEW s \in Pos
    PROVE  /\ w * s \in Pos
           /\ x \div (w * s) = (x \div s) \div w
           /\ x % (w * s) = (((x \div s) % w) * s) + (x % s)
BY DEF Pos

(* Induction over the places of a list, from either end.                   *)
LEMMA Upward ==
    ASSUME NEW m \in Nat, NEW P, 0 \in P, \A a \in 1 .. m : a - 1 \in P => a \in P
    PROVE  \A a \in 0 .. m : a \in P
<1> DEFINE T == {i \in Nat : i <= m => i \in P}
<1>1. 0 \in T
  OBVIOUS
<1>2. ASSUME NEW i \in T PROVE i + 1 \in T
  <2> SUFFICES ASSUME i + 1 <= m PROVE i + 1 \in P
    OBVIOUS
  <2>1. i \in Nat /\ i \in P /\ i + 1 \in 1 .. m /\ (i + 1) - 1 = i
    OBVIOUS
  <2> QED
    BY <2>1
<1>3. T = Nat
  BY <1>1, <1>2, SetInduction
<1> QED
  BY <1>3

LEMMA Downward ==
    ASSUME NEW m \in Nat, NEW P, m \in P, \A a \in 1 .. m : a \in P => a - 1 \in P
    PROVE  \A a \in 0 .. m : a \in P
<1> DEFINE T == {i \in Nat : i <= m => m - i \in P}
<1>1. 0 \in T
  <2>1. m - 0 = m
    OBVIOUS
  <2> QED
    BY <2>1
<1>2. ASSUME NEW i \in T PROVE i + 1 \in T
  <2> SUFFICES ASSUME i + 1 <= m PROVE m - (i + 1) \in P
    OBVIOUS
  <2>1. i \in Nat /\ m - i \in P /\ m - i \in 1 .. m /\ (m - i) - 1 = m - (i + 1)
    OBVIOUS
  <2> QED
    BY <2>1
<1>3. T = Nat
  BY <1>1, <1>2, SetInduction
<1>4. ASSUME NEW a \in 0 .. m PROVE a \in P
  <2>1. m - a \in Nat /\ m - a <= m /\ m - (m - a) = a
    OBVIOUS
  <2>2. m - a \in T
    BY <1>3, <2>1
  <2> QED
    BY <2>1, <2>2
<1> QED
  BY <1>4

---------------------------------------------------------------------------
(* Numbers with several radices: W[a] is the radix of the digit a, S[a]    *)
(* the weight of one step of it.                                           *)
Radix(n, W, S) ==
  /\ n \in Nat /\ W \in [1 .. n -> Pos] /\ S \in [0 .. n -> Pos]
  /\ S[n] = 1 /\ \A a \in 1 .. n : S[a - 1] = W[a] * S[a]
Digit(W, S, b, a) == (b \div S[a]) % W[a]

LEMMA RadixStep ==
    ASSUME NEW n, NEW W, NEW S, Radix(n, W, S), NEW a \in 1 .. n, NEW b \in Int
    PROVE  /\ W[a] \in Pos /\ S[a] \in Pos /\ S[a - 1] \in Pos /\ a \in 0 .. n /\ a - 1 \in 0 .. n /\ n \in Nat
           /\ b \div S[a] \in Int /\ b \div S[a - 1] \in Int
           /\ b \div S[a - 1] = (b \div S[a]) \div W[a]
           /\ b % S[a - 1] = (Digit(W, S, b, a) * S[a]) + (b % S[a])
           /\ Digit(W, S, b, a) \in 0 .. W[a] - 1
           /\ b \div S[a] = ((b \div S[a - 1]) * W[a]) + Digit(W, S, b, a)
           /\ b % S[a] \in 0 .. S[a] - 1
           /\ (b % S[a - 1]) \div S[a] = Digit(W, S, b, a)
           /\ (b % S[a - 1]) % S[a] = b % S[a]
<1>1. /\ W[a] \in Pos /\ S[a] \in Pos /\ S[a - 1] \in Pos /\ a \in 0 .. n /\ a - 1 \in 0 .. n /\ n \in Nat
      /\ S[a - 1] = W[a] * S[a]
  BY DEF Radix
<1>2. b \div S[a] \in Int /\ b % S[a] \in 0 .. S[a] - 1 /\ b \div S[a - 1] \in Int
  BY <1>1, DivIs
<1>3. b \div S[a - 1] = (b \div S[a]) \div W[a] /\ b % S[a - 1] = (Digit(W, S, b, a) * S[a]) + (b % S[a])
  BY <1>1, DivDiv DEF Digit
<1>4. Digit(W, S, b, a) \in 0 .. W[a] - 1 /\ b \div S[a] = (((b \div S[a]) \div W[a]) * W[a]) + Digit(W, S, b, a)
  BY <1>1, <1>2, DivIs DEF Digit
<1>5. Digit(W, S, b, a) \in Int
  BY <1>1, <1>4 DEF Pos
<1>6. (b % S[a - 1]) \div S[a] = Digit(W, S, b, a) /\ (b % S[a - 1]) % S[a] = b % S[a]
  BY <1>1, <1>2, <1>3, <1>5, DivOf
<1> QED
  BY <1>1, <1>2, <1>3, <1>4, <1>6

(* Who agrees on a row agrees on the rows around it.                       *)
LEMMA SameRows ==
    ASSUME NEW n, NEW W, NEW S, Radix(n, W, S), NEW k \in 0 .. n, NEW b \in Int, NEW c \in Int,
           b \div S[k] = c \div S[k]
    PROVE  /\ \A a \in 0 .. k : b \div S[a] = c \div S[a]
           /\ \A a \in 1 .. k : Digit(W, S, b, a) = Digit(W, S, c, a)
<1> DEFINE P == {a \in 0 .. k : b \div S[a] = c \div S[a]}
<1>0. n \in Nat /\ k \in Nat /\ k <= n
  BY DEF Radix
<1>1. k \in P
  BY <1>0
<1>2. ASSUME NEW a \in 1 .. k, a \in P PROVE a - 1 \in P
  <2>1. a \in 1 .. n /\ a - 1 \in 0 .. k
    BY <1>0
  <2>2. b \div S[a - 1] = (b \div S[a]) \div W[a] /\ c \div S[a - 1] = (c \div S[a]) \div W[a]
    BY <2>1, RadixStep
  <2> QED
    BY <1>2, <2>1, <2>2
<1>3. \A a \in 0 .. k : a \in P
  <2> HIDE DEF P
  <2> QED
    BY <1>0, <1>1, <1>2, Downward
<1>4. \A a \in 1 .. k : a \in 0 .. k
  BY <1>0
<1> QED
  BY <1>3, <1>4 DEF Digit

(* The digits after k are those of the place in the row.                   *)
LEMMA RestOfRow ==
    ASSUME NEW n, NEW W, NEW S, Radix(n, W, S), NEW k \in 0 .. n, NEW b \in Int
    PROVE  \A a \in k + 1 .. n : Digit(W, S, b % S[k], a) = Digit(W, S, b, a)
<1> DEFINE c == b % S[k]
           P == {a \in 0 .. n : a >= k => c % S[a] = b % S[a]}
<1>0. n \in Nat /\ k \in Nat /\ k <= n /\ S[k] \in Pos
  BY DEF Radix
<1>1. c \in Int /\ c \in 0 .. S[k] - 1
  <2>1. b % S[k] \in 0 .. S[k] - 1
    BY <1>0, DivIs
  <2> QED
    BY <1>0, <2>1 DEF Pos
<1>2. c % S[k] = c
  <2>1. c = (0 * S[k]) + c
    BY <1>0, <1>1 DEF Pos
  <2>2. 0 \in Int
    OBVIOUS
  <2> HIDE DEF c
  <2> QED
    BY <1>0, <1>1, <2>1, <2>2, DivOf
<1> HIDE DEF c
<1>3. k \in P
  BY <1>0, <1>2 DEF c
<1>4. ASSUME NEW a \in 1 .. n, a - 1 \in P PROVE a \in P
  <2>1. CASE a < k
    BY <1>0, <2>1
  <2>2. CASE a = k
    BY <1>3, <2>2
  <2>3. CASE a > k
    <3>1. c % S[a - 1] = b % S[a - 1] /\ a \in 0 .. n
      BY <1>0, <1>4, <2>3
    <3>2. c % S[a] = (c % S[a - 1]) % S[a] /\ b % S[a] = (b % S[a - 1]) % S[a]
      BY <1>1, RadixStep
    <3> QED
      BY <3>1, <3>2
  <2> QED
    BY <1>0, <2>1, <2>2, <2>3
<1>5. 0 \in P
  BY <1>0, <1>3
<1>6. \A a \in 0 .. n : a \in P
  <2> HIDE DEF P
  <2> QED
    BY <1>0, <1>4, <1>5, Upward
<1> SUFFICES ASSUME NEW a \in k + 1 .. n PROVE Digit(W, S, c, a) = Digit(W, S, b, a)
  BY DEF c
<1>7. a \in 1 .. n /\ a - 1 \in 0 .. n /\ a - 1 >= k
  BY <1>0
<1>8. c % S[a - 1] = b % S[a - 1]
  BY <1>6, <1>7
<1>9. (c % S[a - 1]) \div S[a] = Digit(W, S, c, a) /\ (b % S[a - 1]) \div S[a] = Digit(W, S, b, a)
  BY <1>1, <1>7, RadixStep
<1> QED
  BY <1>8, <1>9

(* A number is determined by its digits.                                   *)
LEMMA DigitsDecide ==
    ASSUME NEW n, NEW W, NEW S, Radix(n, W, S), NEW b \in Int, NEW c \in Int,
           b \div S[0] = c \div S[0], \A a \in 1 .. n : Digit(W, S, b, a) = Digit(W, S, c, a)
    PROVE  b = c
<1> DEFINE P == {a \in 0 .. n : b \div S[a] = c \div S[a]}
<1>0. n \in Nat /\ S[n] = 1
  BY DEF Radix
<1>1. 0 \in P
  BY <1>0
<1>2. ASSUME NEW a \in 1 .. n, a - 1 \in P PROVE a \in P
  <2>1. /\ b \div S[a] = ((b \div S[a - 1]) * W[a]) + Digit(W, S, b, a)
        /\ c \div S[a] = ((c \div S[a - 1]) * W[a]) + Digit(W, S, c, a) /\ a \in 0 .. n
    BY RadixStep
  <2> QED
    BY <1>2, <2>1
<1>3. \A a \in 0 .. n : a \in P
  <2> HIDE DEF P
  <2> QED
    BY <1>0, <1>1, <1>2, Upward
<1>4. b \div S[n] = c \div S[n]
  BY <1>0, <1>3
<1>5. b \div 1 = b /\ c \div 1 = c
  OBVIOUS
<1> QED
  BY <1>0, <1>4, <1>5
---------------------------------------------------------------------------
(* Declarations: widths, strides, offsets.                                 *)
Declared(d) == d.axes \in Seq(Axes)
Widths(d) == [a \in 1 .. Len(d.axes) |-> Width(d.axes[a])]
Weights(d) == [a \in 0 .. Len(d.axes) |-> Stride(d, a)]

LEMMA AxisIs ==
    ASSUME NEW d, Declared(d)
    PROVE  /\ Len(d.axes) \in Nat /\ DOMAIN d.axes = 1 .. Len(d.axes)
           /\ \A a \in 1 .. Len(d.axes) : d.axes[a] \in Axes
BY DEF Declared

LEMMA WidthIs ==
    ASSUME NEW x \in Axes
    PROVE  /\ x.left \in Int /\ x.right \in Int /\ Bounds(x) \in Int \X Int /\ Width(x) \in Pos
           /\ Width(x) = (IF x.left >= x.right THEN x.left - x.right ELSE x.right - x.left) + 1
<1>1. x.left \in Int /\ x.right \in Int
  BY DEF Axes
<1>2. Bounds(x) \in Int \X Int /\ Bounds(x)[1] = x.left /\ Bounds(x)[2] = x.right
  BY <1>1 DEF Bounds
<1>3. Low(Bounds(x)) = (IF x.left <= x.right THEN x.left ELSE x.right) /\ High(Bounds(x)) = (IF x.left >= x.right THEN x.left ELSE x.right)
  BY <1>2, RangeIs
<1>4. Width(x) = High(Bounds(x)) - Low(Bounds(x)) + 1
  BY DEF Width, Bounds
<1>5. Width(x) = (IF x.left >= x.right THEN x.left - x.right ELSE x.right - x.left) + 1
  BY <1>1, <1>3, <1>4
<1> QED
  BY <1>1, <1>2, <1>5 DEF Pos

LEMMA StridesAre ==
    ASSUME NEW d, Declared(d)
    PROVE  /\ Strides(d) \in [0 .. Len(d.axes) -> Pos] /\ Strides(d)[0] = 1
           /\ \A k \in 1 .. Len(d.axes) : Strides(d)[k] = Strides(d)[k - 1] * Width(d.axes[Len(d.axes) - k + 1])
<1> DEFINE n == Len(d.axes)
           w(k) == Width(d.axes[n - k + 1])
           J == [k \in 0 .. n |-> Pos]
           G == [x \in (1 .. n) \X Pos |-> x[2] * w(x[1])]
           bits == CHOOSE f : f = [k \in 0 .. n |-> IF k = 0 THEN 1 ELSE f[k - 1] * w(k)]
<1>1. Strides(d) = bits
  BY DEF Strides
<1>2. n \in Nat /\ 1 \in Pos
  BY AxisIs DEF Pos
<1>3. \A k \in 1 .. n : w(k) \in Pos
  <2> SUFFICES ASSUME NEW k \in 1 .. n PROVE w(k) \in Pos
    OBVIOUS
  <2>1. n - k + 1 \in 1 .. n
    BY <1>2
  <2> QED
    BY <2>1, AxisIs, WidthIs
<1> HIDE DEF w, n
<1>4. \A k \in 1 .. n : \A x \in Pos : G[<<k, x>>] = x * w(k) /\ x * w(k) \in Pos
  BY <1>3 DEF Pos
<1> HIDE DEF G
<1>5. PICK f : InSteps(f, n, 1, G, J)
  <2>1. J \in [0 .. n -> SUBSET Pos] /\ 1 \in J[0]
    BY <1>2
  <2>2. \A k \in 1 .. n : \A s \in J[k - 1] : G[<<k, s>>] \in J[k]
    <3> SUFFICES ASSUME NEW k \in 1 .. n, NEW s \in J[k - 1] PROVE G[<<k, s>>] \in J[k]
      OBVIOUS
    <3>1. k - 1 \in 0 .. n /\ k \in 0 .. n
      BY <1>2
    <3> QED
      BY <1>4, <3>1
  <2> HIDE DEF J
  <2> QED
    BY <1>2, <2>1, <2>2, StepsInside
<1>6. f = [k \in 0 .. n |-> IF k = 0 THEN 1 ELSE f[k - 1] * w(k)]
  <2>1. ASSUME NEW k \in 0 .. n, k # 0
        PROVE  G[<<k, f[k - 1]>>] = f[k - 1] * w(k)
    <3>1. k - 1 \in 0 .. n /\ k \in 1 .. n
      BY <1>2, <2>1
    <3>2. f[k - 1] \in Pos
      BY <1>5, <3>1 DEF InSteps
    <3> QED
      BY <1>4, <3>1, <3>2
  <2> QED
    BY <1>5, <2>1 DEF InSteps
<1>7. bits = [k \in 0 .. n |-> IF k = 0 THEN 1 ELSE bits[k - 1] * w(k)]
  BY <1>6
<1> HIDE DEF bits
<1>8. bits[0] = 1 /\ \A k \in 1 .. n : bits[k] = bits[k - 1] * w(k)
  <2>1. 0 \in 0 .. n /\ \A k \in 1 .. n : k \in 0 .. n /\ k # 0
    BY <1>2
  <2> QED
    BY <1>7, <2>1
<1>9. \A k \in 0 .. n : bits[k] \in Pos
  <2> DEFINE P == {k \in 0 .. n : bits[k] \in Pos}
  <2>1. 0 \in P
    BY <1>2, <1>8
  <2>2. ASSUME NEW k \in 1 .. n, k - 1 \in P PROVE k \in P
    <3>1. k \in 0 .. n /\ bits[k - 1] \in Pos
      BY <1>2, <2>2
    <3> QED
      BY <1>4, <1>8, <3>1
  <2>3. \A k \in 0 .. n : k \in P
    <3> HIDE DEF P
    <3> QED
      BY <1>2, <2>1, <2>2, Upward
  <2> QED
    BY <2>3
<1>10. bits \in [0 .. n -> Pos]
  <2>1. bits = [k \in 0 .. n |-> bits[k]]
    BY <1>7
  <2> QED
    BY <1>9, <2>1
<1> QED
  BY <1>1, <1>8, <1>10 DEF w, n

LEMMA RadixOf ==
    ASSUME NEW d, Declared(d)
    PROVE  /\ Radix(Len(d.axes), Widths(d), Weights(d))
           /\ \A a \in 0 .. Len(d.axes) : Weights(d)[a] = Stride(d, a) /\ Stride(d, a) \in Pos
           /\ \A a \in 1 .. Len(d.axes) : Widths(d)[a] = Width(d.axes[a])
           /\ Total(d) = Weights(d)[0] /\ Total(d) \in Pos
<1> DEFINE n == Len(d.axes)
<1>1. n \in Nat /\ \A a \in 1 .. n : d.axes[a] \in Axes
  BY AxisIs
<1>2. \A a \in 1 .. n : Widths(d)[a] = Width(d.axes[a]) /\ Width(d.axes[a]) \in Pos
  BY <1>1, WidthIs DEF Widths
<1>3. \A a \in 0 .. n : Weights(d)[a] = Stride(d, a) /\ Stride(d, a) = Strides(d)[n - a] /\ Stride(d, a) \in Pos
  <2> SUFFICES ASSUME NEW a \in 0 .. n
               PROVE  Weights(d)[a] = Stride(d, a) /\ Stride(d, a) = Strides(d)[n - a] /\ Stride(d, a) \in Pos
    OBVIOUS
  <2>1. n - a \in 0 .. n
    BY <1>1
  <2> QED
    BY <2>1, StridesAre DEF Weights, Stride
<1>4. Widths(d) \in [1 .. n -> Pos] /\ Weights(d) \in [0 .. n -> Pos]
  <2>1. Widths(d) = [a \in 1 .. n |-> Widths(d)[a]] /\ Weights(d) = [a \in 0 .. n |-> Weights(d)[a]]
    BY DEF Widths, Weights
  <2> QED
    BY <1>2, <1>3, <2>1
<1>5. Weights(d)[n] = 1
  <2>1. n \in 0 .. n /\ n - n = 0
    BY <1>1
  <2> QED
    BY <1>3, <2>1, StridesAre
<1>6. ASSUME NEW a \in 1 .. n PROVE Weights(d)[a - 1] = Widths(d)[a] * Weights(d)[a]
  <2>1. a - 1 \in 0 .. n /\ a \in 0 .. n /\ n - (a - 1) \in 1 .. n /\ (n - (a - 1)) - 1 = n - a /\ n - (n - (a - 1)) + 1 = a
    BY <1>1
  <2>2. Strides(d)[n - (a - 1)] = Strides(d)[n - a] * Width(d.axes[a])
    BY <2>1, StridesAre
  <2>3. Weights(d)[a - 1] = Weights(d)[a] * Widths(d)[a]
    BY <1>2, <1>3, <2>1, <2>2
  <2>4. Weights(d)[a] \in Pos /\ Widths(d)[a] \in Pos
    BY <1>2, <1>3, <2>1
  <2> QED
    BY <2>3, <2>4 DEF Pos
<1>7. Radix(n, Widths(d), Weights(d))
  BY <1>1, <1>4, <1>5, <1>6 DEF Radix
<1>8. Total(d) = Weights(d)[0] /\ Total(d) \in Pos
  BY <1>1, <1>3 DEF Total
<1> QED
  BY <1>2, <1>3, <1>7, <1>8

LEMMA OffsetIs ==
    ASSUME NEW x \in Axes
    PROVE  /\ \A i \in Int : /\ PortAxisOffset(x, i) \in Int /\ AxisIndex(x, i) \in Int
                             /\ i \in Span(Bounds(x)) <=> PortAxisOffset(x, i) \in 0 .. Width(x) - 1
                             /\ PortAxisOffset(x, AxisIndex(x, i)) = i
                             /\ AxisIndex(x, PortAxisOffset(x, i)) = i
<1>1. /\ x.left \in Int /\ x.right \in Int /\ Bounds(x) \in Int \X Int
      /\ Width(x) = (IF x.left >= x.right THEN x.left - x.right ELSE x.right - x.left) + 1
  BY WidthIs
<1>2. /\ Span(Bounds(x)) = (IF x.left <= x.right THEN x.left ELSE x.right) .. (IF x.left >= x.right THEN x.left ELSE x.right)
  <2>1. Bounds(x)[1] = x.left /\ Bounds(x)[2] = x.right
    BY DEF Bounds
  <2> QED
    BY <1>1, <2>1, RangeIs
<1> SUFFICES ASSUME NEW i \in Int
             PROVE  /\ PortAxisOffset(x, i) \in Int /\ AxisIndex(x, i) \in Int
                    /\ i \in Span(Bounds(x)) <=> PortAxisOffset(x, i) \in 0 .. Width(x) - 1
                    /\ PortAxisOffset(x, AxisIndex(x, i)) = i
                    /\ AxisIndex(x, PortAxisOffset(x, i)) = i
  OBVIOUS
<1>3. CASE x.left >= x.right
  <2>1. \A j \in Int : PortAxisOffset(x, j) = j - x.right /\ AxisIndex(x, j) = x.right + j
    BY <1>3 DEF PortAxisOffset, AxisIndex
  <2>2. i \in Span(Bounds(x)) <=> PortAxisOffset(x, i) \in 0 .. Width(x) - 1
    <3>1. Span(Bounds(x)) = x.right .. x.left
      BY <1>1, <1>2, <1>3
    <3>2. Width(x) - 1 = x.left - x.right /\ PortAxisOffset(x, i) = i - x.right
      BY <1>1, <1>3, <2>1
    <3>3. i \in x.right .. x.left <=> i - x.right \in 0 .. x.left - x.right
      BY <1>1
    <3> QED
      BY <3>1, <3>2, <3>3
  <2> QED
    BY <1>1, <2>1, <2>2
<1>4. CASE ~(x.left >= x.right)
  <2>1. \A j \in Int : PortAxisOffset(x, j) = x.right - j /\ AxisIndex(x, j) = x.right - j
    BY <1>4 DEF PortAxisOffset, AxisIndex
  <2>2. i \in Span(Bounds(x)) <=> PortAxisOffset(x, i) \in 0 .. Width(x) - 1
    <3>1. Span(Bounds(x)) = x.left .. x.right
      BY <1>1, <1>2, <1>4
    <3>2. Width(x) - 1 = x.right - x.left /\ PortAxisOffset(x, i) = x.right - i
      BY <1>1, <1>4, <2>1
    <3>3. i \in x.left .. x.right <=> x.right - i \in 0 .. x.right - x.left
      BY <1>1
    <3> QED
      BY <3>1, <3>2, <3>3
  <2> QED
    BY <1>1, <2>1, <2>2
<1> QED
  BY <1>3, <1>4

(* The offsets of a range of indices.                                      *)
FirstOf2(x, r) == Min({PortAxisOffset(x, r[1]), PortAxisOffset(x, r[2])})
LastOf2(x, r) == Max({PortAxisOffset(x, r[1]), PortAxisOffset(x, r[2])})

LEMMA RangeOffsets ==
    ASSUME NEW x \in Axes, NEW r \in Int \X Int
    PROVE  /\ FirstOf2(x, r) \in Int /\ LastOf2(x, r) \in Int /\ FirstOf2(x, r) <= LastOf2(x, r)
           /\ \A i \in Int : i \in Span(r) <=> PortAxisOffset(x, i) \in FirstOf2(x, r) .. LastOf2(x, r)
           /\ Span(r) \subseteq Span(Bounds(x)) <=> FirstOf2(x, r) >= 0 /\ LastOf2(x, r) < Width(x)
           /\ Span(r) = Span(Bounds(x)) <=> FirstOf2(x, r) = 0 /\ LastOf2(x, r) = Width(x) - 1
<1>1. /\ x.left \in Int /\ x.right \in Int /\ Width(x) \in Int
      /\ r[1] \in Int /\ r[2] \in Int
  BY WidthIs DEF Pos
<1>2. /\ PortAxisOffset(x, r[1]) \in Int /\ PortAxisOffset(x, r[2]) \in Int
      /\ \A i, j \in Int : PortAxisOffset(x, i) <= PortAxisOffset(x, j) <=> IF x.left >= x.right THEN i <= j ELSE i >= j
  BY <1>1 DEF PortAxisOffset
<1>3. /\ FirstOf2(x, r) = (IF PortAxisOffset(x, r[1]) <= PortAxisOffset(x, r[2]) THEN PortAxisOffset(x, r[1]) ELSE PortAxisOffset(x, r[2]))
      /\ LastOf2(x, r) = (IF PortAxisOffset(x, r[1]) >= PortAxisOffset(x, r[2]) THEN PortAxisOffset(x, r[1]) ELSE PortAxisOffset(x, r[2]))
  <2> DEFINE a == PortAxisOffset(x, r[1])
             b == PortAxisOffset(x, r[2])
  <2>1. FirstOf2(x, r) = Min({a, b}) /\ LastOf2(x, r) = Max({a, b})
    BY DEF FirstOf2, LastOf2
  <2>2. a \in Int /\ b \in Int
    BY <1>2
  <2> HIDE DEF a, b
  <2>3. Min({a, b}) = (IF a <= b THEN a ELSE b) /\ Max({a, b}) = (IF a >= b THEN a ELSE b)
    BY <2>2, OfTwo
  <2> QED
    BY <2>1, <2>3 DEF a, b
<1>4. FirstOf2(x, r) \in Int /\ LastOf2(x, r) \in Int /\ FirstOf2(x, r) <= LastOf2(x, r)
  BY <1>2, <1>3
<1>5. Span(r) = (IF r[1] <= r[2] THEN r[1] ELSE r[2]) .. (IF r[1] >= r[2] THEN r[1] ELSE r[2])
  BY RangeIs
<1>6. ASSUME NEW i \in Int
      PROVE  i \in Span(r) <=> PortAxisOffset(x, i) \in FirstOf2(x, r) .. LastOf2(x, r)
  <2> DEFINE lo == IF r[1] <= r[2] THEN r[1] ELSE r[2]
             hi == IF r[1] >= r[2] THEN r[1] ELSE r[2]
  <2>0. lo \in Int /\ hi \in Int /\ Span(r) = lo .. hi
    BY <1>1, <1>5
  <2>1. CASE x.left >= x.right
    <3>1. \A j \in Int : PortAxisOffset(x, j) = j - x.right
      BY <2>1 DEF PortAxisOffset
    <3>2. FirstOf2(x, r) = lo - x.right /\ LastOf2(x, r) = hi - x.right
      BY <1>1, <1>3, <3>1
    <3>3. i \in lo .. hi <=> i - x.right \in lo - x.right .. hi - x.right
      BY <1>1, <2>0
    <3> QED
      BY <2>0, <3>1, <3>2, <3>3
  <2>2. CASE ~(x.left >= x.right)
    <3>1. \A j \in Int : PortAxisOffset(x, j) = x.right - j
      BY <2>2 DEF PortAxisOffset
    <3>2. FirstOf2(x, r) = x.right - hi /\ LastOf2(x, r) = x.right - lo
      BY <1>1, <1>3, <3>1
    <3>3. i \in lo .. hi <=> x.right - i \in x.right - hi .. x.right - lo
      BY <1>1, <2>0
    <3> QED
      BY <2>0, <3>1, <3>2, <3>3
  <2> QED
    BY <2>1, <2>2
<1>7. /\ \A i \in Int : i \in Span(Bounds(x)) <=> PortAxisOffset(x, i) \in 0 .. Width(x) - 1
      /\ \A o \in Int : AxisIndex(x, o) \in Int /\ PortAxisOffset(x, AxisIndex(x, o)) = o
  BY OffsetIs
<1>8. /\ \A i \in Span(r) : i \in Int
      /\ \A i \in Span(Bounds(x)) : i \in Int
  <2>1. Bounds(x) \in Int \X Int
    BY WidthIs
  <2>2. Low(r) \in Int /\ High(r) \in Int /\ Low(Bounds(x)) \in Int /\ High(Bounds(x)) \in Int
    BY <2>1, RangeIs
  <2> QED
    BY <2>2 DEF Span
<1>9. Width(x) - 1 \in Int /\ 0 <= Width(x) - 1
  BY WidthIs DEF Pos
<1> DEFINE F == FirstOf2(x, r)
           L == LastOf2(x, r)
           W == Width(x)
<1>10. Span(r) \subseteq Span(Bounds(x)) <=> F .. L \subseteq 0 .. W - 1
  <2>1. ASSUME Span(r) \subseteq Span(Bounds(x)), NEW o \in F .. L PROVE o \in 0 .. W - 1
    <3>1. o \in Int
      BY <1>4
    <3>2. AxisIndex(x, o) \in Span(r)
      BY <1>6, <1>7, <3>1
    <3> QED
      BY <1>7, <2>1, <3>1, <3>2
  <2>2. ASSUME F .. L \subseteq 0 .. W - 1, NEW i \in Span(r) PROVE i \in Span(Bounds(x))
    <3> HIDE DEF F, L, W
    <3>1. i \in Int
      BY <1>8
    <3> QED
      BY <1>6, <1>7, <2>2, <3>1 DEF F, L, W
  <2> QED
    BY <2>1, <2>2
<1>11. Span(Bounds(x)) \subseteq Span(r) <=> 0 .. W - 1 \subseteq F .. L
  <2>1. ASSUME Span(Bounds(x)) \subseteq Span(r), NEW o \in 0 .. W - 1 PROVE o \in F .. L
    <3>1. o \in Int
      BY <1>9
    <3>2. AxisIndex(x, o) \in Span(Bounds(x))
      BY <1>7, <3>1
    <3> QED
      BY <1>6, <1>7, <2>1, <3>1, <3>2
  <2>2. ASSUME 0 .. W - 1 \subseteq F .. L, NEW i \in Span(Bounds(x)) PROVE i \in Span(r)
    <3>1. i \in Int
      BY <1>8
    <3> QED
      BY <1>6, <1>7, <2>2, <3>1
  <2> QED
    BY <2>1, <2>2
<1> HIDE DEF F, L, W
<1>12. F \in Int /\ L \in Int /\ F <= L /\ W \in Int /\ 0 <= W - 1
  BY <1>1, <1>4, <1>9 DEF F, L, W
<1>13. F .. L \subseteq 0 .. W - 1 <=> F >= 0 /\ L < W
  <2>1. F \in F .. L /\ L \in F .. L
    BY <1>12
  <2> QED
    BY <1>12, <2>1
<1>14. 0 .. W - 1 \subseteq F .. L <=> F <= 0 /\ L >= W - 1
  <2>1. 0 \in 0 .. W - 1 /\ W - 1 \in 0 .. W - 1
    BY <1>12
  <2> QED
    BY <1>12, <2>1
<1>15. Span(r) = Span(Bounds(x)) <=> F = 0 /\ L = W - 1
  <2>1. Span(r) = Span(Bounds(x)) <=> Span(r) \subseteq Span(Bounds(x)) /\ Span(Bounds(x)) \subseteq Span(r)
    OBVIOUS
  <2>2. (F >= 0 /\ L < W) /\ (F <= 0 /\ L >= W - 1) <=> F = 0 /\ L = W - 1
    BY <1>12
  <2> QED
    BY <1>10, <1>11, <1>13, <1>14, <2>1, <2>2
<1> QED
  BY <1>4, <1>6, <1>10, <1>13, <1>15 DEF F, L, W

LEMMA FlatIs ==
    ASSUME NEW d, Declared(d), NEW t, \A a \in 1 .. Len(d.axes) : t[a] \in Span(Bounds(d.axes[a]))
    PROVE  /\ Flat(d, t)[Len(d.axes)] \in 0 .. Total(d) - 1
           /\ \A a \in 1 .. Len(d.axes) :
                Digit(Widths(d), Weights(d), Flat(d, t)[Len(d.axes)], a) = PortAxisOffset(d.axes[a], t[a])
<1> DEFINE n == Len(d.axes)
           w(a) == Width(d.axes[a])
           o(a) == PortAxisOffset(d.axes[a], t[a])
           J == [a \in 0 .. n |-> Nat]
           G == [x \in (1 .. n) \X Nat |-> x[2] * w(x[1]) + o(x[1])]
           flat == CHOOSE f : f = [a \in 0 .. n |-> IF a = 0 THEN 0 ELSE f[a - 1] * w(a) + o(a)]
<1>1. Flat(d, t) = flat
  BY DEF Flat
<1>2. n \in Nat /\ \A a \in 1 .. n : d.axes[a] \in Axes
  BY AxisIs
<1>3. \A a \in 1 .. n : w(a) \in Pos /\ o(a) \in 0 .. w(a) - 1
  <2> SUFFICES ASSUME NEW a \in 1 .. n PROVE w(a) \in Pos /\ o(a) \in 0 .. w(a) - 1
    OBVIOUS
  <2>1. t[a] \in Int
    <3>1. Bounds(d.axes[a]) \in Int \X Int
      BY <1>2, WidthIs
    <3>2. Low(Bounds(d.axes[a])) \in Int /\ High(Bounds(d.axes[a])) \in Int
      BY <3>1, RangeIs
    <3> QED
      BY <3>2 DEF Span
  <2> QED
    BY <1>2, <2>1, OffsetIs, WidthIs
<1> HIDE DEF w, o, n
<1>4. \A a \in 1 .. n : \A x \in Nat : G[<<a, x>>] = x * w(a) + o(a) /\ x * w(a) + o(a) \in Nat
  <2> SUFFICES ASSUME NEW a \in 1 .. n, NEW x \in Nat
               PROVE  G[<<a, x>>] = x * w(a) + o(a) /\ x * w(a) + o(a) \in Nat
    OBVIOUS
  <2>1. w(a) \in Nat /\ o(a) \in Nat
    BY <1>3 DEF Pos
  <2>2. \A p, q, r \in Nat : p * q + r \in Nat
    OBVIOUS
  <2> QED
    BY <2>1, <2>2
<1> HIDE DEF G
<1>5. PICK f : InSteps(f, n, 0, G, J)
  <2>1. J \in [0 .. n -> SUBSET Nat] /\ 0 \in J[0]
    BY <1>2 DEF n
  <2>2. \A k \in 1 .. n : \A s \in J[k - 1] : G[<<k, s>>] \in J[k]
    <3> SUFFICES ASSUME NEW k \in 1 .. n, NEW s \in J[k - 1] PROVE G[<<k, s>>] \in J[k]
      OBVIOUS
    <3>1. k - 1 \in 0 .. n /\ k \in 0 .. n
      BY <1>2 DEF n
    <3> QED
      BY <1>4, <3>1
  <2> HIDE DEF J
  <2>3. n \in Nat
    BY <1>2 DEF n
  <2> QED
    BY <2>1, <2>2, <2>3, StepsInside
<1>5a. n \in Nat
  BY <1>2 DEF n
<1>6. f = [a \in 0 .. n |-> IF a = 0 THEN 0 ELSE f[a - 1] * w(a) + o(a)]
  <2>1. ASSUME NEW k \in 0 .. n, k # 0
        PROVE  G[<<k, f[k - 1]>>] = f[k - 1] * w(k) + o(k)
    <3>1. k - 1 \in 0 .. n /\ k \in 1 .. n
      BY <1>5a, <2>1
    <3>2. f[k - 1] \in Nat
      BY <1>5, <3>1 DEF InSteps
    <3> QED
      BY <1>4, <3>1, <3>2
  <2> QED
    BY <1>5, <2>1 DEF InSteps
<1>7. flat = [a \in 0 .. n |-> IF a = 0 THEN 0 ELSE flat[a - 1] * w(a) + o(a)]
  BY <1>6
<1> HIDE DEF flat
<1>8. flat[0] = 0 /\ \A a \in 1 .. n : flat[a] = flat[a - 1] * w(a) + o(a)
  <2>1. 0 \in 0 .. n /\ \A k \in 1 .. n : k \in 0 .. n /\ k # 0
    BY <1>5a
  <2> QED
    BY <1>7, <2>1
<1>9. \A a \in 0 .. n : flat[a] \in Nat
  <2> DEFINE P == {a \in 0 .. n : flat[a] \in Nat}
  <2>1. 0 \in P
    BY <1>5a, <1>8
  <2>2. ASSUME NEW a \in 1 .. n, a - 1 \in P PROVE a \in P
    <3>1. a \in 0 .. n /\ flat[a - 1] \in Nat
      BY <1>5a, <2>2
    <3> QED
      BY <1>4, <1>8, <3>1
  <2>3. \A a \in 0 .. n : a \in P
    <3> HIDE DEF P
    <3> QED
      BY <1>5a, <2>1, <2>2, Upward
  <2> QED
    BY <2>3
<1> DEFINE W == Widths(d)
           S == Weights(d)
           b == flat[n]
<1>10. Radix(n, W, S) /\ Total(d) = S[0] /\ Total(d) \in Pos /\ \A a \in 1 .. n : W[a] = w(a)
  BY RadixOf DEF n, w
<1> HIDE DEF W, S
<1>11. b \in Nat /\ b \in Int
  BY <1>5a, <1>9
<1>12. \A a \in 0 .. n : b \div S[a] = flat[a]
  <2> DEFINE P == {a \in 0 .. n : b \div S[a] = flat[a]}
  <2>1. n \in P
    <3>1. S[n] = 1 /\ b \div 1 = b
      BY <1>10, <1>11 DEF Radix
    <3> QED
      BY <1>5a, <3>1
  <2>2. ASSUME NEW a \in 1 .. n, a \in P PROVE a - 1 \in P
    <3>1. a - 1 \in 0 .. n /\ a \in 0 .. n /\ b \div S[a] = flat[a] /\ flat[a - 1] \in Nat
      BY <1>5a, <1>9, <2>2
    <3>0. flat[a - 1] \in Int /\ w(a) \in Pos /\ o(a) \in 0 .. w(a) - 1
      BY <1>3, <3>1
    <3>2. b \div S[a - 1] = (b \div S[a]) \div w(a)
      <4> HIDE DEF b
      <4>1. b \div S[a - 1] = (b \div S[a]) \div W[a]
        BY <1>10, <1>11, RadixStep
      <4> QED
        BY <1>10, <4>1
    <3>3. (flat[a - 1] * w(a) + o(a)) \div w(a) = flat[a - 1]
      BY <1>3, <3>1, <3>0, DivOf
    <3> QED
      BY <1>8, <3>1, <3>2, <3>3
  <2>3. \A a \in 0 .. n : a \in P
    <3> HIDE DEF P, b
    <3> QED
      BY <1>5a, <2>1, <2>2, Downward
  <2> QED
    BY <2>3
<1>13. b \in 0 .. Total(d) - 1
  <2>1. b \div S[0] = 0
    BY <1>5a, <1>8, <1>12
  <2>2. S[0] \in Pos /\ b = ((b \div S[0]) * S[0]) + (b % S[0]) /\ b % S[0] \in 0 .. S[0] - 1
    BY <1>10, <1>11, DivIs
  <2> QED
    BY <1>10, <1>11, <2>1, <2>2 DEF Pos
<1>14. ASSUME NEW a \in 1 .. n PROVE Digit(W, S, b, a) = o(a)
  <2>1. a - 1 \in 0 .. n /\ a \in 0 .. n /\ flat[a - 1] \in Nat
    BY <1>5a, <1>9
  <2>2. b \div S[a] = flat[a - 1] * w(a) + o(a)
    BY <1>8, <1>12, <2>1
  <2>3. (flat[a - 1] * w(a) + o(a)) % w(a) = o(a)
    <3>1. flat[a - 1] \in Int /\ w(a) \in Pos /\ o(a) \in 0 .. w(a) - 1
      BY <1>3, <2>1
    <3> QED
      BY <3>1, DivOf
  <2> QED
    BY <1>10, <2>2, <2>3 DEF Digit
<1> QED
  BY <1>1, <1>13, <1>14 DEF n, o, W, S
DigitOf(d, b, a) == Digit(Widths(d), Weights(d), b, a)
ElementOf(d, b) == [a \in DOMAIN d.axes |-> AxisIndex(d.axes[a], DigitOf(d, b, a))]
InBounds(d, sel) ==
  sel \in Seq(Int \X Int) /\ \A a \in DOMAIN sel \cap DOMAIN d.axes : Span(sel[a]) \subseteq Span(Bounds(d.axes[a]))
Within(d, sel, b, a) == DigitOf(d, b, a) \in FirstOf2(d.axes[a], sel[a]) .. LastOf2(d.axes[a], sel[a])
Chosen(d, sel) == {b \in 0 .. Total(d) - 1 : \A a \in DOMAIN sel \cap DOMAIN d.axes : Within(d, sel, b, a)}

LEMMA DigitOfIs ==
    ASSUME NEW d, Declared(d), NEW b \in Int, NEW a \in 1 .. Len(d.axes)
    PROVE  DigitOf(d, b, a) \in 0 .. Width(d.axes[a]) - 1 /\ DigitOf(d, b, a) \in Int
<1>1. Radix(Len(d.axes), Widths(d), Weights(d)) /\ Widths(d)[a] = Width(d.axes[a])
  BY RadixOf
<1>2. DigitOf(d, b, a) \in 0 .. Widths(d)[a] - 1 /\ Widths(d)[a] \in Pos
  BY <1>1, RadixStep DEF DigitOf
<1> QED
  BY <1>1, <1>2 DEF Pos

LEMMA SmallDiv ==
    ASSUME NEW s \in Pos, NEW b \in 0 .. s - 1
    PROVE  b \div s = 0
<1>1. 0 \in Int /\ b = (0 * s) + b
  BY DEF Pos
<1> QED
  BY <1>1, DivOf

LEMMA SameDigits ==
    ASSUME NEW d, Declared(d), NEW b \in 0 .. Total(d) - 1, NEW c \in 0 .. Total(d) - 1,
           \A a \in 1 .. Len(d.axes) : DigitOf(d, b, a) = DigitOf(d, c, a)
    PROVE  b = c
<1>1. Radix(Len(d.axes), Widths(d), Weights(d)) /\ Total(d) = Weights(d)[0] /\ Total(d) \in Pos
  BY RadixOf
<1>2. b \div Weights(d)[0] = 0 /\ c \div Weights(d)[0] = 0
  BY <1>1, SmallDiv
<1>3. b \in Int /\ c \in Int
  BY <1>1 DEF Pos
<1> QED
  BY <1>1, <1>2, <1>3, DigitsDecide DEF DigitOf

LEMMA ElementOfIs ==
    ASSUME NEW d, Declared(d), NEW b \in 0 .. Total(d) - 1
    PROVE  /\ ElementOf(d, b) \in [DOMAIN d.axes -> Int] /\ Flat(d, ElementOf(d, b))[Len(d.axes)] = b
           /\ \A a \in DOMAIN d.axes : /\ ElementOf(d, b)[a] \in Span(Bounds(d.axes[a]))
                                       /\ PortAxisOffset(d.axes[a], ElementOf(d, b)[a]) = DigitOf(d, b, a)
<1> DEFINE t == ElementOf(d, b)
           n == Len(d.axes)
<1>1. DOMAIN d.axes = 1 .. n /\ n \in Nat /\ \A a \in 1 .. n : d.axes[a] \in Axes
  BY AxisIs
<1>2. b \in Int
  BY RadixOf DEF Pos
<1>3. ASSUME NEW a \in 1 .. n
      PROVE  t[a] \in Int /\ t[a] \in Span(Bounds(d.axes[a])) /\ PortAxisOffset(d.axes[a], t[a]) = DigitOf(d, b, a)
  <2>1. t[a] = AxisIndex(d.axes[a], DigitOf(d, b, a))
    BY <1>1 DEF ElementOf
  <2>2. DigitOf(d, b, a) \in 0 .. Width(d.axes[a]) - 1 /\ DigitOf(d, b, a) \in Int
    BY <1>2, DigitOfIs
  <2> QED
    BY <1>1, <2>1, <2>2, OffsetIs
<1>4. Flat(d, t)[n] \in 0 .. Total(d) - 1 /\ \A a \in 1 .. n : DigitOf(d, Flat(d, t)[n], a) = DigitOf(d, b, a)
  <2>1. \A a \in 1 .. n : t[a] \in Span(Bounds(d.axes[a]))
    BY <1>3
  <2> HIDE DEF t
  <2> QED
    BY <1>3, <2>1, FlatIs DEF DigitOf
<1>5. Flat(d, t)[n] = b
  BY <1>4, SameDigits
<1>6. t = [a \in DOMAIN d.axes |-> t[a]]
  BY DEF ElementOf
<1>7. t \in [DOMAIN d.axes -> Int]
  BY <1>1, <1>3, <1>6
<1> QED
  BY <1>1, <1>3, <1>5, <1>7

LEMMA ElementIs ==
    ASSUME NEW d, Declared(d), NEW sel, InBounds(d, sel), NEW t
    PROVE  t \in Elements(d, sel) <=>
             /\ t \in [DOMAIN d.axes -> Int]
             /\ \A a \in DOMAIN d.axes : /\ t[a] \in Span(Bounds(d.axes[a]))
                                         /\ a \in DOMAIN sel => t[a] \in Span(sel[a])
<1> DEFINE n == Len(d.axes)
           All1 == UNION {Span(Bounds(d.axes[a])) : a \in DOMAIN d.axes}
<1>1. DOMAIN d.axes = 1 .. n /\ n \in Nat /\ \A a \in 1 .. n : d.axes[a] \in Axes
  BY AxisIs
<1>2. \A a \in DOMAIN d.axes : Span(Bounds(d.axes[a])) \subseteq All1
  OBVIOUS
<1>3. All1 \subseteq Int
  <2> SUFFICES ASSUME NEW a \in DOMAIN d.axes PROVE Span(Bounds(d.axes[a])) \subseteq Int
    OBVIOUS
  <2>1. Bounds(d.axes[a]) \in Int \X Int
    BY <1>1, WidthIs
  <2>2. Low(Bounds(d.axes[a])) \in Int /\ High(Bounds(d.axes[a])) \in Int
    BY <2>1, RangeIs
  <2> QED
    BY <2>2 DEF Span
<1>4. t \in Elements(d, sel) <=>
        /\ t \in [DOMAIN d.axes -> All1]
        /\ \A a \in DOMAIN d.axes : t[a] \in Span(IF a \in DOMAIN sel THEN sel[a] ELSE Bounds(d.axes[a]))
  BY DEF Elements
<1> HIDE DEF All1
<1>5. ASSUME t \in Elements(d, sel)
      PROVE  /\ t \in [DOMAIN d.axes -> Int]
             /\ \A a \in DOMAIN d.axes : /\ t[a] \in Span(Bounds(d.axes[a]))
                                         /\ a \in DOMAIN sel => t[a] \in Span(sel[a])
  <2>1. t \in [DOMAIN d.axes -> Int]
    BY <1>3, <1>4, <1>5
  <2>2. ASSUME NEW a \in DOMAIN d.axes
        PROVE  t[a] \in Span(Bounds(d.axes[a])) /\ (a \in DOMAIN sel => t[a] \in Span(sel[a]))
    <3>1. CASE a \in DOMAIN sel
      BY <1>4, <1>5, <3>1 DEF InBounds
    <3>2. CASE a \notin DOMAIN sel
      BY <1>4, <1>5, <3>2
    <3> QED
      BY <3>1, <3>2
  <2> QED
    BY <2>1, <2>2
<1>6. ASSUME t \in [DOMAIN d.axes -> Int],
             \A a \in DOMAIN d.axes : /\ t[a] \in Span(Bounds(d.axes[a]))
                                      /\ a \in DOMAIN sel => t[a] \in Span(sel[a])
      PROVE  t \in Elements(d, sel)
  <2>1. \A a \in DOMAIN d.axes : t[a] \in All1
    BY <1>2, <1>6
  <2>2. t \in [DOMAIN d.axes -> All1]
    BY <1>6, <2>1
  <2>3. \A a \in DOMAIN d.axes : t[a] \in Span(IF a \in DOMAIN sel THEN sel[a] ELSE Bounds(d.axes[a]))
    BY <1>6
  <2> QED
    BY <1>4, <2>2, <2>3
<1> QED
  BY <1>5, <1>6

(* The bits of a selection are those whose digits it selects.              *)
LEMMA ElementsAreBits ==
    ASSUME NEW d, Declared(d), NEW sel, InBounds(d, sel)
    PROVE  {BitOf(d, t) : t \in Elements(d, sel)} = {d.offset + b : b \in Chosen(d, sel)}
<1> DEFINE n == Len(d.axes)
<1>1. DOMAIN d.axes = 1 .. n /\ n \in Nat /\ \A a \in 1 .. n : d.axes[a] \in Axes
  BY AxisIs
<1>2. \A a \in DOMAIN sel : sel[a] \in Int \X Int
  BY DEF InBounds
<1>3. ASSUME NEW t \in Elements(d, sel)
      PROVE  \E b \in Chosen(d, sel) : BitOf(d, t) = d.offset + b
  <2>1. /\ t \in [DOMAIN d.axes -> Int]
        /\ \A a \in DOMAIN d.axes : /\ t[a] \in Span(Bounds(d.axes[a]))
                                    /\ a \in DOMAIN sel => t[a] \in Span(sel[a])
    BY ElementIs
  <2> DEFINE b == Flat(d, t)[n]
  <2>2. b \in 0 .. Total(d) - 1 /\ \A a \in 1 .. n : DigitOf(d, b, a) = PortAxisOffset(d.axes[a], t[a])
    BY <1>1, <2>1, FlatIs DEF DigitOf
  <2>3. ASSUME NEW a \in DOMAIN sel \cap DOMAIN d.axes PROVE Within(d, sel, b, a)
    <3>1. t[a] \in Int /\ t[a] \in Span(sel[a]) /\ sel[a] \in Int \X Int /\ d.axes[a] \in Axes
      BY <1>1, <1>2, <2>1
    <3>2. PortAxisOffset(d.axes[a], t[a]) \in FirstOf2(d.axes[a], sel[a]) .. LastOf2(d.axes[a], sel[a])
      BY <3>1, RangeOffsets
    <3> QED
      BY <1>1, <2>2, <3>2 DEF Within
  <2>4. b \in Chosen(d, sel)
    BY <2>2, <2>3 DEF Chosen
  <2> QED
    BY <2>4 DEF BitOf
<1>4. ASSUME NEW b \in Chosen(d, sel)
      PROVE  \E t \in Elements(d, sel) : BitOf(d, t) = d.offset + b
  <2> DEFINE t == ElementOf(d, b)
  <2>1. b \in 0 .. Total(d) - 1 /\ \A a \in DOMAIN sel \cap DOMAIN d.axes : Within(d, sel, b, a)
    BY DEF Chosen
  <2>2. /\ t \in [DOMAIN d.axes -> Int] /\ Flat(d, t)[n] = b
        /\ \A a \in DOMAIN d.axes : /\ t[a] \in Span(Bounds(d.axes[a]))
                                    /\ PortAxisOffset(d.axes[a], t[a]) = DigitOf(d, b, a)
    BY <2>1, ElementOfIs
  <2> HIDE DEF t
  <2>3. ASSUME NEW a \in DOMAIN d.axes, a \in DOMAIN sel PROVE t[a] \in Span(sel[a])
    <3>1. t[a] \in Int /\ sel[a] \in Int \X Int /\ d.axes[a] \in Axes
      BY <1>1, <1>2, <2>2, <2>3
    <3>2. PortAxisOffset(d.axes[a], t[a]) \in FirstOf2(d.axes[a], sel[a]) .. LastOf2(d.axes[a], sel[a])
      BY <2>1, <2>2, <2>3 DEF Within
    <3> QED
      BY <3>1, <3>2, RangeOffsets
  <2>4. t \in Elements(d, sel)
    BY <2>2, <2>3, ElementIs
  <2> QED
    BY <2>2, <2>4 DEF BitOf
<1> QED
  BY <1>3, <1>4

(* The first and the last of a few places.                                 *)
LEMMA EndsExist ==
    ASSUME NEW n \in Nat, NEW D \in SUBSET (0 .. n), D # {}
    PROVE  /\ Min(D) \in D /\ \A i \in D : Min(D) <= i
           /\ Max(D) \in D /\ \A i \in D : Max(D) >= i
<1>1. D \in SUBSET Nat
  OBVIOUS
<1>2. \E k \in D : \A j \in D : k <= j
  BY <1>1, LeastExists
<1>3. Min(D) \in D /\ \A i \in D : Min(D) <= i
  BY <1>2 DEF Min
<1> DEFINE E == {n - i : i \in D}
<1>4. E \in SUBSET Nat /\ E # {}
  <2>1. \A i \in D : i \in 0 .. n
    OBVIOUS
  <2>2. \A i \in 0 .. n : n - i \in Nat
    OBVIOUS
  <2>3. \A i \in D : n - i \in Nat
    BY <2>1, <2>2
  <2> QED
    BY <2>3
<1>5. PICK e \in E : \A j \in E : e <= j
  <2> HIDE DEF E
  <2> QED
    BY <1>4, LeastExists
<1>6. PICK m \in D : e = n - m
  BY <1>5
<1>7. \A i \in D : m >= i
  <2> SUFFICES ASSUME NEW i \in D PROVE m >= i
    OBVIOUS
  <2>1. n - i \in E
    OBVIOUS
  <2>2. n - m <= n - i
    BY <1>5, <1>6, <2>1
  <2> QED
    BY <2>2
<1>8. Max(D) \in D /\ \A i \in D : Max(D) >= i
  BY <1>7 DEF Max
<1> QED
  BY <1>3, <1>8

Resolved ==
  /\ named.query \in Seq(Tokens)
  /\ resolved = {} \/ resolved = ResolveSignalQuery(named.stored, named.query)

LEMMA NamesAreLongest == ASSUME Resolved PROVE LongestStoredName
<1> DEFINE q == named.query
           stored == named.stored
           Good(r) == /\ q = r.root \/ Len(r.sel) = Len(q) - Len(r.root)
                      /\ \A i \in Len(r.root) + 1 .. Len(q) :
                           SubSeq(q, 1, i) \in stored => ~Selectors(q, i + 1)
           splits == {i \in Brackets(q) : SubSeq(q, 1, i - 1) \in stored /\ Selectors(q, i)}
<1>0. q \in Seq(Tokens) /\ Len(q) \in Nat /\ DOMAIN q = 1 .. Len(q)
  BY DEF Resolved
<1> SUFFICES ASSUME NEW r \in ResolveSignalQuery(stored, q) PROVE Good(r)
  BY DEF LongestStoredName, Resolved
<1>1. Brackets(q) \subseteq 1 .. Len(q) /\ \A i \in 1 .. Len(q) : q[i].kind = "select" => i \in Brackets(q)
  BY <1>0 DEF Brackets
<1>2. ASSUME NEW i \in 1 .. Len(q) PROVE Len(SplitAt(q, i).sel) = Len(q) - (i - 1) /\ Len(SplitAt(q, i).root) = i - 1
  <2>1. SplitAt(q, i).root = SubSeq(q, 1, i - 1) /\ SplitAt(q, i).sel = [k \in 1 .. Len(q) - i + 1 |-> q[i + k - 1].range]
    BY DEF SplitAt
  <2>2. Len(SubSeq(q, 1, i - 1)) = i - 1
    BY <1>0
  <2>3. Len(q) - i + 1 \in Nat
    BY <1>0
  <2>4. Len([k \in 1 .. Len(q) - i + 1 |-> q[i + k - 1].range]) = Len(q) - i + 1
    BY <2>3
  <2> QED
    BY <1>0, <2>1, <2>2, <2>4

(* A stored name with selects after it is the query or a split of it.      *)
<1>3. ASSUME NEW i \in 1 .. Len(q), SubSeq(q, 1, i) \in stored, Selectors(q, i + 1), q \notin stored
      PROVE  i + 1 \in splits
  <2>1. i # Len(q)
    <3>1. SubSeq(q, 1, Len(q)) = q
      BY <1>0
    <3> QED
      BY <1>3, <3>1
  <2>2. i + 1 \in 1 .. Len(q) /\ (i + 1) - 1 = i
    BY <1>0, <2>1
  <2>3. q[i + 1].kind = "select"
    <3>1. i + 1 \in i + 1 .. Len(q)
      BY <2>2
    <3> QED
      BY <1>3, <3>1 DEF Selectors
  <2> QED
    BY <1>1, <1>3, <2>2, <2>3
<1>4. CASE q \in stored
  <2>1. r.root = q
    BY <1>4 DEF ResolveSignalQuery
  <2>2. Len(q) + 1 .. Len(q) = {}
    BY <1>0
  <2> QED
    BY <2>1, <2>2
<1>5. CASE q \notin stored /\ splits # {}
  <2>1. r = SplitAt(q, Max(splits))
    BY <1>5 DEF ResolveSignalQuery
  <2>2. splits \in SUBSET (0 .. Len(q))
    BY <1>1
  <2> HIDE DEF splits
  <2>3. Max(splits) \in splits /\ \A i \in splits : Max(splits) >= i
    BY <1>0, <1>5, <2>2, EndsExist
  <2>4. Max(splits) \in 1 .. Len(q)
    BY <1>1, <2>3 DEF splits
  <2> DEFINE m == Max(splits)
  <2> HIDE DEF m
  <2>5. Len(r.sel) = Len(q) - (m - 1) /\ Len(r.root) = m - 1 /\ m \in 1 .. Len(q)
    BY <1>2, <2>1, <2>4 DEF m
  <2>6. ASSUME NEW i \in m .. Len(q), SubSeq(q, 1, i) \in stored, Selectors(q, i + 1) PROVE FALSE
    <3>1. i \in 1 .. Len(q)
      BY <1>0, <2>5
    <3>2. i + 1 \in splits
      BY <1>3, <1>5, <2>6, <3>1
    <3>3. m >= i + 1
      BY <2>3, <3>2 DEF m
    <3> QED
      BY <1>0, <2>5, <3>3
  <2>7. (m - 1) + 1 = m
    BY <1>0, <2>5
  <2> QED
    BY <2>5, <2>6, <2>7
<1>6. CASE q \notin stored /\ splits = {}
  <2>1. r \in ParseSignalQuery(q)
    BY <1>6 DEF ResolveSignalQuery
  <2> DEFINE leaf == Max({0} \cup {i \in DOMAIN q : q[i].kind = "dot"})
             after == {i \in Brackets(q) : i > leaf}
  <2>2. ASSUME NEW i \in 1 .. Len(q), SubSeq(q, 1, i) \in stored PROVE ~Selectors(q, i + 1)
    BY <1>3, <1>6, <2>2
  <2>3. CASE after = {}
    <3>1. r.root = q
      BY <2>1, <2>3 DEF ParseSignalQuery
    <3>2. Len(q) + 1 .. Len(q) = {}
      BY <1>0
    <3> QED
      BY <3>1, <3>2
  <2>4. CASE after # {}
    <3>1. r = SplitAt(q, Min(after))
      BY <2>1, <2>4 DEF ParseSignalQuery
    <3>2. after \in SUBSET (0 .. Len(q))
      BY <1>1
    <3> HIDE DEF after
    <3>3. Min(after) \in after
      BY <1>0, <2>4, <3>2, EndsExist
    <3>4. Min(after) \in 1 .. Len(q)
      BY <1>1, <3>3 DEF after
    <3> DEFINE m == Min(after)
    <3> HIDE DEF m
    <3>5. Len(r.sel) = Len(q) - (m - 1) /\ Len(r.root) = m - 1 /\ m \in 1 .. Len(q)
      BY <1>2, <3>1, <3>4 DEF m
    <3>6. \A i \in (m - 1) + 1 .. Len(q) : i \in 1 .. Len(q)
      BY <1>0, <3>5
    <3> QED
      BY <2>2, <3>5, <3>6
  <2> QED
    BY <2>3, <2>4
<1> QED
  BY <1>4, <1>5, <1>6

LEMMA ChecksAre ==
    ASSUME NEW d, NEW sel
    PROVE  /\ DOMAIN Checks(d, sel) = 1 .. 9 /\ \A i \in 1 .. 9 : Checks(d, sel)[i].code # "run"
<1> DEFINE c == Checks(d, sel)
<1>1. DOMAIN c = 1 .. 9
  BY DEF Checks
<1>2. /\ c[1].code # "run" /\ c[2].code # "run" /\ c[3].code # "run"
      /\ c[4].code # "run" /\ c[5].code # "run" /\ c[6].code # "run"
      /\ c[7].code # "run" /\ c[8].code # "run" /\ c[9].code # "run"
  BY DEF Checks
<1>3. \A i \in 1 .. 9 : i = 1 \/ i = 2 \/ i = 3 \/ i = 4 \/ i = 5 \/ i = 6 \/ i = 7 \/ i = 8 \/ i = 9
  OBVIOUS
<1> HIDE DEF c
<1> QED
  BY <1>1, <1>2, <1>3 DEF c

LEMMA RunMeans ==
    ASSUME NEW d, NEW sel, Diagnosis(d, sel) = "run", sel # <<>>, d.coord, ~d.old, d.member => d.memberVerified
    PROVE  ~OutOfBounds(d, sel) /\ ~(Len(sel) > Len(d.axes)) /\ ~d.unsupported
           /\ ~(Len(sel) = 1 /\ Len(d.axes) > 1 /\ d.axes[1].packed)
<1> DEFINE c == Checks(d, sel)
           failed == {i \in DOMAIN c : c[i].fails}
<1>1. failed = {}
  <2> SUFFICES ASSUME failed # {} PROVE FALSE
    OBVIOUS
  <2>1. Diagnosis(d, sel) = c[Min(failed)].code
    BY DEF Diagnosis
  <2>2. failed \in SUBSET (0 .. 9)
    BY ChecksAre
  <2> HIDE DEF failed
  <2>3. Min(failed) \in failed
    BY <2>2, EndsExist
  <2>4. Min(failed) \in 1 .. 9
    BY <2>3, ChecksAre DEF failed
  <2> QED
    BY <2>1, <2>4, ChecksAre
<1>2. ~c[2].fails /\ ~c[3].fails /\ ~c[4].fails /\ ~c[5].fails
  <2>1. 2 \in DOMAIN c /\ 3 \in DOMAIN c /\ 4 \in DOMAIN c /\ 5 \in DOMAIN c
    BY ChecksAre
  <2> HIDE DEF c
  <2> QED
    BY <1>1, <2>1
<1> DEFINE legacy == d.old \/ (d.member /\ ~d.memberVerified)
           declared == ~legacy /\ d.coord
<1>3. /\ c[2].fails = (declared /\ d.unsupported) /\ c[3].fails = (declared /\ Len(sel) > Len(d.axes))
      /\ c[4].fails = (declared /\ OutOfBounds(d, sel))
      /\ c[5].fails = (declared /\ Len(sel) = 1 /\ Len(d.axes) > 1 /\ d.axes[1].packed)
  BY DEF Checks
<1>4. declared
  OBVIOUS
<1> HIDE DEF c, declared
<1> QED
  BY <1>2, <1>3, <1>4

LEMMA OverlapIs ==
    ASSUME NEW r \in Int \X Int, NEW q \in Int \X Int
    PROVE  RangesOverlap(r, q) <=> \E i \in Int : i \in Span(r) /\ i \in Span(q)
<1>1. /\ Low(r) \in Int /\ High(r) \in Int /\ Low(r) <= High(r) /\ Span(r) = Low(r) .. High(r)
      /\ Low(q) \in Int /\ High(q) \in Int /\ Low(q) <= High(q) /\ Span(q) = Low(q) .. High(q)
  BY RangeIs
<1>2. /\ Max({Low(r), Low(q)}) = (IF Low(r) >= Low(q) THEN Low(r) ELSE Low(q))
      /\ Min({High(r), High(q)}) = (IF High(r) <= High(q) THEN High(r) ELSE High(q))
  BY <1>1, OfTwo
<1> DEFINE lo == IF Low(r) >= Low(q) THEN Low(r) ELSE Low(q)
           hi == IF High(r) <= High(q) THEN High(r) ELSE High(q)
<1>3. RangesOverlap(r, q) <=> lo <= hi
  BY <1>2 DEF RangesOverlap
<1>4. lo \in Int /\ hi \in Int /\ \A i \in Int : i \in Span(r) /\ i \in Span(q) <=> lo <= i /\ i <= hi
  BY <1>1
<1> HIDE DEF lo, hi
<1>5. lo <= hi <=> \E i \in Int : lo <= i /\ i <= hi
  BY <1>4
<1> QED
  BY <1>3, <1>4, <1>5

LEMMA BoundsAre ==
    ASSUME NEW d, Declared(d), NEW a \in DOMAIN d.axes
    PROVE  /\ Bounds(d.axes[a]) \in Int \X Int /\ d.axes[a] \in Axes
           /\ \E i \in Int : i \in Span(Bounds(d.axes[a]))
<1>1. d.axes[a] \in Axes /\ Bounds(d.axes[a]) \in Int \X Int
  BY AxisIs, WidthIs
<1>2. Low(Bounds(d.axes[a])) \in Int /\ Low(Bounds(d.axes[a])) \in Span(Bounds(d.axes[a]))
  BY <1>1, RangeIs
<1> QED
  BY <1>1, <1>2

LEMMA RangeHas == ASSUME NEW r \in Int \X Int PROVE \E i \in Int : i \in Span(r)
<1>1. Low(r) \in Int /\ Low(r) \in Span(r)
  BY RangeIs
<1> QED
  BY <1>1

SelectionInv ==
  \/ asked = NoSignal
  \/ asked \in Declarations /\ selected \in Selections /\ diagnosis = Diagnosis(asked, selected)

LEMMA AskedIs ==
    ASSUME SelectionInv, LayoutKnown(asked), diagnosis = "run", Len(selected) <= Len(asked.axes)
    PROVE  /\ Declared(asked) /\ InBounds(asked, selected) /\ asked.coord /\ ~asked.unverified
           /\ \A a \in DOMAIN asked.axes : asked.axes[a].fixed /\ (asked.axes[a].packed \/ asked.mapped)
<1>1. asked # NoSignal
  <2> SUFFICES ASSUME asked = NoSignal PROVE FALSE
    OBVIOUS
  <2>1. ~asked.coord
    BY DEF NoSignal
  <2> QED
    BY <2>1 DEF LayoutKnown
<1>2. asked \in Declarations /\ selected \in Selections /\ Diagnosis(asked, selected) = "run"
  BY <1>1 DEF SelectionInv
<1>3. Declared(asked) /\ (asked.coord => ~asked.old) /\ selected \in Seq(Int \X Int)
  BY <1>2, CoordinateAssumption DEF Declared
<1>4. ASSUME NEW a \in DOMAIN selected \cap DOMAIN asked.axes
      PROVE  Span(selected[a]) \subseteq Span(Bounds(asked.axes[a]))
  <2>1. selected # <<>>
    OBVIOUS
  <2>2. ~OutOfBounds(asked, selected)
    BY <1>2, <1>3, <2>1, RunMeans DEF LayoutKnown
  <2> QED
    BY <2>2 DEF OutOfBounds, LayoutKnown
<1> QED
  BY <1>3, <1>4 DEF InBounds, LayoutKnown

LEMMA SelectionFits ==
    ASSUME SelectionInv, LayoutKnown(asked), diagnosis = "run"
    PROVE  Len(selected) <= Len(asked.axes)
<1>1. asked # NoSignal
  <2> SUFFICES ASSUME asked = NoSignal PROVE FALSE
    OBVIOUS
  <2>1. ~asked.coord
    BY DEF NoSignal
  <2> QED
    BY <2>1 DEF LayoutKnown
<1>2. asked \in Declarations /\ selected \in Selections /\ Diagnosis(asked, selected) = "run"
  BY <1>1 DEF SelectionInv
<1>3. Declared(asked) /\ (asked.coord => ~asked.old) /\ selected \in Seq(Int \X Int)
  BY <1>2, CoordinateAssumption DEF Declared
<1>4. Len(asked.axes) \in Nat /\ Len(selected) \in Nat
  BY <1>3, AxisIs
<1>5. CASE selected = <<>>
  BY <1>4, <1>5
<1>6. CASE selected # <<>>
  <2>1. ~(Len(selected) > Len(asked.axes))
    BY <1>2, <1>3, <1>6, RunMeans DEF LayoutKnown
  <2> QED
    BY <1>4, <2>1
<1> QED
  BY <1>5, <1>6

LEMMA FilterIsExact == ASSUME SelectionInv PROVE FilterExact
<1> DEFINE d == asked
           sel == selected
<1> SUFFICES ASSUME sel # <<>>, d.coord, diagnosis = "run", LayoutKnown(d), NEW bits \in Bitmaps, Recordable(d, bits)
             PROVE  LET e == [kind |-> "expr", bits |-> bits, logical |-> TRUE, approx |-> \E a \in DOMAIN bits : bits[a] = Symbolic]
                        range(a) == IF bits[a] = Symbolic THEN Bounds(d.axes[a]) ELSE bits[a]
                        common == Elements(d, sel) \cap Elements(d, [a \in DOMAIN bits |-> range(a)])
                    IN  EndpointMatchesSignalAxes(e, sel) <=> common # {}
  BY DEF FilterExact
<1> DEFINE e == [kind |-> "expr", bits |-> bits, logical |-> TRUE, approx |-> \E a \in DOMAIN bits : bits[a] = Symbolic]
           range(a) == IF bits[a] = Symbolic THEN Bounds(d.axes[a]) ELSE bits[a]
           rs == [a \in DOMAIN bits |-> range(a)]
           Match == \A a \in DOMAIN sel \cap DOMAIN bits : bits[a] # Symbolic => RangesOverlap(sel[a], bits[a])
<1>1. Declared(d) /\ InBounds(d, sel) /\ sel \in Seq(Int \X Int)
  BY AskedIs, SelectionFits DEF InBounds
<1>2. /\ bits \in Seq({Symbolic} \cup (Int \X Int)) /\ Len(bits) \in Nat /\ DOMAIN bits = 1 .. Len(bits)
      /\ Len(bits) <= Len(d.axes) /\ \A a \in DOMAIN bits : bits[a] # Symbolic => Span(bits[a]) \subseteq Span(Bounds(d.axes[a]))
  BY CoordinateAssumption DEF Recordable
<1>3. DOMAIN d.axes = 1 .. Len(d.axes) /\ Len(d.axes) \in Nat /\ DOMAIN bits \subseteq DOMAIN d.axes
  BY <1>1, <1>2, AxisIs
<1>4. \A a \in DOMAIN bits : /\ rs[a] = range(a) /\ rs[a] \in Int \X Int /\ Span(rs[a]) \subseteq Span(Bounds(d.axes[a]))
                             /\ bits[a] # Symbolic => rs[a] = bits[a] /\ bits[a] \in Int \X Int
                             /\ bits[a] = Symbolic => rs[a] = Bounds(d.axes[a])
  <2> SUFFICES ASSUME NEW a \in DOMAIN bits
               PROVE  /\ rs[a] = range(a) /\ rs[a] \in Int \X Int /\ Span(rs[a]) \subseteq Span(Bounds(d.axes[a]))
                      /\ bits[a] # Symbolic => rs[a] = bits[a] /\ bits[a] \in Int \X Int
                      /\ bits[a] = Symbolic => rs[a] = Bounds(d.axes[a])
    OBVIOUS
  <2>1. Bounds(d.axes[a]) \in Int \X Int
    BY <1>1, <1>3, BoundsAre
  <2>2. bits[a] \in {Symbolic} \cup (Int \X Int)
    BY <1>2
  <2> QED
    BY <1>2, <2>1, <2>2
<1>5. InBounds(d, rs)
  <2>1. rs \in Seq(Int \X Int) /\ DOMAIN rs = DOMAIN bits
    BY <1>2, <1>4
  <2> QED
    BY <1>4, <2>1 DEF InBounds
<1>6. EndpointMatchesSignalAxes(e, sel) <=> Match
  <2>1. e.kind # "port" /\ e.bits = bits /\ e.logical
    OBVIOUS
  <2>2. CASE bits = <<>>
    <3>1. DOMAIN bits = {}
      BY <1>2, <2>2
    <3> QED
      BY <2>1, <2>2, <3>1 DEF EndpointMatchesSignalAxes
  <2>3. CASE bits # <<>>
    BY <2>1, <2>3 DEF EndpointMatchesSignalAxes
  <2> QED
    BY <2>2, <2>3
<1> DEFINE common == Elements(d, sel) \cap Elements(d, rs)
<1>7. DOMAIN rs = DOMAIN bits /\ \A a \in DOMAIN sel : sel[a] \in Int \X Int
  BY <1>1
<1> HIDE DEF rs, e
<1>8. ASSUME NEW t \in common PROVE Match
  <2> SUFFICES ASSUME NEW a \in DOMAIN sel \cap DOMAIN bits, bits[a] # Symbolic PROVE RangesOverlap(sel[a], bits[a])
    OBVIOUS
  <2>1. t[a] \in Int /\ t[a] \in Span(sel[a])
    BY <1>1, <1>3, <1>8, ElementIs
  <2>2. t[a] \in Span(rs[a])
    BY <1>1, <1>3, <1>5, <1>7, <1>8, ElementIs
  <2> QED
    BY <1>4, <1>7, <2>1, <2>2, OverlapIs
<1>9. ASSUME Match PROVE common # {}
  <2> DEFINE Cell(a) == {i \in Int : /\ i \in Span(Bounds(d.axes[a])) /\ (a \in DOMAIN sel => i \in Span(sel[a]))
                                     /\ (a \in DOMAIN bits => i \in Span(rs[a]))}
             t == [a \in DOMAIN d.axes |-> CHOOSE i \in Cell(a) : TRUE]
  <2>1. ASSUME NEW a \in DOMAIN d.axes PROVE Cell(a) # {}
    <3>1. a \in DOMAIN sel => Span(sel[a]) \subseteq Span(Bounds(d.axes[a])) /\ sel[a] \in Int \X Int
      BY <1>1, <1>7, <2>1 DEF InBounds
    <3>2. a \in DOMAIN bits => Span(rs[a]) \subseteq Span(Bounds(d.axes[a])) /\ rs[a] \in Int \X Int
      BY <1>4
    <3>3. CASE a \in DOMAIN sel /\ a \in DOMAIN bits
      <4>1. CASE bits[a] = Symbolic
        <5>1. PICK i \in Int : i \in Span(sel[a])
          BY <3>1, <3>3, RangeHas
        <5> QED
          BY <1>4, <3>1, <3>3, <4>1, <5>1
      <4>2. CASE bits[a] # Symbolic
        <5>1. RangesOverlap(sel[a], rs[a])
          BY <1>4, <1>9, <3>3, <4>2
        <5>2. PICK i \in Int : i \in Span(sel[a]) /\ i \in Span(rs[a])
          BY <3>1, <3>2, <3>3, <5>1, OverlapIs
        <5> QED
          BY <3>1, <5>2, <3>3
      <4> QED
        BY <4>1, <4>2
    <3>4. CASE a \in DOMAIN sel /\ a \notin DOMAIN bits
      <4>1. PICK i \in Int : i \in Span(sel[a])
        BY <3>1, <3>4, RangeHas
      <4> QED
        BY <3>1, <3>4, <4>1
    <3>5. CASE a \notin DOMAIN sel /\ a \in DOMAIN bits
      <4>1. PICK i \in Int : i \in Span(rs[a])
        BY <3>2, <3>5, RangeHas
      <4> QED
        BY <3>2, <3>5, <4>1
    <3>6. CASE a \notin DOMAIN sel /\ a \notin DOMAIN bits
      <4>1. PICK i \in Int : i \in Span(Bounds(d.axes[a]))
        BY <1>1, <2>1, BoundsAre
      <4> QED
        BY <3>6, <4>1
    <3> QED
      BY <3>3, <3>4, <3>5, <3>6
  <2>2. \A a \in DOMAIN d.axes : t[a] \in Cell(a)
    <3> SUFFICES ASSUME NEW a \in DOMAIN d.axes PROVE t[a] \in Cell(a)
      OBVIOUS
    <3>1. Cell(a) # {}
      BY <2>1
    <3> HIDE DEF Cell
    <3> QED
      BY <3>1
  <2>3. t = [a \in DOMAIN d.axes |-> t[a]]
    OBVIOUS
  <2> HIDE DEF t
  <2>4. t \in [DOMAIN d.axes -> Int]
    BY <2>2, <2>3
  <2>5. t \in Elements(d, sel)
    BY <1>1, <2>2, <2>4, ElementIs
  <2>6. t \in Elements(d, rs)
    BY <1>1, <1>5, <1>7, <2>2, <2>4, ElementIs
  <2> QED
    BY <2>5, <2>6
<1> QED
  BY <1>6, <1>8, <1>9 DEF rs, e

(* A selection of one index on each axis is one bit.                       *)
OneIndexEach(d, b) == [a \in DOMAIN d.axes |-> <<AxisIndex(d.axes[a], DigitOf(d, b, a)), AxisIndex(d.axes[a], DigitOf(d, b, a))>>]

LEMMA OneIndexIs ==
    ASSUME NEW d, Declared(d), NEW b \in 0 .. Total(d) - 1
    PROVE  /\ InBounds(d, OneIndexEach(d, b)) /\ Len(OneIndexEach(d, b)) = Len(d.axes)
           /\ Chosen(d, OneIndexEach(d, b)) = {b}
<1> DEFINE n == Len(d.axes)
           h == OneIndexEach(d, b)
           i(a) == AxisIndex(d.axes[a], DigitOf(d, b, a))
<1>1. DOMAIN d.axes = 1 .. n /\ n \in Nat /\ \A a \in 1 .. n : d.axes[a] \in Axes
  BY AxisIs
<1>2. b \in Int
  BY RadixOf DEF Pos
<1>3. \A a \in 1 .. n : /\ DigitOf(d, b, a) \in 0 .. Width(d.axes[a]) - 1 /\ DigitOf(d, b, a) \in Int
                        /\ i(a) \in Int /\ PortAxisOffset(d.axes[a], i(a)) = DigitOf(d, b, a)
                        /\ i(a) \in Span(Bounds(d.axes[a]))
  <2> SUFFICES ASSUME NEW a \in 1 .. n
               PROVE  /\ DigitOf(d, b, a) \in 0 .. Width(d.axes[a]) - 1 /\ DigitOf(d, b, a) \in Int
                      /\ i(a) \in Int /\ PortAxisOffset(d.axes[a], i(a)) = DigitOf(d, b, a)
                      /\ i(a) \in Span(Bounds(d.axes[a]))
    OBVIOUS
  <2>1. DigitOf(d, b, a) \in 0 .. Width(d.axes[a]) - 1 /\ DigitOf(d, b, a) \in Int
    BY <1>2, DigitOfIs
  <2> QED
    BY <1>1, <2>1, OffsetIs
<1>4. h = [a \in 1 .. n |-> <<i(a), i(a)>>]
  BY <1>1 DEF OneIndexEach
<1> HIDE DEF h, i
<1>5. DOMAIN h = 1 .. n /\ \A a \in 1 .. n : h[a] = <<i(a), i(a)>> /\ h[a] \in Int \X Int
  BY <1>3, <1>4
<1>6. h \in Seq(Int \X Int) /\ Len(h) = n
  BY <1>1, <1>4, <1>5
<1>7. \A a \in 1 .. n : FirstOf2(d.axes[a], h[a]) = DigitOf(d, b, a) /\ LastOf2(d.axes[a], h[a]) = DigitOf(d, b, a)
  <2> SUFFICES ASSUME NEW a \in 1 .. n
               PROVE  FirstOf2(d.axes[a], h[a]) = DigitOf(d, b, a) /\ LastOf2(d.axes[a], h[a]) = DigitOf(d, b, a)
    OBVIOUS
  <2>1. h[a][1] = i(a) /\ h[a][2] = i(a)
    BY <1>5
  <2>2. PortAxisOffset(d.axes[a], h[a][1]) = DigitOf(d, b, a) /\ PortAxisOffset(d.axes[a], h[a][2]) = DigitOf(d, b, a)
    BY <1>3, <2>1
  <2>3. DigitOf(d, b, a) \in Int
    BY <1>3
  <2> QED
    BY <2>2, <2>3, OfTwo DEF FirstOf2, LastOf2
<1>8. InBounds(d, h)
  <2> SUFFICES ASSUME NEW a \in 1 .. n PROVE Span(h[a]) \subseteq Span(Bounds(d.axes[a]))
    BY <1>1, <1>5, <1>6 DEF InBounds
  <2>1. 0 <= DigitOf(d, b, a) /\ DigitOf(d, b, a) < Width(d.axes[a])
    BY <1>1, <1>3, WidthIs DEF Pos
  <2> QED
    BY <1>1, <1>5, <1>7, <2>1, RangeOffsets
<1>9. ASSUME NEW c \in 0 .. Total(d) - 1
      PROVE  c \in Chosen(d, h) <=> c = b
  <2>0. c \in Int
    BY RadixOf DEF Pos
  <2>1. \A a \in 1 .. n : DigitOf(d, c, a) \in Int
    BY <2>0, DigitOfIs
  <2>2. \A a \in 1 .. n : Within(d, h, c, a) <=> DigitOf(d, c, a) = DigitOf(d, b, a)
    BY <1>3, <1>7, <2>1 DEF Within
  <2>3. c \in Chosen(d, h) <=> \A a \in 1 .. n : DigitOf(d, c, a) = DigitOf(d, b, a)
    BY <1>1, <1>5, <2>2 DEF Chosen
  <2> QED
    BY <2>3, SameDigits
<1>10. \A c \in Chosen(d, h) : c \in 0 .. Total(d) - 1
  BY DEF Chosen
<1>11. Chosen(d, h) = {b}
  BY <1>9, <1>10
<1> QED
  BY <1>6, <1>8, <1>11 DEF h

LEMMA HintIs ==
    ASSUME NEW d, NEW sel, NEW hint \in flat_rewrite(d, sel), Declared(d), sel \in Seq(Int \X Int)
    PROVE  /\ sel[1][1] \in 0 .. Total(d) - 1 /\ hint = OneIndexEach(d, sel[1][1]) /\ d.coord
           /\ \A a \in DOMAIN d.axes : d.axes[a].fixed /\ d.axes[a].packed
<1> DEFINE n == Len(d.axes)
           bit == sel[1][1]
           index(a) == AxisIndex(d.axes[a], (bit \div Stride(d, a)) % Width(d.axes[a]))
<1>1. DOMAIN d.axes = 1 .. n /\ n \in Nat
  BY AxisIs
<1>2. /\ Len(sel) = 1 /\ d.coord /\ ~(bit < 0) /\ ~(bit >= Total(d))
      /\ \A a \in DOMAIN d.axes : d.axes[a].fixed /\ d.axes[a].packed
      /\ hint = [a \in DOMAIN d.axes |-> <<index(a), index(a)>>]
  BY DEF flat_rewrite
<1>3. bit \in Int /\ Total(d) \in Int
  <2>1. sel[1] \in Int \X Int
    BY <1>2
  <2> QED
    BY <2>1, RadixOf DEF Pos
<1>4. \A a \in DOMAIN d.axes : index(a) = AxisIndex(d.axes[a], DigitOf(d, bit, a))
  <2> SUFFICES ASSUME NEW a \in 1 .. n PROVE DigitOf(d, bit, a) = (bit \div Stride(d, a)) % Width(d.axes[a])
    BY <1>1
  <2>1. Widths(d)[a] = Width(d.axes[a]) /\ Weights(d)[a] = Stride(d, a)
    BY <1>1, RadixOf
  <2> QED
    BY <2>1 DEF DigitOf, Digit
<1> HIDE DEF index
<1>5. hint = OneIndexEach(d, bit)
  BY <1>2, <1>4 DEF OneIndexEach
<1> QED
  BY <1>2, <1>3, <1>5

LEMMA HintRuns ==
    ASSUME NEW d, Declared(d), d.coord, ~d.member, ~d.global, ~d.unsupported, ~d.old,
           NEW sel, InBounds(d, sel), Len(sel) = Len(d.axes)
    PROVE  Diagnosis(d, sel) = "run"
<1> DEFINE c == Checks(d, sel)
           failed == {i \in DOMAIN c : c[i].fails}
<1>1. /\ ~(Len(sel) > Len(d.axes)) /\ ~(Len(sel) = 1 /\ Len(d.axes) > 1)
  BY AxisIs
<1>2. ~OutOfBounds(d, sel)
  BY DEF OutOfBounds, InBounds
<1>3. /\ ~c[1].fails /\ ~c[2].fails /\ ~c[3].fails /\ ~c[4].fails /\ ~c[5].fails
      /\ ~c[6].fails /\ ~c[7].fails /\ ~c[8].fails /\ ~c[9].fails
  BY <1>1, <1>2 DEF Checks
<1>4. \A i \in 1 .. 9 : i = 1 \/ i = 2 \/ i = 3 \/ i = 4 \/ i = 5 \/ i = 6 \/ i = 7 \/ i = 8 \/ i = 9
  OBVIOUS
<1>5. DOMAIN c = 1 .. 9
  BY ChecksAre
<1> HIDE DEF c
<1>6. failed = {}
  BY <1>3, <1>4, <1>5
<1> QED
  BY <1>6 DEF Diagnosis, c

LEMMA HintIsExact == ASSUME SelectionInv PROVE HintIsTheBit
<1> DEFINE d == asked
           sel == selected
<1> SUFFICES ASSUME sel # <<>>, NEW hint \in flat_rewrite(d, sel)
             PROVE  /\ {BitOf(d, t) : t \in Elements(d, hint)} = {sel[1][1] + d.offset}
                    /\ Diagnosis(d, hint) = "run" \/ d.member \/ d.global \/ d.unsupported \/ d.old
  BY DEF HintIsTheBit
<1>1. d # NoSignal
  <2> SUFFICES ASSUME d = NoSignal PROVE FALSE
    OBVIOUS
  <2>1. ~d.coord
    BY DEF NoSignal
  <2> QED
    BY <2>1 DEF flat_rewrite
<1>2. Declared(d) /\ d.offset \in Nat /\ sel \in Seq(Int \X Int)
  BY <1>1, CoordinateAssumption DEF Declared, SelectionInv
<1> DEFINE b == sel[1][1]
<1>3. b \in 0 .. Total(d) - 1 /\ hint = OneIndexEach(d, b) /\ d.coord
  BY <1>2, HintIs
<1>4. InBounds(d, hint) /\ Len(hint) = Len(d.axes) /\ Chosen(d, hint) = {b}
  BY <1>2, <1>3, OneIndexIs
<1>5. b \in Int
  BY <1>2, <1>3, RadixOf DEF Pos
<1> HIDE DEF b
<1>6. {BitOf(d, t) : t \in Elements(d, hint)} = {d.offset + c : c \in Chosen(d, hint)}
  BY <1>2, <1>4, ElementsAreBits
<1>7. d.offset + b = b + d.offset
  BY <1>2, <1>5
<1>8. {BitOf(d, t) : t \in Elements(d, hint)} = {b + d.offset}
  BY <1>4, <1>6, <1>7
<1>9. Diagnosis(d, hint) = "run" \/ d.member \/ d.global \/ d.unsupported \/ d.old
  BY <1>2, <1>3, <1>4, HintRuns
<1> QED
  BY <1>8, <1>9 DEF b
---------------------------------------------------------------------------
(* The ranges of PortOwnerSelection, cut axis by axis.                     *)
CutStates == [ranges : SUBSET (Int \X Int), done : BOOLEAN, failed : BOOLEAN]
FirstCut(d, sel) ==
  [ranges |-> {<<0, IF sel = <<>> THEN Total(d) - 1 ELSE 0>>}, done |-> sel = <<>>, failed |-> FALSE]

WholeRanges(d, sel, s, a) ==
  {<<r[1] + (FirstOf2(d.axes[a], sel[a]) * Stride(d, a)), r[2] + ((LastOf2(d.axes[a], sel[a]) + 1) * Stride(d, a)) - 1>> : r \in s.ranges}
CutRanges(d, sel, s, a) ==
  {<<r[1] + (i * Stride(d, a)), r[2] + (i * Stride(d, a))>> : r \in s.ranges, i \in FirstOf2(d.axes[a], sel[a]) .. LastOf2(d.axes[a], sel[a])}

LEMMA CutIs ==
    ASSUME NEW d, Declared(d), NEW sel \in Seq(Int \X Int), Len(sel) <= Len(d.axes),
           NEW s \in CutStates, NEW a \in 1 .. Len(sel)
    PROVE  LET lo == FirstOf2(d.axes[a], sel[a])
               hi == LastOf2(d.axes[a], sel[a])
               fits == ~s.done /\ lo >= 0 /\ hi < Width(d.axes[a])
               many == hi - lo + 1 > kPortMapMaxPieces \div Cardinality(s.ranges)
           IN  /\ Cut(d, sel, s, a) \in CutStates
               /\ s.done => Cut(d, sel, s, a) = s
               /\ fits /\ TrailingWhole(d, sel, a) =>
                    Cut(d, sel, s, a) = [ranges |-> WholeRanges(d, sel, s, a), done |-> TRUE, failed |-> FALSE]
               /\ fits /\ ~TrailingWhole(d, sel, a) /\ many =>
                    Cut(d, sel, s, a) = [ranges |-> {}, done |-> TRUE, failed |-> TRUE]
               /\ fits /\ ~TrailingWhole(d, sel, a) /\ ~many =>
                    Cut(d, sel, s, a) = [ranges |-> CutRanges(d, sel, s, a), done |-> FALSE, failed |-> s.failed]
<1> DEFINE lo == FirstOf2(d.axes[a], sel[a])
           hi == LastOf2(d.axes[a], sel[a])
           st == Stride(d, a)
           C == Cut(d, sel, s, a)
           out == lo < 0 \/ hi >= Width(d.axes[a])
           whole == TrailingWhole(d, sel, a)
           many == hi - lo + 1 > kPortMapMaxPieces \div Cardinality(s.ranges)
           Wide(r) == <<r[1] + lo * st, r[2] + (hi + 1) * st - 1>>
           Piece(r, i) == <<r[1] + i * st, r[2] + i * st>>
           R1 == {Wide(r) : r \in s.ranges}
           R2 == {Piece(r, i) : r \in s.ranges, i \in lo .. hi}
           failed == [ranges |-> {}, done |-> TRUE, failed |-> TRUE]
<1>1. a \in 1 .. Len(d.axes) /\ a \in 0 .. Len(d.axes)
  BY AxisIs
<1>2. d.axes[a] \in Axes /\ sel[a] \in Int \X Int
  BY <1>1, AxisIs
<1>3. lo \in Int /\ hi \in Int /\ lo <= hi
  BY <1>2, RangeOffsets
<1>4. st \in Int /\ Width(d.axes[a]) \in Int
  <2>1. Stride(d, a) \in Pos
    BY <1>1, RadixOf
  <2>2. Width(d.axes[a]) \in Pos
    BY <1>2, WidthIs
  <2> QED
    BY <2>1, <2>2 DEF Pos
<1>5. /\ s.ranges \in SUBSET (Int \X Int) /\ s.done \in BOOLEAN /\ s.failed \in BOOLEAN
      /\ s = [ranges |-> s.ranges, done |-> s.done, failed |-> s.failed]
  BY DEF CutStates
<1>6. C = (IF s.done THEN s
           ELSE IF out THEN failed
           ELSE IF whole THEN [ranges |-> R1, done |-> TRUE, failed |-> FALSE]
           ELSE IF many THEN failed
           ELSE [s EXCEPT !.ranges = R2])
  BY <1>5 DEF Cut, Offsets, FirstOf2, LastOf2
<1>7. R1 \in SUBSET (Int \X Int) /\ R2 \in SUBSET (Int \X Int)
  <2>1. \A r \in s.ranges : r[1] \in Int /\ r[2] \in Int
    BY <1>5
  <2>2. \A x, y, z \in Int : x + (y * z) \in Int /\ x + ((y + 1) * z) - 1 \in Int
    OBVIOUS
  <2>3. \A i \in lo .. hi : i \in Int
    BY <1>3
  <2>4. ASSUME NEW r \in s.ranges PROVE Wide(r) \in Int \X Int
    BY <1>3, <1>4, <2>1, <2>2
  <2>5. ASSUME NEW r \in s.ranges, NEW i \in lo .. hi PROVE Piece(r, i) \in Int \X Int
    <3>1. i \in Int /\ r[1] \in Int /\ r[2] \in Int
      BY <2>1, <2>3
    <3> HIDE DEF lo, hi, st
    <3> QED
      BY <1>4, <2>2, <3>1
  <2> HIDE DEF Wide, Piece, lo, hi
  <2> QED
    BY <2>4, <2>5
<1> HIDE DEF C, out, whole, many, R1, R2
<1>8. [s EXCEPT !.ranges = R2] = [ranges |-> R2, done |-> s.done, failed |-> s.failed]
  BY <1>5
<1>9. C = (IF s.done THEN s
           ELSE IF out THEN failed
           ELSE IF whole THEN [ranges |-> R1, done |-> TRUE, failed |-> FALSE]
           ELSE IF many THEN failed
           ELSE [ranges |-> R2, done |-> s.done, failed |-> s.failed])
  BY <1>6, <1>8
<1>10. out <=> ~(lo >= 0 /\ hi < Width(d.axes[a]))
  BY <1>3, <1>4 DEF out
<1>11. C \in CutStates
  <2>1. s.ranges \in SUBSET (Int \X Int) /\ {} \in SUBSET (Int \X Int)
    BY <1>5
  <2> QED
    BY <1>5, <1>7, <1>9, <2>1 DEF CutStates
<1>12. s.done => C = s
  BY <1>9
<1>13. ~s.done /\ ~out /\ whole => C = [ranges |-> R1, done |-> TRUE, failed |-> FALSE]
  BY <1>9
<1>14. ~s.done /\ ~out /\ ~whole /\ many => C = failed
  BY <1>9
<1>15. ~s.done /\ ~out /\ ~whole /\ ~many => C = [ranges |-> R2, done |-> FALSE, failed |-> s.failed]
  BY <1>5, <1>9
<1> HIDE DEF lo, hi, st, failed
<1>16. /\ C \in CutStates /\ (s.done => C = s)
       /\ ~s.done /\ lo >= 0 /\ hi < Width(d.axes[a]) /\ whole => C = [ranges |-> R1, done |-> TRUE, failed |-> FALSE]
       /\ ~s.done /\ lo >= 0 /\ hi < Width(d.axes[a]) /\ ~whole /\ many => C = failed
       /\ ~s.done /\ lo >= 0 /\ hi < Width(d.axes[a]) /\ ~whole /\ ~many => C = [ranges |-> R2, done |-> FALSE, failed |-> s.failed]
  BY <1>10, <1>11, <1>12, <1>13, <1>14, <1>15
<1>17. R1 = WholeRanges(d, sel, s, a) /\ R2 = CutRanges(d, sel, s, a)
  BY DEF R1, R2, lo, hi, st, WholeRanges, CutRanges
<1> QED
  BY <1>16, <1>17 DEF C, lo, hi, whole, many, failed

LEMMA CutsAre ==
    ASSUME NEW d, Declared(d), NEW sel \in Seq(Int \X Int), Len(sel) <= Len(d.axes)
    PROVE  /\ Cuts(d, sel)[0] = FirstCut(d, sel)
           /\ \A a \in 0 .. Len(sel) : Cuts(d, sel)[a] \in CutStates
           /\ \A a \in 1 .. Len(sel) : Cuts(d, sel)[a] = Cut(d, sel, Cuts(d, sel)[a - 1], a)
<1> DEFINE m == Len(sel)
           J == [a \in 0 .. m |-> CutStates]
           G == [x \in (1 .. m) \X CutStates |-> Cut(d, sel, x[2], x[1])]
           start == FirstCut(d, sel)
           cut == CHOOSE f : f = [a \in 0 .. m |-> IF a = 0 THEN start ELSE Cut(d, sel, f[a - 1], a)]
<1>1. Cuts(d, sel) = cut
  BY DEF Cuts, FirstCut
<1>2. m \in Nat
  OBVIOUS
<1>3. start \in CutStates
  <2>1. Total(d) \in Int
    BY RadixOf DEF Pos
  <2> QED
    BY <2>1 DEF FirstCut, CutStates
<1>4. \A a \in 1 .. m : \A s \in CutStates : G[<<a, s>>] = Cut(d, sel, s, a) /\ Cut(d, sel, s, a) \in CutStates
  <2> SUFFICES ASSUME NEW a \in 1 .. m, NEW s \in CutStates PROVE Cut(d, sel, s, a) \in CutStates
    OBVIOUS
  <2> QED
    BY CutIs
<1> HIDE DEF G, m, start
<1>5. PICK f : InSteps(f, m, start, G, J)
  <2>1. J \in [0 .. m -> SUBSET CutStates] /\ start \in J[0]
    BY <1>2, <1>3
  <2>2. \A k \in 1 .. m : \A s \in J[k - 1] : G[<<k, s>>] \in J[k]
    <3> SUFFICES ASSUME NEW k \in 1 .. m, NEW s \in J[k - 1] PROVE G[<<k, s>>] \in J[k]
      OBVIOUS
    <3>1. k - 1 \in 0 .. m /\ k \in 0 .. m
      BY <1>2
    <3> QED
      BY <1>4, <3>1
  <2> HIDE DEF J
  <2> QED
    BY <1>2, <2>1, <2>2, StepsInside
<1>6. f = [a \in 0 .. m |-> IF a = 0 THEN start ELSE Cut(d, sel, f[a - 1], a)]
  <2>1. ASSUME NEW k \in 0 .. m, k # 0
        PROVE  G[<<k, f[k - 1]>>] = Cut(d, sel, f[k - 1], k)
    <3>1. k - 1 \in 0 .. m /\ k \in 1 .. m
      BY <1>2, <2>1
    <3>2. f[k - 1] \in CutStates
      BY <1>5, <3>1 DEF InSteps
    <3> QED
      BY <1>4, <3>1, <3>2
  <2> QED
    BY <1>5, <2>1 DEF InSteps
<1>7. cut = [a \in 0 .. m |-> IF a = 0 THEN start ELSE Cut(d, sel, cut[a - 1], a)]
  BY <1>6
<1> HIDE DEF cut
<1>8. cut[0] = start /\ \A k \in 1 .. m : cut[k] = Cut(d, sel, cut[k - 1], k)
  <2>1. 0 \in 0 .. m /\ \A k \in 1 .. m : k \in 0 .. m /\ k # 0
    BY <1>2
  <2> QED
    BY <1>7, <2>1
<1>9. \A k \in 0 .. m : cut[k] \in CutStates
  <2> DEFINE P == {k \in 0 .. m : cut[k] \in CutStates}
  <2>1. 0 \in P
    BY <1>2, <1>3, <1>8
  <2>2. ASSUME NEW k \in 1 .. m, k - 1 \in P PROVE k \in P
    <3>1. k \in 0 .. m /\ cut[k - 1] \in CutStates
      BY <1>2, <2>2
    <3> QED
      BY <1>4, <1>8, <3>1
  <2>3. \A k \in 0 .. m : k \in P
    <3> HIDE DEF P
    <3> QED
      BY <1>2, <2>1, <2>2, Upward
  <2> QED
    BY <2>3
<1> QED
  BY <1>1, <1>8, <1>9 DEF m, start

(* Some bit has any digits that are asked for.                             *)
LEMMA DigitsExist ==
    ASSUME NEW d, Declared(d), NEW g, \A a \in 1 .. Len(d.axes) : g[a] \in 0 .. Width(d.axes[a]) - 1
    PROVE  \E b \in 0 .. Total(d) - 1 : \A a \in 1 .. Len(d.axes) : DigitOf(d, b, a) = g[a]
<1> DEFINE n == Len(d.axes)
           t == [a \in 1 .. n |-> AxisIndex(d.axes[a], g[a])]
<1>1. \A a \in 1 .. n : d.axes[a] \in Axes
  BY AxisIs
<1>2. ASSUME NEW a \in 1 .. n
      PROVE  t[a] \in Span(Bounds(d.axes[a])) /\ PortAxisOffset(d.axes[a], t[a]) = g[a]
  <2>1. Width(d.axes[a]) \in Int /\ d.axes[a] \in Axes
    BY <1>1, WidthIs DEF Pos
  <2>2. g[a] \in Int /\ g[a] \in 0 .. Width(d.axes[a]) - 1
    BY <2>1
  <2> QED
    BY <2>1, <2>2, OffsetIs
<1> HIDE DEF t
<1>3. /\ Flat(d, t)[n] \in 0 .. Total(d) - 1
      /\ \A a \in 1 .. n : DigitOf(d, Flat(d, t)[n], a) = PortAxisOffset(d.axes[a], t[a])
  BY <1>2, FlatIs DEF DigitOf
<1> QED
  BY <1>2, <1>3

(* A place in a row.                                                       *)
RowStart(d, k, x) == x \in 0 .. Total(d) - 1 /\ x % Stride(d, k) = 0

LEMMA PlaceInRow ==
    ASSUME NEW d, Declared(d), NEW a \in 1 .. Len(d.axes), NEW x, RowStart(d, a - 1, x),
           NEW r \in 0 .. Stride(d, a - 1) - 1
    PROVE  /\ x + r \in 0 .. Total(d) - 1
           /\ (x + r) - ((x + r) % Stride(d, a - 1)) = x /\ (x + r) % Stride(d, a - 1) = r
           /\ \A c \in 1 .. a - 1 : DigitOf(d, x + r, c) = DigitOf(d, x, c)
           /\ DigitOf(d, x + r, a) = r \div Stride(d, a)
           /\ (x + r) % Stride(d, a) = r % Stride(d, a)
<1> DEFINE n == Len(d.axes)
           W == Widths(d)
           S == Weights(d)
           y == x + r
<1>1. n \in Nat /\ a \in 0 .. n /\ a - 1 \in 0 .. n /\ a \in 1 .. n
  BY AxisIs
<1>2. /\ Radix(n, W, S) /\ Total(d) = S[0] /\ Total(d) \in Pos
      /\ S[a] = Stride(d, a) /\ S[a - 1] = Stride(d, a - 1) /\ S[a] \in Pos /\ S[a - 1] \in Pos
  BY <1>1, RadixOf
<1>3. x \in Int /\ x \in 0 .. Total(d) - 1 /\ r \in 0 .. S[a - 1] - 1 /\ r \in Int /\ x % S[a - 1] = 0 /\ y \in Int
  BY <1>2 DEF RowStart, Pos
<1> HIDE DEF W, S
<1>4. x \div S[a - 1] \in Int /\ x = (x \div S[a - 1]) * S[a - 1]
  <2>1. x \div S[a - 1] \in Int /\ x = ((x \div S[a - 1]) * S[a - 1]) + (x % S[a - 1])
    BY <1>2, <1>3, DivIs
  <2>2. \A p \in Int : p + 0 = p
    OBVIOUS
  <2>3. (x \div S[a - 1]) * S[a - 1] \in Int
    BY <1>2, <2>1 DEF Pos
  <2> QED
    BY <1>3, <2>1, <2>2, <2>3
<1>5. y \div S[a - 1] = x \div S[a - 1] /\ y % S[a - 1] = r
  <2>1. y = ((x \div S[a - 1]) * S[a - 1]) + r
    BY <1>4
  <2> HIDE DEF y
  <2> QED
    BY <1>2, <1>3, <1>4, <2>1, DivOf
<1>6. y - r = x
  BY <1>3
<1> HIDE DEF y
<1>7. /\ \A c \in 0 .. a - 1 : y \div S[c] = x \div S[c]
      /\ \A c \in 1 .. a - 1 : Digit(W, S, y, c) = Digit(W, S, x, c)
  BY <1>1, <1>2, <1>3, <1>5, SameRows
<1>8. y \in 0 .. Total(d) - 1
  <2>1. x \div S[0] = 0
    BY <1>2, <1>3, SmallDiv
  <2>2. y \div S[0] = 0
    BY <1>1, <1>7, <2>1
  <2>3. y = ((y \div S[0]) * S[0]) + (y % S[0]) /\ y % S[0] \in 0 .. S[0] - 1
    BY <1>2, <1>3, DivIs
  <2> QED
    BY <1>2, <1>3, <2>2, <2>3 DEF Pos
<1>9. Digit(W, S, y, a) = r \div S[a] /\ y % S[a] = r % S[a]
  <2>0. Radix(n, W, S) /\ a \in 1 .. n /\ y \in Int
    BY <1>1, <1>2, <1>3
  <2> HIDE DEF n
  <2>1. (y % S[a - 1]) \div S[a] = Digit(W, S, y, a)
    BY <2>0, RadixStep
  <2>2. (y % S[a - 1]) % S[a] = y % S[a]
    BY <2>0, RadixStep
  <2> QED
    BY <1>5, <2>1, <2>2
<1> QED
  BY <1>2, <1>5, <1>6, <1>7, <1>8, <1>9 DEF DigitOf, W, S, y

LEMMA RowOf ==
    ASSUME NEW d, Declared(d), NEW a \in 1 .. Len(d.axes), NEW y \in 0 .. Total(d) - 1
    PROVE  /\ RowStart(d, a - 1, y - (y % Stride(d, a - 1)))
           /\ y % Stride(d, a - 1) \in 0 .. Stride(d, a - 1) - 1
           /\ y % Stride(d, a - 1) = (DigitOf(d, y, a) * Stride(d, a)) + (y % Stride(d, a))
           /\ y % Stride(d, a) \in 0 .. Stride(d, a) - 1
           /\ Stride(d, a - 1) = Width(d.axes[a]) * Stride(d, a)
           /\ y \in Int /\ Stride(d, a) \in Pos /\ Stride(d, a - 1) \in Pos
<1> DEFINE n == Len(d.axes)
           W == Widths(d)
           S == Weights(d)
           q == y \div S[a - 1]
           x == y - (y % S[a - 1])
<1>1. n \in Nat /\ a \in 0 .. n /\ a - 1 \in 0 .. n /\ a \in 1 .. n
  BY AxisIs
<1>2. /\ Radix(n, W, S) /\ Total(d) = S[0] /\ Total(d) \in Pos /\ W[a] = Width(d.axes[a])
      /\ S[a] = Stride(d, a) /\ S[a - 1] = Stride(d, a - 1) /\ S[a] \in Pos /\ S[a - 1] \in Pos
  BY <1>1, RadixOf
<1>3. y \in Int /\ y >= 0 /\ y <= Total(d) - 1
  BY <1>2 DEF Pos
<1> HIDE DEF W, S
<1>4. /\ y % S[a - 1] = (Digit(W, S, y, a) * S[a]) + (y % S[a])
      /\ y % S[a] \in 0 .. S[a] - 1 /\ S[a - 1] = W[a] * S[a]
  <2>1. S[a - 1] = W[a] * S[a]
    BY <1>1, <1>2 DEF Radix
  <2> QED
    BY <1>1, <1>2, <1>3, <2>1, RadixStep
<1>5. q \in Int /\ q >= 0 /\ y = (q * S[a - 1]) + (y % S[a - 1]) /\ y % S[a - 1] \in 0 .. S[a - 1] - 1
  BY <1>2, <1>3, DivIs
<1>6. x \in 0 .. Total(d) - 1
  <2>1. q * S[a - 1] \in Nat
    <3>1. q \in Nat /\ S[a - 1] \in Nat
      BY <1>2, <1>5 DEF Pos
    <3>2. \A i, j \in Nat : i * j \in Nat
      OBVIOUS
    <3> QED
      BY <3>1, <3>2
  <2>2. y % S[a - 1] \in Nat
    BY <1>2, <1>5 DEF Pos
  <2> DEFINE p == q * S[a - 1]
             z == y % S[a - 1]
  <2>3. p \in Nat /\ z \in Nat /\ y = p + z /\ Total(d) \in Int
    <3>1. Total(d) \in Int
      BY <1>2 DEF Pos
    <3> QED
      BY <1>5, <2>1, <2>2, <3>1
  <2>4. x = y - z
    OBVIOUS
  <2> HIDE DEF p, z, x
  <2> QED
    BY <1>3, <2>3, <2>4
<1>7. x % S[a - 1] = 0
  <2>1. x = (q * S[a - 1]) + 0
    <3> DEFINE p == q * S[a - 1]
               z == y % S[a - 1]
    <3>1. p \in Int /\ z \in Int /\ y = p + z
      BY <1>2, <1>5 DEF Pos
    <3> HIDE DEF p, z
    <3>2. y - z = p + 0
      BY <3>1
    <3> QED
      BY <3>2 DEF p, z
  <2>2. 0 \in 0 .. S[a - 1] - 1
    BY <1>2 DEF Pos
  <2> HIDE DEF x, q
  <2> QED
    BY <1>2, <1>5, <2>1, <2>2, DivOf
<1> QED
  BY <1>2, <1>3, <1>4, <1>5, <1>6, <1>7 DEF RowStart, DigitOf, W, S

(* Two starts of rows whose digits agree up to the row are one.            *)
LEMMA SameRowStart ==
    ASSUME NEW d, Declared(d), NEW a \in 1 .. Len(d.axes), NEW x, NEW z,
           RowStart(d, a - 1, x), RowStart(d, a - 1, z), \A c \in 1 .. a - 1 : DigitOf(d, x, c) = DigitOf(d, z, c)
    PROVE  x = z
<1> DEFINE n == Len(d.axes)
           W == Widths(d)
           S == Weights(d)
<1>1. n \in Nat /\ a - 1 \in 0 .. n
  BY AxisIs
<1>2. Radix(n, W, S) /\ S[a - 1] = Stride(d, a - 1) /\ Total(d) \in Pos
  BY <1>1, RadixOf
<1>3. /\ x \in 0 .. Total(d) - 1 /\ z \in 0 .. Total(d) - 1 /\ x \in Int /\ z \in Int
      /\ x % S[a - 1] = 0 /\ z % S[a - 1] = 0
  BY <1>2 DEF RowStart, Pos
<1> HIDE DEF W, S
<1>4. ASSUME NEW c \in 1 .. n PROVE Digit(W, S, x, c) = Digit(W, S, z, c)
  <2>1. CASE c \in 1 .. a - 1
    BY <2>1 DEF DigitOf, W, S
  <2>2. CASE c \notin 1 .. a - 1
    <3>1. c \in (a - 1) + 1 .. n
      BY <1>1, <2>2
    <3>2. Digit(W, S, x % S[a - 1], c) = Digit(W, S, x, c) /\ Digit(W, S, z % S[a - 1], c) = Digit(W, S, z, c)
      BY <1>1, <1>2, <1>3, <3>1, RestOfRow
    <3> QED
      BY <1>3, <3>2
  <2> QED
    BY <2>1, <2>2
<1>5. \A c \in 1 .. n : DigitOf(d, x, c) = DigitOf(d, z, c)
  BY <1>4 DEF DigitOf, W, S
<1> QED
  BY <1>3, <1>5, SameDigits

(* Where the ranges are after k axes, and what they have come to.          *)
Starts(d, sel, k) == {x \in 0 .. Total(d) - 1 : x % Stride(d, k) = 0 /\ \A c \in 1 .. k : Within(d, sel, x, c)}
CutInv(d, sel, s, k) ==
  /\ s.failed => s.done /\ Cardinality(Chosen(d, sel)) > kPortMapMaxPieces
  /\ s.done /\ ~s.failed => UNION {Span(r) : r \in s.ranges} = Chosen(d, sel)
  /\ ~s.done => s.ranges = {<<x, x>> : x \in Starts(d, sel, k)}
  /\ k = Len(sel) => s.done

LEMMA SpanIs ==
    ASSUME NEW lo \in Int, NEW hi \in Int, lo <= hi
    PROVE  Span(<<lo, hi>>) = lo .. hi
BY RangeIs

LEMMA FirstCutIs ==
    ASSUME NEW d, Declared(d), NEW sel \in Seq(Int \X Int)
    PROVE  CutInv(d, sel, FirstCut(d, sel), 0)
<1> DEFINE s == FirstCut(d, sel)
           last == Total(d) - 1
<1>1. Total(d) \in Pos /\ Total(d) = Stride(d, 0)
  BY RadixOf DEF Total
<1>2. last \in Int /\ 0 <= last /\ 0 \in 0 .. last
  BY <1>1 DEF Pos
<1>3. s = [ranges |-> {<<0, IF sel = <<>> THEN last ELSE 0>>}, done |-> sel = <<>>, failed |-> FALSE]
  BY DEF FirstCut
<1> HIDE DEF s
<1>4. ASSUME sel = <<>> PROVE UNION {Span(r) : r \in s.ranges} = Chosen(d, sel)
  <2>1. s.ranges = {<<0, last>>}
    BY <1>3, <1>4
  <2>2. Span(<<0, last>>) = 0 .. last
    BY <1>2, SpanIs
  <2>3. Chosen(d, sel) = 0 .. last
    BY <1>4 DEF Chosen
  <2> QED
    BY <2>1, <2>2, <2>3
<1>5. ASSUME sel # <<>> PROVE s.ranges = {<<x, x>> : x \in Starts(d, sel, 0)}
  <2>1. \A x \in 0 .. last : x % Stride(d, 0) = 0 <=> x = 0
    <3> SUFFICES ASSUME NEW x \in 0 .. last PROVE x % Stride(d, 0) = 0 <=> x = 0
      OBVIOUS
    <3>1. x \div Total(d) = 0 /\ x \in Int
      BY <1>1, <1>2, SmallDiv
    <3>2. x = ((x \div Total(d)) * Total(d)) + (x % Total(d)) /\ x % Total(d) \in 0 .. Total(d) - 1
      BY <1>1, <3>1, DivIs
    <3>3. x = x % Total(d)
      BY <1>1, <3>1, <3>2 DEF Pos
    <3> QED
      BY <1>1, <3>3
  <2>2. Starts(d, sel, 0) = {0}
    BY <1>2, <2>1 DEF Starts
  <2> QED
    BY <1>3, <1>5, <2>2
<1>6. Len(sel) = 0 => sel = <<>>
  OBVIOUS
<1>7. s.failed = FALSE /\ s.done = (sel = <<>>)
  BY <1>3
<1> QED
  BY <1>4, <1>5, <1>6, <1>7 DEF CutInv, s

---------------------------------------------------------------------------
(* One axis: the offsets that are selected on it and what they mean.       *)
LEMMA SelectedOffsets ==
    ASSUME NEW d, Declared(d), NEW sel, InBounds(d, sel), NEW a \in 1 .. Len(sel), Len(sel) <= Len(d.axes)
    PROVE  LET lo == FirstOf2(d.axes[a], sel[a])
               hi == LastOf2(d.axes[a], sel[a])
           IN  /\ lo \in Int /\ hi \in Int /\ 0 <= lo /\ lo <= hi /\ hi < Width(d.axes[a])
               /\ a \in 1 .. Len(d.axes) /\ d.axes[a] \in Axes /\ sel[a] \in Int \X Int
<1>1. a \in 1 .. Len(d.axes) /\ DOMAIN d.axes = 1 .. Len(d.axes)
  BY AxisIs
<1>2. d.axes[a] \in Axes /\ sel[a] \in Int \X Int /\ a \in DOMAIN sel
  BY <1>1, AxisIs DEF InBounds
<1>3. Span(sel[a]) \subseteq Span(Bounds(d.axes[a]))
  BY <1>1, <1>2 DEF InBounds
<1> QED
  BY <1>1, <1>2, <1>3, RangeOffsets

LEMMA WholeTail ==
    ASSUME NEW d, Declared(d), NEW sel, InBounds(d, sel), NEW a \in 1 .. Len(sel), Len(sel) <= Len(d.axes),
           TrailingWhole(d, sel, a)
    PROVE  Chosen(d, sel) = {y \in 0 .. Total(d) - 1 : \A c \in 1 .. a : Within(d, sel, y, c)}
<1>1. DOMAIN sel = 1 .. Len(sel) /\ DOMAIN d.axes = 1 .. Len(d.axes) /\ Len(sel) \in Nat /\ Len(d.axes) \in Nat
  BY AxisIs DEF InBounds
<1>2. ASSUME NEW y \in 0 .. Total(d) - 1, NEW c \in a + 1 .. Len(sel) PROVE Within(d, sel, y, c)
  <2>1. c \in 1 .. Len(sel)
    BY <1>1
  <2>2. Span(sel[c]) = Span(Bounds(d.axes[c]))
    BY <1>2 DEF TrailingWhole, Covers
  <2>3. c \in 1 .. Len(d.axes) /\ d.axes[c] \in Axes /\ sel[c] \in Int \X Int
    BY <2>1, SelectedOffsets
  <2>4. FirstOf2(d.axes[c], sel[c]) = 0 /\ LastOf2(d.axes[c], sel[c]) = Width(d.axes[c]) - 1
    BY <2>2, <2>3, RangeOffsets
  <2>5. y \in Int
    BY RadixOf DEF Pos
  <2> QED
    BY <2>3, <2>4, <2>5, DigitOfIs DEF Within
<1>3. \A c \in DOMAIN sel \cap DOMAIN d.axes : c \in 1 .. a \/ c \in a + 1 .. Len(sel)
  BY <1>1
<1>4. \A c \in 1 .. a : c \in DOMAIN sel \cap DOMAIN d.axes
  BY <1>1
<1> QED
  BY <1>2, <1>3, <1>4 DEF Chosen

LEMMA TimesGrows ==
    ASSUME NEW s \in Pos, NEW p \in Int, NEW q \in Int
    PROVE  /\ p * s \in Int /\ (p + 1) * s = (p * s) + s
           /\ p <= q => p * s <= q * s
           /\ p < q => (p * s) + s <= q * s
<1>1. \A i \in Nat : \A j \in Pos : i * j \in Nat
  BY DEF Pos
<1>2. ASSUME NEW i \in Nat, NEW j \in Int PROVE (j + i) * s = (j * s) + (i * s)
  BY DEF Pos
<1>3. ASSUME p <= q PROVE p * s <= q * s
  <2>1. q - p \in Nat /\ p + (q - p) = q
    BY <1>3
  <2>2. q * s = (p * s) + ((q - p) * s) /\ (q - p) * s \in Nat
    BY <1>1, <1>2, <2>1
  <2>3. p * s \in Int /\ q * s \in Int
    BY DEF Pos
  <2> HIDE DEF Pos
  <2> QED
    BY <2>2, <2>3
<1>4. p * s \in Int /\ (p + 1) * s = (p * s) + s
  BY DEF Pos
<1>5. ASSUME p < q PROVE (p * s) + s <= q * s
  <2>1. p + 1 <= q /\ p + 1 \in Int /\ q - (p + 1) \in Nat /\ (p + 1) + (q - (p + 1)) = q
    BY <1>5
  <2>2. q * s = ((p + 1) * s) + ((q - (p + 1)) * s) /\ (q - (p + 1)) * s \in Nat
    BY <1>1, <1>2, <2>1
  <2>3. (p + 1) * s \in Int /\ q * s \in Int
    BY DEF Pos
  <2> QED
    BY <1>4, <2>2, <2>3
<1> QED
  BY <1>3, <1>4, <1>5

(* A bit is between two rows if its row is.                                *)
LEMMA BetweenRows ==
    ASSUME NEW s \in Pos, NEW lo \in Int, NEW hi \in Int, NEW q \in Int, NEW e \in 0 .. s - 1
    PROVE  (lo * s <= (q * s) + e /\ (q * s) + e <= ((hi + 1) * s) - 1) <=> (lo <= q /\ q <= hi)
<1>1. s \in Int /\ e \in Int /\ 0 <= e /\ e <= s - 1
  BY DEF Pos
<1>2. lo * s \in Int /\ hi * s \in Int /\ q * s \in Int /\ (hi + 1) * s = (hi * s) + s
  BY TimesGrows
<1>3. /\ lo <= q => lo * s <= q * s
      /\ q < lo => (q * s) + s <= lo * s
      /\ q <= hi => q * s <= hi * s
      /\ hi < q => (hi * s) + s <= q * s
  BY TimesGrows
<1> DEFINE l == lo * s
           h == hi * s
           m == q * s
<1>4. /\ l \in Int /\ h \in Int /\ m \in Int
      /\ (lo <= q => l <= m) /\ (q < lo => m + s <= l) /\ (q <= hi => m <= h) /\ (hi < q => h + s <= m)
  BY <1>2, <1>3
<1> HIDE DEF l, h, m
<1>5. (l <= m + e /\ m + e <= (h + s) - 1) <=> (lo <= q /\ q <= hi)
  BY <1>1, <1>4
<1> QED
  BY <1>2, <1>5 DEF l, h, m

(* The bits of the rows lo to hi, within one row before.                   *)
LEMMA RowsOf ==
    ASSUME NEW d, Declared(d), NEW a \in 1 .. Len(d.axes), NEW x, RowStart(d, a - 1, x),
           NEW lo \in Int, NEW hi \in Int, 0 <= lo, lo <= hi, hi < Width(d.axes[a])
    PROVE  /\ x + (lo * Stride(d, a)) \in Int /\ x + ((hi + 1) * Stride(d, a)) - 1 \in Int
           /\ x + (lo * Stride(d, a)) <= x + ((hi + 1) * Stride(d, a)) - 1
           /\ \A y \in x + (lo * Stride(d, a)) .. x + ((hi + 1) * Stride(d, a)) - 1 :
                /\ y \in 0 .. Total(d) - 1 /\ y - (y % Stride(d, a - 1)) = x
                /\ \A c \in 1 .. a - 1 : DigitOf(d, y, c) = DigitOf(d, x, c)
                /\ DigitOf(d, y, a) \in lo .. hi
<1> DEFINE s == Stride(d, a)
           t == Stride(d, a - 1)
           w == Width(d.axes[a])
           l == lo * s
           h == (hi + 1) * s
<1>1. x \in 0 .. Total(d) - 1 /\ x \in Int
  BY RadixOf DEF RowStart, Pos
<1>2. s \in Pos /\ t \in Pos /\ t = w * s /\ w \in Int
  BY <1>1, RowOf, WidthIs, AxisIs DEF Pos
<1>3. s \in Int /\ s >= 1 /\ t \in Int
  BY <1>2 DEF Pos
<1>4. l \in Int /\ h \in Int /\ 0 <= l /\ l + s <= h /\ h <= t
  <2>1. 0 * s = 0
    BY <1>3
  <2>2. lo * s \in Int /\ (hi + 1) * s \in Int
    BY <1>2, TimesGrows
  <2>3. 0 * s <= lo * s
    BY <1>2, TimesGrows
  <2>4. (lo * s) + s <= (hi + 1) * s
    <3>1. hi + 1 \in Int /\ lo < hi + 1
      OBVIOUS
    <3> HIDE DEF s
    <3> QED
      BY <1>2, <3>1, TimesGrows
  <2>5. (hi + 1) * s <= w * s
    <3>1. hi + 1 \in Int /\ hi + 1 <= w
      BY <1>2
    <3> HIDE DEF s, w
    <3> QED
      BY <1>2, <3>1, TimesGrows
  <2> QED
    BY <1>2, <2>1, <2>2, <2>3, <2>4, <2>5
<1>5. ASSUME NEW y \in x + l .. x + h - 1
      PROVE  /\ y \in 0 .. Total(d) - 1 /\ y - (y % t) = x
             /\ \A c \in 1 .. a - 1 : DigitOf(d, y, c) = DigitOf(d, x, c)
             /\ DigitOf(d, y, a) \in lo .. hi
  <2> DEFINE r == y - x
             q == r \div s
  <2>1. r \in l .. h - 1 /\ r \in 0 .. t - 1 /\ x + r = y /\ r \in Int
    <3> HIDE DEF l, h, t, s, w
    <3> QED
      BY <1>1, <1>3, <1>4
  <2>2. /\ y \in 0 .. Total(d) - 1 /\ y - (y % t) = x
        /\ \A c \in 1 .. a - 1 : DigitOf(d, y, c) = DigitOf(d, x, c)
        /\ DigitOf(d, y, a) = q
    <3> HIDE DEF r
    <3> QED
      BY <2>1, PlaceInRow DEF t, s, q
  <2>3. q \in Int /\ r % s \in 0 .. s - 1 /\ r = (q * s) + (r % s)
    <3> HIDE DEF r, s
    <3> QED
      BY <1>2, <2>1, DivIs
  <2>4. lo * s <= (q * s) + (r % s) /\ (q * s) + (r % s) <= ((hi + 1) * s) - 1
    <3>1. l <= r /\ r <= h - 1
      <4> HIDE DEF l, h, r
      <4> QED
        BY <1>4, <2>1
    <3> HIDE DEF s, q, r
    <3> QED
      BY <2>3, <3>1 DEF l, h
  <2>5. lo <= q /\ q <= hi
    <3> HIDE DEF s, q, r
    <3> QED
      BY <1>2, <2>3, <2>4, BetweenRows
  <2> QED
    BY <2>2, <2>3, <2>5
<1>6. x + l \in Int /\ x + h - 1 \in Int /\ x + l <= x + h - 1
  <2> HIDE DEF l, h, s
  <2> QED
    BY <1>1, <1>3, <1>4
<1> QED
  BY <1>5, <1>6 DEF l, h, s, t

(* A bit seen from the start of its row.                                   *)
LEMMA FromRowStart ==
    ASSUME NEW d, Declared(d), NEW a \in 1 .. Len(d.axes), NEW y \in 0 .. Total(d) - 1,
           NEW lo \in Int, NEW hi \in Int, DigitOf(d, y, a) \in lo .. hi
    PROVE  LET x == y - (y % Stride(d, a - 1))
           IN  /\ RowStart(d, a - 1, x) /\ x \in Int
               /\ \A c \in 1 .. a - 1 : DigitOf(d, x, c) = DigitOf(d, y, c)
               /\ y \in x + (lo * Stride(d, a)) .. x + ((hi + 1) * Stride(d, a)) - 1
               /\ y = x + (DigitOf(d, y, a) * Stride(d, a)) + (y % Stride(d, a))
<1> DEFINE s == Stride(d, a)
           t == Stride(d, a - 1)
           r == y % t
           e == y % s
           q == DigitOf(d, y, a)
           x == y - r
<1>1. /\ RowStart(d, a - 1, x) /\ r \in 0 .. t - 1 /\ r = (q * s) + e /\ e \in 0 .. s - 1
      /\ y \in Int /\ s \in Pos /\ t \in Pos
  BY RowOf
<1>2. q \in Int /\ lo <= q /\ q <= hi
  BY <1>1, DigitOfIs
<1>3. r \in Int /\ e \in Int /\ q * s \in Int /\ lo * s \in Int /\ (hi + 1) * s \in Int
  <2>1. r \in Int /\ e \in Int
    BY <1>1 DEF Pos
  <2>2. hi + 1 \in Int
    OBVIOUS
  <2> HIDE DEF r, e, q, s
  <2> QED
    BY <1>1, <1>2, <2>1, <2>2, TimesGrows
<1>4. lo * s <= r /\ r <= ((hi + 1) * s) - 1
  <2> HIDE DEF r, e, q, s
  <2> QED
    BY <1>1, <1>2, BetweenRows
<1>5. x + r = y /\ x \in Int
  <2> HIDE DEF r
  <2> QED
    BY <1>1, <1>3
<1>6. \A c \in 1 .. a - 1 : DigitOf(d, x, c) = DigitOf(d, y, c)
  <2> HIDE DEF x, r
  <2>1. \A c \in 1 .. a - 1 : DigitOf(d, x + r, c) = DigitOf(d, x, c)
    BY <1>1, PlaceInRow DEF t
  <2> QED
    BY <1>5, <2>1
<1>7. y \in x + (lo * s) .. x + ((hi + 1) * s) - 1
  <2> DEFINE l == lo * s
             h == (hi + 1) * s
  <2>1. l \in Int /\ h \in Int /\ l <= r /\ r <= h - 1
    BY <1>3, <1>4
  <2>2. y = x + r /\ x \in Int /\ r \in Int
    BY <1>3, <1>5
  <2> HIDE DEF l, h, x, r, s
  <2>3. y \in x + l .. x + h - 1
    BY <2>1, <2>2
  <2> QED
    BY <2>3 DEF l, h
<1>8. y = x + (q * s) + e
  <2> DEFINE p == q * s
  <2>1. p \in Int /\ r = p + e
    BY <1>1, <1>3
  <2>2. y = x + r /\ x \in Int /\ r \in Int /\ e \in Int
    BY <1>3, <1>5
  <2> HIDE DEF p, x, e, r
  <2>3. y = x + p + e
    BY <2>1, <2>2
  <2> QED
    BY <2>3 DEF p
<1> QED
  BY <1>1, <1>5, <1>6, <1>7, <1>8 DEF s, t, x, r, q, e

LEMMA StartsAre ==
    ASSUME NEW d, NEW sel, NEW k, NEW x
    PROVE  x \in Starts(d, sel, k) <=> RowStart(d, k, x) /\ \A c \in 1 .. k : Within(d, sel, x, c)
BY DEF Starts, RowStart

LEMMA WithinIs ==
    ASSUME NEW d, NEW sel, NEW x, NEW y, NEW c, DigitOf(d, x, c) = DigitOf(d, y, c)
    PROVE  Within(d, sel, x, c) <=> Within(d, sel, y, c)
BY DEF Within

(* When the axes that follow are whole, the rows that are left are the     *)
(* bits that are selected.                                                 *)
LEMMA LastRows ==
    ASSUME NEW d, Declared(d), NEW sel, InBounds(d, sel), NEW a \in 1 .. Len(sel), Len(sel) <= Len(d.axes),
           TrailingWhole(d, sel, a)
    PROVE  UNION {Span(<<x + (FirstOf2(d.axes[a], sel[a]) * Stride(d, a)),
                         x + ((LastOf2(d.axes[a], sel[a]) + 1) * Stride(d, a)) - 1>>) : x \in Starts(d, sel, a - 1)}
           = Chosen(d, sel)
<1> DEFINE lo == FirstOf2(d.axes[a], sel[a])
           hi == LastOf2(d.axes[a], sel[a])
           s == Stride(d, a)
           Rows(x) == Span(<<x + (lo * s), x + ((hi + 1) * s) - 1>>)
<1>1. lo \in Int /\ hi \in Int /\ 0 <= lo /\ lo <= hi /\ hi < Width(d.axes[a]) /\ a \in 1 .. Len(d.axes)
  BY SelectedOffsets
<1>2. \A y \in 0 .. Total(d) - 1 : y \in Chosen(d, sel) <=> \A c \in 1 .. a : Within(d, sel, y, c)
  BY WholeTail
<1>3. \A y \in Chosen(d, sel) : y \in 0 .. Total(d) - 1
  BY DEF Chosen
<1>4. \A y : Within(d, sel, y, a) <=> DigitOf(d, y, a) \in lo .. hi
  BY DEF Within
<1>5. a \in 1 .. a /\ \A c \in 1 .. a : c = a \/ c \in 1 .. a - 1
  OBVIOUS
<1> HIDE DEF lo, hi
<1>6. ASSUME NEW x \in Starts(d, sel, a - 1), NEW y \in Rows(x) PROVE y \in Chosen(d, sel)
  <2>1. RowStart(d, a - 1, x) /\ \A c \in 1 .. a - 1 : Within(d, sel, x, c)
    BY StartsAre
  <2>2. /\ x + (lo * s) \in Int /\ x + ((hi + 1) * s) - 1 \in Int
        /\ x + (lo * s) <= x + ((hi + 1) * s) - 1
    BY <1>1, <2>1, RowsOf
  <2>3. y \in x + (lo * s) .. x + ((hi + 1) * s) - 1
    BY <2>2, SpanIs
  <2>4. /\ y \in 0 .. Total(d) - 1 /\ \A c \in 1 .. a - 1 : DigitOf(d, y, c) = DigitOf(d, x, c)
        /\ DigitOf(d, y, a) \in lo .. hi
    BY <1>1, <2>1, <2>3, RowsOf
  <2>5. \A c \in 1 .. a - 1 : Within(d, sel, y, c)
    BY <2>1, <2>4, WithinIs
  <2> QED
    BY <1>2, <1>4, <1>5, <2>4, <2>5
<1>7. ASSUME NEW y \in Chosen(d, sel) PROVE \E x \in Starts(d, sel, a - 1) : y \in Rows(x)
  <2>1. y \in 0 .. Total(d) - 1 /\ DigitOf(d, y, a) \in lo .. hi /\ \A c \in 1 .. a - 1 : Within(d, sel, y, c)
    <3>1. \A c \in 1 .. a - 1 : c \in 1 .. a
      OBVIOUS
    <3> QED
      BY <1>2, <1>3, <1>4, <1>5, <3>1
  <2> DEFINE x == y - (y % Stride(d, a - 1))
  <2>2. /\ RowStart(d, a - 1, x)
        /\ \A c \in 1 .. a - 1 : DigitOf(d, x, c) = DigitOf(d, y, c)
        /\ y \in x + (lo * s) .. x + ((hi + 1) * s) - 1
    BY <1>1, <2>1, FromRowStart
  <2> HIDE DEF x
  <2>3. x \in Starts(d, sel, a - 1)
    BY <2>1, <2>2, StartsAre, WithinIs
  <2>4. /\ x + (lo * s) \in Int /\ x + ((hi + 1) * s) - 1 \in Int
        /\ x + (lo * s) <= x + ((hi + 1) * s) - 1
    BY <1>1, <2>2, RowsOf
  <2>5. y \in Rows(x)
    BY <2>2, <2>4, SpanIs
  <2> QED
    BY <2>3, <2>5
<1> HIDE DEF Rows
<1>8. UNION {Rows(x) : x \in Starts(d, sel, a - 1)} = Chosen(d, sel)
  BY <1>6, <1>7
<1> QED
  BY <1>8 DEF Rows, lo, hi, s

(* Cutting every range once more gives the starts of the next rows.        *)
LEMMA NextRows ==
    ASSUME NEW d, Declared(d), NEW sel, InBounds(d, sel), NEW a \in 1 .. Len(sel), Len(sel) <= Len(d.axes)
    PROVE  {x + (i * Stride(d, a)) : x \in Starts(d, sel, a - 1),
                                     i \in FirstOf2(d.axes[a], sel[a]) .. LastOf2(d.axes[a], sel[a])}
           = Starts(d, sel, a)
<1> DEFINE lo == FirstOf2(d.axes[a], sel[a])
           hi == LastOf2(d.axes[a], sel[a])
           s == Stride(d, a)
<1>1. lo \in Int /\ hi \in Int /\ 0 <= lo /\ lo <= hi /\ hi < Width(d.axes[a]) /\ a \in 1 .. Len(d.axes)
  BY SelectedOffsets
<1>2. s \in Pos
  BY <1>1, RadixOf
<1>3. \A y : Within(d, sel, y, a) <=> DigitOf(d, y, a) \in lo .. hi
  BY DEF Within
<1>4. a \in 1 .. a /\ \A c \in 1 .. a : c = a \/ c \in 1 .. a - 1
  OBVIOUS
<1> HIDE DEF lo, hi, s
<1>5. ASSUME NEW x \in Starts(d, sel, a - 1), NEW i \in lo .. hi
      PROVE  x + (i * s) \in Starts(d, sel, a)
  <2> DEFINE y == x + (i * s)
  <2>1. RowStart(d, a - 1, x) /\ \A c \in 1 .. a - 1 : Within(d, sel, x, c)
    BY StartsAre
  <2>2. i \in Int /\ 0 <= i /\ i < Width(d.axes[a])
    BY <1>1, WidthIs, AxisIs DEF Pos
  <2>3. /\ x + (i * s) \in Int /\ x + ((i + 1) * s) - 1 \in Int
        /\ x + (i * s) <= x + ((i + 1) * s) - 1
    BY <1>1, <2>1, <2>2, RowsOf DEF s
  <2>4. y \in x + (i * s) .. x + ((i + 1) * s) - 1
    BY <2>3
  <2>5. /\ y \in 0 .. Total(d) - 1 /\ \A c \in 1 .. a - 1 : DigitOf(d, y, c) = DigitOf(d, x, c)
        /\ DigitOf(d, y, a) \in i .. i
    <3>1. i <= i /\ 0 <= i /\ i \in Int
      BY <2>2
    <3> HIDE DEF y
    <3>2. \A z \in x + (i * s) .. x + ((i + 1) * s) - 1 :
            /\ z \in 0 .. Total(d) - 1 /\ \A c \in 1 .. a - 1 : DigitOf(d, z, c) = DigitOf(d, x, c)
            /\ DigitOf(d, z, a) \in i .. i
      <4>1. RowStart(d, a - 1, x) /\ a \in 1 .. Len(d.axes)
        BY <1>1, <2>1
      <4>2. \A z \in x + (i * Stride(d, a)) .. x + ((i + 1) * Stride(d, a)) - 1 :
              /\ z \in 0 .. Total(d) - 1 /\ z - (z % Stride(d, a - 1)) = x
              /\ \A c \in 1 .. a - 1 : DigitOf(d, z, c) = DigitOf(d, x, c)
              /\ DigitOf(d, z, a) \in i .. i
        BY <4>1, <2>2, <3>1, RowsOf
      <4> QED
        BY <4>2 DEF s
    <3> QED
      BY <2>4, <3>2
  <2>6. DigitOf(d, y, a) \in lo .. hi
    BY <2>2, <2>5
  <2>7. y % s = 0
    <3> DEFINE r == i * s
               t == Stride(d, a - 1)
    <3>1. r = (i * s) + 0 /\ r \in Int /\ 0 \in 0 .. s - 1
      BY <1>2, <2>2 DEF Pos
    <3>2. r % s = 0
      <4> HIDE DEF r
      <4> QED
        BY <1>2, <2>2, <3>1, DivOf
    <3>3. r \in 0 .. t - 1
      <4>0. t \in Pos /\ t = Width(d.axes[a]) * s /\ x \in 0 .. Total(d) - 1 /\ Width(d.axes[a]) \in Int
        <5>1. x \in 0 .. Total(d) - 1 /\ d.axes[a] \in Axes
          BY <1>1, <2>1, AxisIs DEF RowStart
        <5>2. Stride(d, a - 1) \in Pos /\ Stride(d, a - 1) = Width(d.axes[a]) * Stride(d, a)
          BY <1>1, <5>1, RowOf
        <5>3. Width(d.axes[a]) \in Int
          BY <5>1, WidthIs DEF Pos
        <5> QED
          BY <5>1, <5>2, <5>3 DEF s
      <4>1. 0 * s <= i * s /\ (i * s) + s <= Width(d.axes[a]) * s
        BY <1>2, <2>2, <4>0, TimesGrows
      <4>2. 0 * s = 0 /\ s >= 1 /\ s \in Int /\ t \in Int
        BY <1>2, <4>0 DEF Pos
      <4>3. 0 <= r /\ r + s <= t
        BY <4>0, <4>1, <4>2
      <4> HIDE DEF r, t
      <4> QED
        BY <3>1, <4>2, <4>3
    <3>4. (x + r) % s = r % s
      <4> HIDE DEF r
      <4> QED
        BY <1>1, <2>1, <3>3, PlaceInRow DEF s
    <3> QED
      BY <3>2, <3>4
  <2> HIDE DEF y
  <2>8. \A c \in 1 .. a : Within(d, sel, y, c)
    BY <1>3, <1>4, <2>1, <2>5, <2>6, WithinIs
  <2>9. y \in Starts(d, sel, a)
    BY <2>5, <2>7, <2>8, StartsAre DEF RowStart, s
  <2> QED
    BY <2>9 DEF y
<1>6. ASSUME NEW y \in Starts(d, sel, a)
      PROVE  \E x \in Starts(d, sel, a - 1), i \in lo .. hi : y = x + (i * s)
  <2>1. y \in 0 .. Total(d) - 1 /\ y % s = 0 /\ \A c \in 1 .. a : Within(d, sel, y, c)
    BY StartsAre DEF RowStart, s
  <2>2. DigitOf(d, y, a) \in lo .. hi /\ \A c \in 1 .. a - 1 : c \in 1 .. a
    BY <1>3, <1>4, <2>1
  <2> DEFINE x == y - (y % Stride(d, a - 1))
             i == DigitOf(d, y, a)
  <2>3. /\ RowStart(d, a - 1, x) /\ x \in Int
        /\ \A c \in 1 .. a - 1 : DigitOf(d, x, c) = DigitOf(d, y, c)
        /\ y = x + (i * s) + (y % s)
    BY <1>1, <2>1, <2>2, FromRowStart DEF s
  <2>4. i \in Int /\ i * s \in Int
    <3>1. i \in Int
      BY <1>1, <2>2
    <3> HIDE DEF i
    <3> QED
      BY <1>2, <3>1, TimesGrows
  <2>5. y = x + (i * s)
    <3> DEFINE p == i * s
    <3>1. p \in Int /\ y = x + p + 0
      BY <2>1, <2>3, <2>4
    <3> HIDE DEF p, x
    <3>2. y = x + p
      BY <2>3, <3>1
    <3> QED
      BY <3>2 DEF p
  <2> HIDE DEF x, i
  <2>6. x \in Starts(d, sel, a - 1)
    BY <2>1, <2>2, <2>3, StartsAre, WithinIs
  <2> QED
    BY <2>2, <2>5, <2>6 DEF i
<1>7. {x + (i * s) : x \in Starts(d, sel, a - 1), i \in lo .. hi} = Starts(d, sel, a)
  BY <1>5, <1>6
<1> QED
  BY <1>7 DEF lo, hi, s

(* Ranges that cannot be cut any further are of too many bits.             *)
LEMMA TooManyBits ==
    ASSUME NEW d, Declared(d), NEW sel, InBounds(d, sel), NEW a \in 1 .. Len(sel), Len(sel) <= Len(d.axes),
           NEW R, R = {<<x, x>> : x \in Starts(d, sel, a - 1)},
           LastOf2(d.axes[a], sel[a]) - FirstOf2(d.axes[a], sel[a]) + 1 > kPortMapMaxPieces \div Cardinality(R)
    PROVE  Cardinality(Chosen(d, sel)) > kPortMapMaxPieces
<1> DEFINE lo == FirstOf2(d.axes[a], sel[a])
           hi == LastOf2(d.axes[a], sel[a])
           B == Chosen(d, sel)
           Row(y) == y - (y % Stride(d, a - 1))
           f == [y \in B |-> << <<Row(y), Row(y)>>, DigitOf(d, y, a)>>]
           n == Len(d.axes)
<1>1. /\ lo \in Int /\ hi \in Int /\ 0 <= lo /\ lo <= hi /\ hi < Width(d.axes[a]) /\ a \in 1 .. n
      /\ n \in Nat /\ DOMAIN d.axes = 1 .. n /\ DOMAIN sel = 1 .. Len(sel) /\ Len(sel) \in Nat
  <2>1. n \in Nat /\ DOMAIN d.axes = 1 .. n
    BY AxisIs
  <2>2. DOMAIN sel = 1 .. Len(sel) /\ Len(sel) \in Nat
    BY DEF InBounds
  <2>3. lo \in Int /\ hi \in Int /\ 0 <= lo /\ lo <= hi /\ hi < Width(d.axes[a]) /\ a \in 1 .. n
    BY SelectedOffsets
  <2> QED
    BY <2>1, <2>2, <2>3
<1>2. \A y : y \in B <=> y \in 0 .. Total(d) - 1 /\ \A c \in 1 .. Len(sel) : Within(d, sel, y, c)
  <2>1. DOMAIN sel \cap DOMAIN d.axes = 1 .. Len(sel)
    BY <1>1
  <2> QED
    BY <2>1 DEF Chosen
<1>3. \A y, c : Within(d, sel, y, c) <=> DigitOf(d, y, c) \in FirstOf2(d.axes[c], sel[c]) .. LastOf2(d.axes[c], sel[c])
  BY DEF Within
<1>4. \A c \in 1 .. a - 1 : c \in 1 .. Len(sel)
  BY <1>1
<1> HIDE DEF lo, hi, B, Row, n
<1>5. ASSUME NEW y \in B PROVE <<Row(y), Row(y)>> \in R /\ DigitOf(d, y, a) \in lo .. hi
  <2>1. y \in 0 .. Total(d) - 1 /\ DigitOf(d, y, a) \in lo .. hi /\ \A c \in 1 .. a - 1 : Within(d, sel, y, c)
    BY <1>2, <1>3, <1>4 DEF lo, hi
  <2>2. RowStart(d, a - 1, Row(y)) /\ \A c \in 1 .. a - 1 : DigitOf(d, Row(y), c) = DigitOf(d, y, c)
    BY <1>1, <2>1, FromRowStart DEF Row, n
  <2>3. Row(y) \in Starts(d, sel, a - 1)
    BY <2>1, <2>2, StartsAre, WithinIs
  <2> QED
    BY <2>1, <2>3
<1>6. f \in [B -> R \X (lo .. hi)]
  BY <1>5
<1>7. ASSUME NEW r \in R, NEW i \in lo .. hi PROVE \E y \in B : f[y] = <<r, i>>
  <2>1. PICK x \in Starts(d, sel, a - 1) : r = <<x, x>>
    OBVIOUS
  <2>2. RowStart(d, a - 1, x) /\ \A c \in 1 .. a - 1 : Within(d, sel, x, c)
    BY StartsAre
  <2> DEFINE g == [c \in 1 .. n |-> IF c < a THEN DigitOf(d, x, c) ELSE IF c = a THEN i
                                    ELSE IF c <= Len(sel) THEN FirstOf2(d.axes[c], sel[c]) ELSE 0]
  <2>3. \A c \in 1 .. n : g[c] \in 0 .. Width(d.axes[c]) - 1
    <3> SUFFICES ASSUME NEW c \in 1 .. n PROVE g[c] \in 0 .. Width(d.axes[c]) - 1
      OBVIOUS
    <3>1. x \in Int /\ Width(d.axes[c]) \in Int /\ Width(d.axes[c]) >= 1
      <4>1. x \in 0 .. Total(d) - 1 /\ Total(d) \in Pos
        BY <2>2, RadixOf DEF RowStart
      <4>2. Width(d.axes[c]) \in Pos
        BY AxisIs, WidthIs DEF n
      <4> QED
        BY <4>1, <4>2 DEF Pos
    <3>2. CASE c < a
      <4>1. DigitOf(d, x, c) \in 0 .. Width(d.axes[c]) - 1
        BY <3>1, DigitOfIs DEF n
      <4> QED
        BY <3>2, <4>1
    <3>3. CASE c = a
      BY <1>1, <3>1, <3>3
    <3>4. CASE ~(c < a) /\ c # a /\ c <= Len(sel)
      <4>1. c \in 1 .. Len(sel)
        BY <1>1, <3>4
      <4>2. /\ FirstOf2(d.axes[c], sel[c]) \in Int /\ LastOf2(d.axes[c], sel[c]) \in Int /\ 0 <= FirstOf2(d.axes[c], sel[c])
            /\ FirstOf2(d.axes[c], sel[c]) <= LastOf2(d.axes[c], sel[c]) /\ LastOf2(d.axes[c], sel[c]) < Width(d.axes[c])
        BY <4>1, SelectedOffsets
      <4> QED
        BY <3>1, <3>4, <4>2
    <3>5. CASE ~(c < a) /\ c # a /\ ~(c <= Len(sel))
      BY <3>1, <3>5
    <3> QED
      BY <3>2, <3>3, <3>4, <3>5
  <2>4. /\ \A c \in 1 .. a - 1 : c \in 1 .. n /\ g[c] = DigitOf(d, x, c)
        /\ g[a] = i
        /\ \A c \in a + 1 .. Len(sel) : c \in 1 .. n /\ c \in 1 .. Len(sel) /\ g[c] = FirstOf2(d.axes[c], sel[c])
    BY <1>1 DEF n
  <2> HIDE DEF g
  <2>5. PICK y \in 0 .. Total(d) - 1 : \A c \in 1 .. n : DigitOf(d, y, c) = g[c]
    BY <2>3, DigitsExist DEF n
  <2>6. DigitOf(d, y, a) = i /\ \A c \in 1 .. a - 1 : DigitOf(d, y, c) = DigitOf(d, x, c)
    BY <1>1, <2>4, <2>5
  <2>7. ASSUME NEW c \in 1 .. Len(sel) PROVE Within(d, sel, y, c)
    <3>1. CASE c \in 1 .. a - 1
      BY <2>2, <2>6, <3>1, WithinIs
    <3>2. CASE c = a
      BY <1>3, <2>6, <3>2 DEF lo, hi
    <3>3. CASE c \in a + 1 .. Len(sel)
      <4>1. DigitOf(d, y, c) = FirstOf2(d.axes[c], sel[c])
        BY <2>4, <2>5, <3>3
      <4>2. /\ FirstOf2(d.axes[c], sel[c]) \in Int /\ LastOf2(d.axes[c], sel[c]) \in Int
            /\ FirstOf2(d.axes[c], sel[c]) <= LastOf2(d.axes[c], sel[c])
        BY SelectedOffsets
      <4> QED
        BY <1>3, <4>1, <4>2
    <3> QED
      BY <1>1, <3>1, <3>2, <3>3
  <2>8. y \in B
    BY <1>2, <2>7
  <2>9. Row(y) = x
    <3>1. DigitOf(d, y, a) \in i .. i /\ i \in Int
      BY <1>1, <2>6
    <3>2. RowStart(d, a - 1, Row(y)) /\ \A c \in 1 .. a - 1 : DigitOf(d, Row(y), c) = DigitOf(d, y, c)
      BY <1>1, <3>1, FromRowStart DEF Row, n
    <3> QED
      BY <1>1, <2>2, <2>6, <3>2, SameRowStart DEF n
  <2> QED
    BY <2>1, <2>6, <2>8, <2>9
<1>8. f \in Surjection(B, R \X (lo .. hi))
  <2> HIDE DEF f
  <2>1. ASSUME NEW t \in R \X (lo .. hi) PROVE \E y \in B : f[y] = t
    <3>1. t[1] \in R /\ t[2] \in lo .. hi /\ t = <<t[1], t[2]>>
      OBVIOUS
    <3> QED
      BY <1>7, <3>1
  <2> QED
    BY <1>6, <2>1 DEF Surjection
<1> HIDE DEF f
<1>9. IsFiniteSet(B)
  <2>1. Total(d) - 1 \in Int /\ 0 \in Int
    BY RadixOf DEF Pos
  <2>2. IsFiniteSet(0 .. Total(d) - 1)
    BY <2>1, FS_Interval
  <2>3. B \in SUBSET (0 .. Total(d) - 1)
    BY <1>2
  <2> QED
    BY <2>2, <2>3, FS_Subset
<1>10. IsFiniteSet(R \X (lo .. hi)) /\ Cardinality(R \X (lo .. hi)) <= Cardinality(B)
  BY <1>8, <1>9, FS_Surjection
<1>11. IsFiniteSet(lo .. hi) /\ Cardinality(lo .. hi) = hi - lo + 1
  <2>1. lo \in Int /\ hi \in Int /\ ~(lo > hi)
    BY <1>1
  <2>2. IsFiniteSet(lo .. hi) /\ Cardinality(lo .. hi) = (IF lo > hi THEN 0 ELSE hi - lo + 1)
    BY <2>1, FS_Interval
  <2> QED
    BY <2>1, <2>2
<1>12. IsFiniteSet(R) /\ R # {}
  <2>1. IsFiniteSet(0 .. Total(d) - 1)
    <3>1. Total(d) - 1 \in Int /\ 0 \in Int
      BY RadixOf DEF Pos
    <3> QED
      BY <3>1, FS_Interval
  <2>2. Starts(d, sel, a - 1) \in SUBSET (0 .. Total(d) - 1)
    BY DEF Starts
  <2>3. IsFiniteSet(Starts(d, sel, a - 1))
    BY <2>1, <2>2, FS_Subset
  <2> DEFINE h == [x \in Starts(d, sel, a - 1) |-> <<x, x>>]
  <2>4. h \in Surjection(Starts(d, sel, a - 1), R)
    BY DEF Surjection
  <2>5. IsFiniteSet(R)
    BY <2>3, <2>4, FS_Surjection
  <2>6. R # {}
    <3> DEFINE g == [c \in 1 .. n |-> IF c <= Len(sel) THEN FirstOf2(d.axes[c], sel[c]) ELSE 0]
    <3>1. \A c \in 1 .. n : g[c] \in 0 .. Width(d.axes[c]) - 1
      <4> SUFFICES ASSUME NEW c \in 1 .. n PROVE g[c] \in 0 .. Width(d.axes[c]) - 1
        OBVIOUS
      <4>1. Width(d.axes[c]) \in Int /\ Width(d.axes[c]) >= 1
        <5>1. Width(d.axes[c]) \in Pos
          BY AxisIs, WidthIs DEF n
        <5> QED
          BY <5>1 DEF Pos
      <4>2. CASE c <= Len(sel)
        <5>1. c \in 1 .. Len(sel)
          BY <1>1, <4>2
        <5>2. /\ FirstOf2(d.axes[c], sel[c]) \in Int /\ LastOf2(d.axes[c], sel[c]) \in Int /\ 0 <= FirstOf2(d.axes[c], sel[c])
              /\ FirstOf2(d.axes[c], sel[c]) <= LastOf2(d.axes[c], sel[c]) /\ LastOf2(d.axes[c], sel[c]) < Width(d.axes[c])
          BY <5>1, SelectedOffsets
        <5> QED
          BY <4>1, <4>2, <5>2
      <4>3. CASE ~(c <= Len(sel))
        BY <4>1, <4>3
      <4> QED
        BY <4>2, <4>3
    <3>2. \A c \in 1 .. Len(sel) : c \in 1 .. n /\ g[c] = FirstOf2(d.axes[c], sel[c])
      BY <1>1 DEF n
    <3> HIDE DEF g
    <3>3. PICK y \in 0 .. Total(d) - 1 : \A c \in 1 .. n : DigitOf(d, y, c) = g[c]
      BY <3>1, DigitsExist DEF n
    <3>4. ASSUME NEW c \in 1 .. Len(sel) PROVE Within(d, sel, y, c)
      <4>1. DigitOf(d, y, c) = FirstOf2(d.axes[c], sel[c])
        BY <3>2, <3>3
      <4>2. /\ FirstOf2(d.axes[c], sel[c]) \in Int /\ LastOf2(d.axes[c], sel[c]) \in Int
            /\ FirstOf2(d.axes[c], sel[c]) <= LastOf2(d.axes[c], sel[c])
        BY SelectedOffsets
      <4> QED
        BY <1>3, <4>1, <4>2
    <3>5. y \in B
      BY <1>2, <3>4
    <3> QED
      BY <1>5, <3>5
  <2> QED
    BY <2>5, <2>6
<1> DEFINE C == Cardinality(R)
           p == hi - lo + 1
           max == kPortMapMaxPieces
           q == max \div C
<1>13. C \in Pos
  BY <1>12, FS_CardinalityType, FS_EmptySet DEF Pos
<1>14. Cardinality(R \X (lo .. hi)) = C * p
  BY <1>11, <1>12, FS_Product
<1>15. p \in Int /\ p > q
  BY <1>1 DEF lo, hi
<1>16. max \in Int /\ Cardinality(B) \in Int
  BY <1>9, FS_CardinalityType, CoordinateAssumption
<1> HIDE DEF C, p, max
<1>17. q \in Int /\ max = (q * C) + (max % C) /\ max % C \in 0 .. C - 1 /\ q * C \in Int /\ C \in Int
  <2>1. q \in Int /\ max = (q * C) + (max % C) /\ max % C \in 0 .. C - 1
    BY <1>13, <1>16, DivIs
  <2> HIDE DEF q
  <2> QED
    BY <1>13, <2>1, TimesGrows DEF Pos
<1>18. (q * C) + C <= p * C /\ p * C \in Int /\ p * C = C * p
  <2> HIDE DEF q
  <2>1. \A i, j \in Int : i * j = j * i
    OBVIOUS
  <2> QED
    BY <1>13, <1>15, <1>17, <2>1, TimesGrows
<1>19. max < p * C
  <2> DEFINE u == q * C
             v == p * C
             z == max % C
  <2>1. u \in Int /\ v \in Int /\ max = u + z /\ z \in 0 .. C - 1 /\ C \in Int /\ u + C <= v
    BY <1>17, <1>18
  <2> HIDE DEF u, v, z
  <2>2. max < v
    BY <2>1
  <2> QED
    BY <2>2 DEF v
<1> QED
  BY <1>10, <1>14, <1>16, <1>18, <1>19 DEF max, B
NextStarts(d, sel, a) ==
  {x + (i * Stride(d, a)) : x \in Starts(d, sel, a - 1), i \in FirstOf2(d.axes[a], sel[a]) .. LastOf2(d.axes[a], sel[a])}

LEMMA CutKeeps ==
    ASSUME NEW d, Declared(d), NEW sel, InBounds(d, sel), Len(sel) <= Len(d.axes),
           NEW a \in 1 .. Len(sel), NEW s \in CutStates, CutInv(d, sel, s, a - 1)
    PROVE  CutInv(d, sel, Cut(d, sel, s, a), a)
<1> DEFINE lo == FirstOf2(d.axes[a], sel[a])
           hi == LastOf2(d.axes[a], sel[a])
           st == Stride(d, a)
           c == Cut(d, sel, s, a)
           whole == TrailingWhole(d, sel, a)
           many == hi - lo + 1 > kPortMapMaxPieces \div Cardinality(s.ranges)
           X == Starts(d, sel, a - 1)
           R1 == WholeRanges(d, sel, s, a)
           R2 == CutRanges(d, sel, s, a)
<1>1. /\ lo \in Int /\ hi \in Int /\ 0 <= lo /\ lo <= hi /\ hi < Width(d.axes[a])
      /\ sel \in Seq(Int \X Int) /\ Len(sel) \in Nat
  BY SelectedOffsets DEF InBounds
<1>2. /\ s.done => c = s
      /\ ~s.done /\ whole => c = [ranges |-> R1, done |-> TRUE, failed |-> FALSE]
      /\ ~s.done /\ ~whole /\ many => c = [ranges |-> {}, done |-> TRUE, failed |-> TRUE]
      /\ ~s.done /\ ~whole /\ ~many => c = [ranges |-> R2, done |-> FALSE, failed |-> s.failed]
  <2>1. lo >= 0 /\ hi < Width(d.axes[a])
    BY <1>1
  <2>2. s.done => c = s
    BY <1>1, CutIs
  <2>3. ~s.done /\ whole => c = [ranges |-> R1, done |-> TRUE, failed |-> FALSE]
    BY <1>1, <2>1, CutIs
  <2>4. ~s.done /\ ~whole /\ many => c = [ranges |-> {}, done |-> TRUE, failed |-> TRUE]
    BY <1>1, <2>1, CutIs
  <2>5. ~s.done /\ ~whole /\ ~many => c = [ranges |-> R2, done |-> FALSE, failed |-> s.failed]
    BY <1>1, <2>1, CutIs
  <2> QED
    BY <2>2, <2>3, <2>4, <2>5
<1>3. a = Len(sel) => whole
  BY <1>1 DEF TrailingWhole
<1> HIDE DEF c, whole, many, lo, hi, st
<1> SUFFICES CutInv(d, sel, c, a)
  BY DEF c
<1>4. CASE s.done
  BY <1>2, <1>4 DEF CutInv
<1>5. CASE ~s.done
  <2>1. s.ranges = {<<x, x>> : x \in X} /\ ~s.failed
    BY <1>5 DEF CutInv
  <2>2. CASE whole
    <3>1. c.ranges = R1 /\ c.done /\ ~c.failed
      BY <1>2, <1>5, <2>2
    <3>2. R1 = {<<x + (lo * st), x + ((hi + 1) * st) - 1>> : x \in X}
      <4> HIDE DEF X
      <4>1. \A x \in X : <<x, x>> \in s.ranges /\ <<x, x>>[1] = x /\ <<x, x>>[2] = x
        BY <2>1
      <4>2. \A r \in s.ranges : \E x \in X : r = <<x, x>> /\ r[1] = x /\ r[2] = x
        BY <2>1
      <4> DEFINE W(r) == <<r[1] + (lo * st), r[2] + ((hi + 1) * st) - 1>>
                 V(x) == <<x + (lo * st), x + ((hi + 1) * st) - 1>>
      <4>3. \A x \in X : W(<<x, x>>) = V(x)
        BY <4>1
      <4>4. \A r \in s.ranges : \E x \in X : W(r) = V(x)
        BY <4>2
      <4> HIDE DEF W, V
      <4>5. {W(r) : r \in s.ranges} = {V(x) : x \in X}
        BY <4>1, <4>2, <4>3, <4>4
      <4> QED
        BY <4>5 DEF W, V, WholeRanges, lo, hi, st
    <3>3. UNION {Span(<<x + (lo * st), x + ((hi + 1) * st) - 1>>) : x \in X} = Chosen(d, sel)
      BY <2>2, LastRows DEF lo, hi, st, whole
    <3>4. UNION {Span(r) : r \in c.ranges} = Chosen(d, sel)
      <4> HIDE DEF R1, X
      <4>1. {Span(r) : r \in R1} = {Span(<<x + (lo * st), x + ((hi + 1) * st) - 1>>) : x \in X}
        BY <3>2
      <4> QED
        BY <3>1, <3>3, <4>1
    <3> QED
      BY <3>1, <3>4 DEF CutInv
  <2>3. CASE ~whole /\ many
    <3>1. c.done /\ c.failed
      BY <1>2, <1>5, <2>3
    <3>2. Cardinality(Chosen(d, sel)) > kPortMapMaxPieces
      BY <2>1, <2>3, TooManyBits DEF many, lo, hi
    <3> QED
      BY <3>1, <3>2 DEF CutInv
  <2>4. CASE ~whole /\ ~many
    <3>1. c.ranges = R2 /\ ~c.done /\ ~c.failed
      BY <1>2, <1>5, <2>1, <2>4
    <3>2. R2 = {<<x + (i * st), x + (i * st)>> : x \in X, i \in lo .. hi}
      <4> HIDE DEF X
      <4>1. \A x \in X : <<x, x>> \in s.ranges /\ <<x, x>>[1] = x /\ <<x, x>>[2] = x
        BY <2>1
      <4>2. \A r \in s.ranges : \E x \in X : r = <<x, x>> /\ r[1] = x /\ r[2] = x
        BY <2>1
      <4> DEFINE W(r, i) == <<r[1] + (i * st), r[2] + (i * st)>>
                 V(x, i) == <<x + (i * st), x + (i * st)>>
      <4>3. \A x \in X, i \in lo .. hi : W(<<x, x>>, i) = V(x, i)
        BY <4>1
      <4>4. \A r \in s.ranges : \E x \in X : \A i \in lo .. hi : W(r, i) = V(x, i)
        BY <4>2
      <4> HIDE DEF W, V
      <4> DEFINE A == {W(r, i) : r \in s.ranges, i \in lo .. hi}
                 Z == {V(x, i) : x \in X, i \in lo .. hi}
      <4>5. A = Z
        <5>1. ASSUME NEW r \in s.ranges, NEW i \in lo .. hi PROVE W(r, i) \in Z
          BY <4>4
        <5>2. ASSUME NEW x \in X, NEW i \in lo .. hi PROVE V(x, i) \in A
          <6>1. W(<<x, x>>, i) = V(x, i) /\ <<x, x>> \in s.ranges
            BY <4>1, <4>3
          <6> QED
            BY <6>1
        <5>3. \A z \in A : z \in Z
          BY <5>1
        <5>4. \A z \in Z : z \in A
          BY <5>2
        <5> HIDE DEF A, Z
        <5> QED
          BY <5>3, <5>4
      <4> QED
        BY <4>5 DEF W, V, CutRanges, lo, hi, st
    <3>3. NextStarts(d, sel, a) = Starts(d, sel, a)
      BY NextRows DEF NextStarts
    <3>4. c.ranges = {<<x, x>> : x \in Starts(d, sel, a)}
      <4> DEFINE N == NextStarts(d, sel, a)
      <4>1. \A x \in X, i \in lo .. hi : x + (i * st) \in N
        BY DEF NextStarts, lo, hi, st
      <4>2. \A y \in N : \E x \in X, i \in lo .. hi : y = x + (i * st)
        BY DEF NextStarts, lo, hi, st
      <4> HIDE DEF X, N
      <4>3. {<<x + (i * st), x + (i * st)>> : x \in X, i \in lo .. hi} = {<<y, y>> : y \in N}
        BY <4>1, <4>2
      <4> HIDE DEF R2
      <4>4. N = Starts(d, sel, a)
        BY <3>3 DEF N
      <4> QED
        BY <3>1, <3>2, <4>3, <4>4
    <3> QED
      BY <1>3, <2>4, <3>1, <3>4 DEF CutInv
  <2> QED
    BY <2>2, <2>3, <2>4
<1> QED
  BY <1>4, <1>5

LEMMA CutsEnd ==
    ASSUME NEW d, Declared(d), NEW sel, InBounds(d, sel), Len(sel) <= Len(d.axes)
    PROVE  LET s == Cuts(d, sel)[Len(sel)]
           IN  /\ s \in CutStates
               /\ s.failed => Cardinality(Chosen(d, sel)) > kPortMapMaxPieces
               /\ ~s.failed => UNION {Span(r) : r \in s.ranges} = Chosen(d, sel)
<1> DEFINE m == Len(sel)
           s(k) == Cuts(d, sel)[k]
           P == {k \in 0 .. m : CutInv(d, sel, s(k), k)}
<1>1. sel \in Seq(Int \X Int) /\ m \in Nat
  BY DEF InBounds
<1>2. /\ s(0) = FirstCut(d, sel) /\ \A k \in 0 .. m : s(k) \in CutStates
      /\ \A k \in 1 .. m : s(k) = Cut(d, sel, s(k - 1), k)
  BY <1>1, CutsAre
<1> HIDE DEF s
<1>3. 0 \in P
  BY <1>1, <1>2, FirstCutIs
<1>4. ASSUME NEW k \in 1 .. m, k - 1 \in P PROVE k \in P
  <2>1. k \in 0 .. m /\ k - 1 \in 0 .. m /\ CutInv(d, sel, s(k - 1), k - 1)
    BY <1>1, <1>4
  <2>2. s(k - 1) \in CutStates
    BY <1>2, <2>1
  <2>3. CutInv(d, sel, Cut(d, sel, s(k - 1), k), k)
    BY <2>1, <2>2, CutKeeps
  <2> QED
    BY <1>2, <2>1, <2>3
<1>5. m \in P
  <2> HIDE DEF P, m
  <2>1. \A k \in 0 .. m : k \in P
    BY <1>1, <1>3, <1>4, Upward
  <2>2. m \in 0 .. m
    BY <1>1
  <2> QED
    BY <2>1, <2>2
<1>6. s(m) \in CutStates /\ CutInv(d, sel, s(m), m)
  BY <1>1, <1>2, <1>5
<1> QED
  BY <1>6 DEF CutInv, s

LEMMA OwnerIs ==
    ASSUME NEW d, Declared(d), NEW sel, InBounds(d, sel), Len(sel) <= Len(d.axes), d.coord, ~d.unverified,
           \A a \in DOMAIN d.axes : d.axes[a].fixed /\ (d.axes[a].packed \/ d.mapped)
    PROVE  \/ /\ PortOwnerSelection(d, sel) = {}
              /\ Cardinality(Chosen(d, sel)) > kPortMapMaxPieces
           \/ PortOwnerSelection(d, sel) = {{b + d.offset : b \in Chosen(d, sel)}}
<1> DEFINE s == Cuts(d, sel)[Len(sel)]
           U == UNION {{b + d.offset : b \in Span(r)} : r \in s.ranges}
<1>1. /\ s.failed => Cardinality(Chosen(d, sel)) > kPortMapMaxPieces
      /\ ~s.failed => UNION {Span(r) : r \in s.ranges} = Chosen(d, sel)
  BY CutsEnd
<1>2. ~(Len(sel) > Len(d.axes))
  BY AxisIs DEF InBounds
<1>3. PortOwnerSelection(d, sel) = (IF s.failed THEN {} ELSE {U})
  BY <1>2 DEF PortOwnerSelection
<1> HIDE DEF s
<1>4. U = {b + d.offset : b \in UNION {Span(r) : r \in s.ranges}}
  OBVIOUS
<1> QED
  BY <1>1, <1>3, <1>4

LEMMA SelectionIsExact == ASSUME SelectionInv PROVE SelectionExact
<1> DEFINE d == asked
           sel == selected
           bits == {BitOf(d, t) : t \in Elements(d, sel)}
           owner == PortOwnerSelection(d, sel)
           B == Chosen(d, sel)
<1> SUFFICES ASSUME LayoutKnown(d), diagnosis = "run", Len(sel) <= Len(d.axes)
             PROVE  IF owner = {} THEN Cardinality(bits) > kPortMapMaxPieces ELSE owner = {bits}
  BY DEF SelectionExact
<1>1. /\ Declared(d) /\ InBounds(d, sel) /\ d.coord /\ ~d.unverified
      /\ \A a \in DOMAIN d.axes : d.axes[a].fixed /\ (d.axes[a].packed \/ d.mapped)
  BY AskedIs
<1>2. d \in Declarations
  <2> SUFFICES ASSUME d = NoSignal PROVE FALSE
    BY DEF SelectionInv
  <2>1. ~d.coord
    BY DEF NoSignal
  <2> QED
    BY <1>1, <2>1
<1>3. d.offset \in Nat
  BY <1>2, CoordinateAssumption
<1>4. bits = {d.offset + b : b \in B}
  BY <1>1, ElementsAreBits
<1>5. \/ owner = {} /\ Cardinality(B) > kPortMapMaxPieces
      \/ owner = {{b + d.offset : b \in B}}
  BY <1>1, OwnerIs
<1>6. B \in SUBSET Int /\ IsFiniteSet(B)
  <2>1. 0 \in Int /\ Total(d) - 1 \in Int
    BY <1>1, RadixOf DEF Pos
  <2>2. B \in SUBSET (0 .. Total(d) - 1) /\ \A b \in 0 .. Total(d) - 1 : b \in Int
    BY <2>1 DEF Chosen
  <2>3. IsFiniteSet(0 .. Total(d) - 1)
    BY <2>1, FS_Interval
  <2>4. IsFiniteSet(B)
    BY <2>2, <2>3, FS_Subset
  <2> QED
    BY <2>2, <2>4
<1> HIDE DEF bits, owner, B
<1>7. \A b \in B : d.offset + b = b + d.offset
  BY <1>3, <1>6
<1>8. {b + d.offset : b \in B} = bits
  BY <1>4, <1>7
<1>9. Cardinality(bits) = Cardinality(B)
  <2> DEFINE f == [b \in B |-> d.offset + b]
  <2>1. f \in [B -> bits]
    BY <1>4
  <2>2. \A b, c \in B : f[b] = f[c] => b = c
    BY <1>3, <1>6
  <2>3. \A x \in bits : \E b \in B : f[b] = x
    BY <1>4
  <2> HIDE DEF f
  <2>4. f \in Surjection(B, bits)
    BY <2>1, <2>3 DEF Surjection
  <2>5. f \in Injection(B, bits)
    BY <2>1, <2>2 DEF Injection, IsInjective
  <2> QED
    BY <1>6, <2>4, <2>5, FS_Surjection
<1> QED
  BY <1>5, <1>8, <1>9
---------------------------------------------------------------------------
(* A range of bits as selections by index.  A piece from axis k + 1 on is  *)
(* a range on each axis that follows; its part is of the bits of one row.  *)
IsPiece(d, k, r) ==
  /\ r \in Seq(Int \X Int) /\ Len(r) = Len(d.axes) - k
  /\ \A j \in 1 .. Len(d.axes) - k : Span(r[j]) \subseteq Span(Bounds(d.axes[k + j]))
Part(d, k, r) ==
  {y \in 0 .. Stride(d, k) - 1 : \A j \in 1 .. Len(d.axes) - k :
     DigitOf(d, y, k + j) \in FirstOf2(d.axes[k + j], r[j]) .. LastOf2(d.axes[k + j], r[j])}
Tiles(d, k, T, U) ==
  /\ \A r \in T : IsPiece(d, k, r)
  /\ UNION {Part(d, k, r) : r \in T} = U
  /\ \A r, q \in T : r # q => Part(d, k, r) \cap Part(d, k, q) = {}

LEMMA StridesShrink ==
    ASSUME NEW d, Declared(d)
    PROVE  \A k \in 0 .. Len(d.axes) : Stride(d, k) \in Pos /\ Stride(d, k) <= Total(d) /\ Total(d) \in Int
<1> DEFINE n == Len(d.axes)
           P == {k \in 0 .. n : Stride(d, k) <= Total(d)}
<1>1. n \in Nat /\ \A k \in 0 .. n : Stride(d, k) \in Pos /\ Stride(d, k) \in Int
  BY RadixOf, AxisIs DEF Pos
<1>2. 0 \in P
  BY <1>1 DEF Total
<1>3. ASSUME NEW k \in 1 .. n, k - 1 \in P PROVE k \in P
  <2> DEFINE s == Stride(d, k)
             t == Stride(d, k - 1)
             w == Width(d.axes[k])
  <2>1. k - 1 \in 0 .. n /\ k \in 0 .. n
    BY <1>1
  <2>2. s \in Pos /\ t \in Int /\ t <= Total(d)
    BY <1>1, <1>3, <2>1
  <2>3. t = w * s
    <3>1. 0 \in 0 .. Total(d) - 1
      BY RadixOf DEF Pos
    <3> QED
      BY <3>1, RowOf
  <2>4. w \in Int /\ 1 <= w
    <3>1. w \in Pos
      BY AxisIs, WidthIs
    <3> QED
      BY <3>1 DEF Pos
  <2>5. 1 * s <= w * s
    <3> HIDE DEF w, s
    <3> QED
      BY <2>2, <2>4, TimesGrows
  <2>6. s <= t /\ s \in Int /\ Total(d) \in Int
    BY <2>2, <2>3, <2>5, RadixOf DEF Pos
  <2>7. s <= Total(d)
    <3> HIDE DEF s, t
    <3> QED
      BY <2>2, <2>6
  <2> QED
    BY <2>1, <2>7
<1>4. \A k \in 0 .. n : k \in P
  <2> HIDE DEF P, n
  <2> QED
    BY <1>1, <1>2, <1>3, Upward
<1> QED
  BY <1>1, <1>4, RadixOf DEF Pos

(* The bits of a row, seen as a place in a row of the next axis.           *)
LEMMA BitInRow ==
    ASSUME NEW d, Declared(d), NEW a \in 1 .. Len(d.axes), NEW y \in 0 .. Stride(d, a - 1) - 1
    PROVE  /\ DigitOf(d, y, a) = y \div Stride(d, a)
           /\ \A c \in a + 1 .. Len(d.axes) : DigitOf(d, y, c) = DigitOf(d, y % Stride(d, a), c)
           /\ y % Stride(d, a) \in 0 .. Stride(d, a) - 1 /\ y \div Stride(d, a) \in 0 .. Width(d.axes[a]) - 1
           /\ y = ((y \div Stride(d, a)) * Stride(d, a)) + (y % Stride(d, a))
           /\ y \in Int /\ y \div Stride(d, a) \in Int /\ y % Stride(d, a) \in Int /\ Stride(d, a) \in Pos
<1> DEFINE n == Len(d.axes)
           W == Widths(d)
           S == Weights(d)
<1>1. n \in Nat /\ a \in 0 .. n /\ a - 1 \in 0 .. n /\ a \in 1 .. n
  BY AxisIs
<1>2. /\ Radix(n, W, S) /\ W[a] = Width(d.axes[a])
      /\ S[a] = Stride(d, a) /\ S[a - 1] = Stride(d, a - 1) /\ S[a] \in Pos /\ S[a - 1] \in Pos
  BY <1>1, RadixOf
<1>3. y \in Int /\ y \in 0 .. S[a - 1] - 1
  BY <1>2 DEF Pos
<1> HIDE DEF W, S
<1>4. y % S[a - 1] = y
  <2>1. 0 \in Int /\ y = (0 * S[a - 1]) + y
    BY <1>2, <1>3 DEF Pos
  <2> QED
    BY <1>2, <1>3, <2>1, DivOf
<1>5. Digit(W, S, y, a) = y \div S[a]
  <2>1. Radix(n, W, S) /\ a \in 1 .. n /\ y \in Int
    BY <1>1, <1>2, <1>3
  <2> HIDE DEF n
  <2>2. (y % S[a - 1]) \div S[a] = Digit(W, S, y, a)
    BY <2>1, RadixStep
  <2> QED
    BY <1>4, <2>2
<1>6. \A c \in a + 1 .. n : Digit(W, S, y % S[a], c) = Digit(W, S, y, c)
  BY <1>1, <1>2, <1>3, RestOfRow
<1>7. y \div S[a] \in Int /\ y % S[a] \in 0 .. S[a] - 1 /\ y = ((y \div S[a]) * S[a]) + (y % S[a])
  BY <1>2, <1>3, DivIs
<1>8. Digit(W, S, y, a) \in 0 .. Width(d.axes[a]) - 1
  <2>1. DigitOf(d, y, a) \in 0 .. Width(d.axes[a]) - 1
    BY <1>3, DigitOfIs
  <2> QED
    BY <2>1 DEF DigitOf, W, S
<1>9. y % S[a] \in Int
  BY <1>2, <1>7 DEF Pos
<1> QED
  BY <1>2, <1>3, <1>5, <1>6, <1>7, <1>8, <1>9 DEF DigitOf, W, S, n

(* RangeBits of some rows, and of each row those of U.                          *)
RowsAt(d, a, p, q, U) ==
  {y \in 0 .. Stride(d, a - 1) - 1 : y \div Stride(d, a) \in p .. q /\ y % Stride(d, a) \in U}

(* One more axis before a piece.                                           *)
Joined(d, a, p, q, rest) == << <<AxisIndex(d.axes[a], q), AxisIndex(d.axes[a], p)>> >> \o rest

LEMMA JoinedPiece ==
    ASSUME NEW d, Declared(d), NEW a \in 1 .. Len(d.axes), NEW p \in Int, NEW q \in Int,
           0 <= p, p <= q, q < Width(d.axes[a]), NEW rest, IsPiece(d, a, rest),
           NEW r, r = Joined(d, a, p, q, rest)
    PROVE  /\ IsPiece(d, a - 1, r)
           /\ Part(d, a - 1, r) = RowsAt(d, a, p, q, Part(d, a, rest))
<1> DEFINE n == Len(d.axes)
           x == d.axes[a]
           h == <<AxisIndex(x, q), AxisIndex(x, p)>>
           In(y, j) == DigitOf(d, y, (a - 1) + j) \in FirstOf2(d.axes[(a - 1) + j], r[j]) .. LastOf2(d.axes[(a - 1) + j], r[j])
           InRest(z, j) == DigitOf(d, z, a + j) \in FirstOf2(d.axes[a + j], rest[j]) .. LastOf2(d.axes[a + j], rest[j])
<1>1. n \in Nat /\ a \in 1 .. n /\ DOMAIN d.axes = 1 .. n /\ x \in Axes
  BY AxisIs
<1>2. rest \in Seq(Int \X Int) /\ Len(rest) = n - a /\ \A j \in 1 .. n - a : Span(rest[j]) \subseteq Span(Bounds(d.axes[a + j]))
  BY DEF IsPiece
<1>3. /\ AxisIndex(x, p) \in Int /\ PortAxisOffset(x, AxisIndex(x, p)) = p
      /\ AxisIndex(x, q) \in Int /\ PortAxisOffset(x, AxisIndex(x, q)) = q
  BY <1>1, OffsetIs
<1>4. h \in Int \X Int /\ h[1] = AxisIndex(x, q) /\ h[2] = AxisIndex(x, p)
  BY <1>3
<1>5. FirstOf2(x, h) = p /\ LastOf2(x, h) = q
  <2>1. PortAxisOffset(x, h[1]) = q /\ PortAxisOffset(x, h[2]) = p
    BY <1>3, <1>4
  <2>2. Min({q, p}) = p /\ Max({q, p}) = q
    BY OfTwo
  <2> QED
    BY <2>1, <2>2 DEF FirstOf2, LastOf2
<1>6. Span(h) \subseteq Span(Bounds(x))
  <2> HIDE DEF h, x
  <2> QED
    BY <1>1, <1>4, <1>5, RangeOffsets DEF x
<1> HIDE DEF h
<1>7. r = <<h>> \o rest
  BY DEF h, Joined
<1>8. r \in Seq(Int \X Int) /\ Len(r) = n - (a - 1) /\ r[1] = h /\ \A j \in 1 .. n - a : r[j + 1] = rest[j]
  <2>1. <<h>> \in Seq(Int \X Int) /\ Len(<<h>>) = 1 /\ <<h>>[1] = h
    BY <1>4
  <2>2. r \in Seq(Int \X Int) /\ Len(r) = 1 + (n - a)
    <3> DEFINE first == <<h>>
    <3>1. r = first \o rest /\ first \in Seq(Int \X Int) /\ rest \in Seq(Int \X Int)
      BY <1>2, <1>7, <2>1
    <3>2. Len(first) = 1 /\ Len(rest) = n - a
      BY <1>2, <2>1
    <3> HIDE DEF first, n
    <3>3. r \in Seq(Int \X Int) /\ Len(r) = Len(first) + Len(rest)
      BY <3>1, ConcatProperties
    <3> QED
      BY <3>2, <3>3
  <2>3. r[1] = h
    BY <1>2, <1>7, <2>1
  <2>4. \A j \in 1 .. n - a : r[j + 1] = rest[j]
    BY <1>2, <1>7, <2>1
  <2>5. 1 + (n - a) = n - (a - 1)
    BY <1>1
  <2> HIDE DEF n
  <2> QED
    BY <2>2, <2>3, <2>4, <2>5
<1>9. 1 \in 1 .. n - (a - 1) /\ \A j \in 1 .. n - (a - 1) : j = 1 \/ \E i \in 1 .. n - a : j = i + 1
  <2>1. ASSUME NEW j \in 1 .. n - (a - 1), j # 1 PROVE j - 1 \in 1 .. n - a /\ j = (j - 1) + 1
    BY <1>1, <2>1
  <2>2. \A j \in 1 .. n - (a - 1) : j # 1 => \E i \in 1 .. n - a : j = i + 1
    BY <2>1
  <2> QED
    BY <1>1, <2>2
<1>10. /\ (a - 1) + 1 = a
       /\ \A i \in 1 .. n - a : /\ (a - 1) + (i + 1) = a + i /\ a + i \in a + 1 .. n /\ i + 1 \in 1 .. n - (a - 1)
  BY <1>1
<1>11. IsPiece(d, a - 1, r)
  <2>1. ASSUME NEW j \in 1 .. n - (a - 1) PROVE Span(r[j]) \subseteq Span(Bounds(d.axes[(a - 1) + j]))
    <3>1. CASE j = 1
      BY <1>6, <1>8, <1>10, <3>1
    <3>2. CASE j # 1
      <4>1. PICK i \in 1 .. n - a : j = i + 1
        BY <1>9, <3>2
      <4>2. r[j] = rest[i] /\ (a - 1) + j = a + i
        BY <1>8, <1>10, <4>1
      <4> QED
        BY <1>2, <4>2
    <3> QED
      BY <3>1, <3>2
  <2> QED
    BY <1>8, <2>1 DEF IsPiece
<1>12. ASSUME NEW y \in 0 .. Stride(d, a - 1) - 1
       PROVE  (\A j \in 1 .. n - (a - 1) : In(y, j))
              <=> y \div Stride(d, a) \in p .. q /\ y % Stride(d, a) \in Part(d, a, rest)
  <2> DEFINE z == y % Stride(d, a)
  <2>1. /\ DigitOf(d, y, a) = y \div Stride(d, a) /\ \A c \in a + 1 .. n : DigitOf(d, y, c) = DigitOf(d, z, c)
        /\ z \in 0 .. Stride(d, a) - 1
    BY BitInRow
  <2> HIDE DEF z
  <2>2. In(y, 1) <=> y \div Stride(d, a) \in p .. q
    BY <1>5, <1>8, <1>10, <2>1
  <2>3. ASSUME NEW i \in 1 .. n - a PROVE In(y, i + 1) <=> InRest(z, i)
    BY <1>8, <1>10, <2>1
  <2>4. z \in Part(d, a, rest) <=> \A i \in 1 .. n - a : InRest(z, i)
    BY <2>1 DEF Part
  <2> HIDE DEF In, InRest
  <2>5. (\A j \in 1 .. n - (a - 1) : In(y, j)) <=> In(y, 1) /\ \A i \in 1 .. n - a : In(y, i + 1)
    BY <1>9, <1>10
  <2> QED
    BY <2>2, <2>3, <2>4, <2>5 DEF z
<1>13. Part(d, a - 1, r) = {y \in 0 .. Stride(d, a - 1) - 1 : \A j \in 1 .. n - (a - 1) : In(y, j)}
  BY DEF Part
<1> HIDE DEF In
<1> QED
  BY <1>11, <1>12, <1>13 DEF RowsAt

LEMMA RowOrder ==
    ASSUME NEW s \in Pos, NEW X \in Int, NEW Y \in Int, NEW e \in 0 .. s - 1, NEW f \in 0 .. s - 1
    PROVE  (X * s) + e <= (Y * s) + f <=> X < Y \/ (X = Y /\ e <= f)
<1>1. s \in Int /\ e \in Int /\ f \in Int /\ 0 <= e /\ e <= s - 1 /\ 0 <= f /\ f <= s - 1
  BY DEF Pos
<1>2. /\ X * s \in Int /\ Y * s \in Int
      /\ X < Y => (X * s) + s <= Y * s
      /\ Y < X => (Y * s) + s <= X * s
  BY TimesGrows
<1> DEFINE x == X * s
           y == Y * s
<1>3. x \in Int /\ y \in Int /\ (X < Y => x + s <= y) /\ (Y < X => y + s <= x) /\ (X = Y => x = y)
  BY <1>2
<1> HIDE DEF x, y
<1>4. x + e <= y + f <=> X < Y \/ (X = Y /\ e <= f)
  BY <1>1, <1>3
<1> QED
  BY <1>4 DEF x, y

LEMMA TilesJoin ==
    ASSUME NEW d, NEW k, NEW T, NEW V, NEW A, NEW B, Tiles(d, k, T, A), Tiles(d, k, V, B), A \cap B = {}
    PROVE  Tiles(d, k, T \cup V, A \cup B)
<1>1. /\ \A r \in T : IsPiece(d, k, r) /\ Part(d, k, r) \subseteq A
      /\ \A r \in V : IsPiece(d, k, r) /\ Part(d, k, r) \subseteq B
  BY DEF Tiles
<1>2. UNION {Part(d, k, r) : r \in T \cup V} = A \cup B
  BY DEF Tiles
<1>3. ASSUME NEW r \in T \cup V, NEW q \in T \cup V, r # q
      PROVE  Part(d, k, r) \cap Part(d, k, q) = {}
  <2>1. CASE r \in T /\ q \in T
    BY <1>3, <2>1 DEF Tiles
  <2>2. CASE r \in V /\ q \in V
    BY <1>3, <2>2 DEF Tiles
  <2>3. CASE r \in T /\ q \in V
    BY <1>1, <2>3
  <2>4. CASE r \in V /\ q \in T
    BY <1>1, <2>4
  <2> QED
    BY <2>1, <2>2, <2>3, <2>4
<1> QED
  BY <1>1, <1>2, <1>3 DEF Tiles

LEMMA BlockTiles ==
    ASSUME NEW d, Declared(d), NEW a \in 1 .. Len(d.axes), NEW p \in Int, NEW q \in Int,
           0 <= p, p <= q, q < Width(d.axes[a]), NEW T, NEW U, Tiles(d, a, T, U)
    PROVE  Tiles(d, a - 1, Block(d, a, p, q, T), RowsAt(d, a, p, q, U))
<1> DEFINE J(rest) == Joined(d, a, p, q, rest)
           B == Block(d, a, p, q, T)
           R == RowsAt(d, a, p, q, U)
<1>1. B = {J(rest) : rest \in T}
  BY DEF Block, Joined
<1>2. ASSUME NEW rest \in T
      PROVE  IsPiece(d, a - 1, J(rest)) /\ Part(d, a - 1, J(rest)) = RowsAt(d, a, p, q, Part(d, a, rest))
  <2>1. IsPiece(d, a, rest)
    BY DEF Tiles
  <2> QED
    BY <2>1, JoinedPiece
<1>3. UNION {Part(d, a, rest) : rest \in T} = U /\ \A r, s \in T : r # s => Part(d, a, r) \cap Part(d, a, s) = {}
  BY DEF Tiles
<1> HIDE DEF J, B
<1>4. UNION {Part(d, a - 1, r) : r \in B} = R
  <2>1. ASSUME NEW r \in B, NEW y \in Part(d, a - 1, r) PROVE y \in R
    <3>1. PICK rest \in T : r = J(rest)
      BY <1>1
    <3> QED
      BY <1>2, <1>3, <2>1, <3>1 DEF RowsAt
  <2>2. ASSUME NEW y \in R PROVE \E r \in B : y \in Part(d, a - 1, r)
    <3>1. PICK rest \in T : y % Stride(d, a) \in Part(d, a, rest)
      BY <1>3, <2>2 DEF RowsAt
    <3>2. y \in RowsAt(d, a, p, q, Part(d, a, rest))
      BY <2>2, <3>1 DEF RowsAt
    <3> QED
      BY <1>1, <1>2, <3>2
  <2> HIDE DEF R
  <2> QED
    BY <2>1, <2>2
<1>5. ASSUME NEW r \in B, NEW s \in B, r # s PROVE Part(d, a - 1, r) \cap Part(d, a - 1, s) = {}
  <2>1. PICK x \in T : r = J(x)
    BY <1>1
  <2>2. PICK z \in T : s = J(z)
    BY <1>1
  <2>3. x # z
    BY <1>5, <2>1, <2>2
  <2>4. Part(d, a, x) \cap Part(d, a, z) = {}
    BY <1>3, <2>3
  <2>5. Part(d, a - 1, r) = RowsAt(d, a, p, q, Part(d, a, x)) /\ Part(d, a - 1, s) = RowsAt(d, a, p, q, Part(d, a, z))
    BY <1>2, <2>1, <2>2
  <2> QED
    BY <2>4, <2>5 DEF RowsAt
<1>6. \A r \in B : IsPiece(d, a - 1, r)
  BY <1>1, <1>2
<1> HIDE DEF R
<1> QED
  BY <1>4, <1>5, <1>6 DEF Tiles, B, R

(* The part of the first row, the whole rows, the part of the last row.    *)
LEMMA EmitTiles ==
    ASSUME NEW d, Declared(d), NEW a \in 1 .. Len(d.axes),
           NEW lo \in 0 .. Stride(d, a - 1) - 1, NEW hi \in 0 .. Stride(d, a - 1) - 1, lo <= hi, NEW tails,
           \A l, h \in 0 .. Stride(d, a) - 1 : l <= h => Tiles(d, a, tails[<<l, h>>], l .. h)
    PROVE  Tiles(d, a - 1, Emit(d, a, lo, hi, tails), lo .. hi)
<1> DEFINE s == Stride(d, a)
           t == Stride(d, a - 1)
           w == Width(d.axes[a])
           first == lo \div s
           last == hi \div s
           l == lo % s
           h == hi % s
           row(y) == y \div s
           rem(y) == y % s
           Good(T, U) == Tiles(d, a - 1, T, U)
<1>1. /\ lo = (first * s) + l /\ hi = (last * s) + h /\ lo \in Int /\ hi \in Int
      /\ first \in 0 .. w - 1 /\ last \in 0 .. w - 1 /\ first \in Int /\ last \in Int
      /\ l \in 0 .. s - 1 /\ h \in 0 .. s - 1 /\ l \in Int /\ h \in Int /\ s \in Pos
  BY BitInRow
<1>2. \A y \in 0 .. t - 1 : /\ y = (row(y) * s) + rem(y) /\ y \in Int /\ row(y) \in Int /\ rem(y) \in Int
                            /\ rem(y) \in 0 .. s - 1
  BY BitInRow
<1>3. s \in Int /\ 1 <= s /\ t \in Int /\ w \in Int
  <2>1. w \in Pos
    BY AxisIs, WidthIs
  <2>2. t \in Pos
    <3>1. a - 1 \in 0 .. Len(d.axes)
      BY AxisIs
    <3> QED
      BY <3>1, RadixOf
  <2> QED
    BY <1>1, <2>1, <2>2 DEF Pos
<1> HIDE DEF first, last, l, h, row, rem, s, t, w
<1>4. \A y \in 0 .. t - 1 : /\ lo <= y <=> first < row(y) \/ (first = row(y) /\ l <= rem(y))
                            /\ y <= hi <=> row(y) < last \/ (row(y) = last /\ rem(y) <= h)
  <2> SUFFICES ASSUME NEW y \in 0 .. t - 1
               PROVE  /\ lo <= y <=> first < row(y) \/ (first = row(y) /\ l <= rem(y))
                      /\ y <= hi <=> row(y) < last \/ (row(y) = last /\ rem(y) <= h)
    OBVIOUS
  <2>1. y = (row(y) * s) + rem(y) /\ row(y) \in Int /\ rem(y) \in 0 .. s - 1
    BY <1>2
  <2>2. (first * s) + l <= (row(y) * s) + rem(y) <=> first < row(y) \/ (first = row(y) /\ l <= rem(y))
    BY <1>1, <2>1, RowOrder
  <2>3. (row(y) * s) + rem(y) <= (last * s) + h <=> row(y) < last \/ (row(y) = last /\ rem(y) <= h)
    BY <1>1, <2>1, RowOrder
  <2> QED
    BY <1>1, <2>1, <2>2, <2>3
<1>5. first < last \/ (first = last /\ l <= h)
  BY <1>1, RowOrder
<1>6. \A y \in lo .. hi : y \in 0 .. t - 1
  BY <1>1, <1>3 DEF t
<1>7. \A p, q, U, y : y \in RowsAt(d, a, p, q, U) <=> y \in 0 .. t - 1 /\ row(y) \in p .. q /\ rem(y) \in U
  BY DEF RowsAt, s, t, row, rem
<1>8. ASSUME NEW p \in 0 .. w - 1, NEW q \in 0 .. w - 1, p <= q, NEW x \in 0 .. s - 1, NEW z \in 0 .. s - 1, x <= z
      PROVE  Good(Block(d, a, p, q, tails[<<x, z>>]), RowsAt(d, a, p, q, x .. z))
  <2>1. Tiles(d, a, tails[<<x, z>>], x .. z)
    BY <1>8 DEF s
  <2>2. p \in Int /\ q \in Int /\ 0 <= p /\ q < w
    BY <1>3
  <2> QED
    BY <1>8, <2>1, <2>2, BlockTiles DEF w
<1>9. 0 \in 0 .. s - 1 /\ s - 1 \in 0 .. s - 1 /\ l <= s - 1 /\ 0 <= h /\ 0 <= s - 1
  BY <1>1, <1>3
<1> DEFINE B1 == Block(d, a, first, first, tails[<<l, s - 1>>])
           B2 == IF last > first + 1 THEN Block(d, a, first + 1, last - 1, tails[<<0, s - 1>>]) ELSE {}
           B3 == Block(d, a, last, last, tails[<<0, h>>])
           E == Emit(d, a, lo, hi, tails)
<1>10. E = (IF l = 0 /\ h = s - 1 THEN Block(d, a, first, last, tails[<<0, s - 1>>])
            ELSE IF first = last THEN Block(d, a, first, last, tails[<<l, h>>])
            ELSE B1 \cup B2 \cup B3)
  BY DEF Emit, s, first, last, l, h
<1> HIDE DEF E, Good
<1>11. CASE l = 0 /\ h = s - 1
  <2>1. Good(E, RowsAt(d, a, first, last, 0 .. s - 1))
    BY <1>1, <1>5, <1>8, <1>9, <1>10, <1>11
  <2>2. RowsAt(d, a, first, last, 0 .. s - 1) = lo .. hi
    <3>1. ASSUME NEW y \in 0 .. t - 1
          PROVE  (row(y) \in first .. last /\ rem(y) \in 0 .. s - 1) <=> lo <= y /\ y <= hi
      <4>1. row(y) \in Int /\ rem(y) \in Int /\ 0 <= rem(y) /\ rem(y) <= s - 1
        BY <1>2, <1>3
      <4>2. /\ lo <= y <=> first < row(y) \/ (first = row(y) /\ l <= rem(y))
            /\ y <= hi <=> row(y) < last \/ (row(y) = last /\ rem(y) <= h)
        BY <1>4
      <4> QED
        BY <1>1, <1>3, <1>11, <4>1, <4>2
    <3>2. \A y \in 0 .. t - 1 : y \in Int
      BY <1>2
    <3> DEFINE R == RowsAt(d, a, first, last, 0 .. s - 1)
    <3>3. \A y : y \in R <=> y \in 0 .. t - 1 /\ row(y) \in first .. last /\ rem(y) \in 0 .. s - 1
      BY <1>7
    <3> HIDE DEF R
    <3>4. R = lo .. hi
      <4>1. \A y \in R : y \in 0 .. t - 1 /\ lo <= y /\ y <= hi
        BY <3>1, <3>3
      <4>2. \A y \in lo .. hi : y \in 0 .. t - 1 /\ lo <= y /\ y <= hi
        BY <1>1, <1>6
      <4>3. \A y \in R : y \in lo .. hi
        BY <1>1, <3>2, <4>1
      <4>4. \A y \in lo .. hi : y \in R
        BY <3>1, <3>3, <4>2
      <4> QED
        BY <4>3, <4>4
    <3> QED
      BY <3>4 DEF R
  <2> QED
    BY <2>1, <2>2 DEF Good, E
<1>12. CASE ~(l = 0 /\ h = s - 1) /\ first = last
  <2>1. Good(E, RowsAt(d, a, first, last, l .. h))
    BY <1>1, <1>5, <1>8, <1>10, <1>12
  <2>2. RowsAt(d, a, first, last, l .. h) = lo .. hi
    <3>1. ASSUME NEW y \in 0 .. t - 1
          PROVE  (row(y) \in first .. last /\ rem(y) \in l .. h) <=> lo <= y /\ y <= hi
      <4>1. row(y) \in Int /\ rem(y) \in Int /\ 0 <= rem(y) /\ rem(y) <= s - 1
        BY <1>2, <1>3
      <4>2. /\ lo <= y <=> first < row(y) \/ (first = row(y) /\ l <= rem(y))
            /\ y <= hi <=> row(y) < last \/ (row(y) = last /\ rem(y) <= h)
        BY <1>4
      <4> QED
        BY <1>1, <1>3, <1>12, <4>1, <4>2
    <3>2. \A y \in 0 .. t - 1 : y \in Int
      BY <1>2
    <3> DEFINE R == RowsAt(d, a, first, last, l .. h)
    <3>3. \A y : y \in R <=> y \in 0 .. t - 1 /\ row(y) \in first .. last /\ rem(y) \in l .. h
      BY <1>7
    <3> HIDE DEF R
    <3>4. R = lo .. hi
      <4>1. \A y \in R : y \in 0 .. t - 1 /\ lo <= y /\ y <= hi
        BY <3>1, <3>3
      <4>2. \A y \in lo .. hi : y \in 0 .. t - 1 /\ lo <= y /\ y <= hi
        BY <1>1, <1>6
      <4>3. \A y \in R : y \in lo .. hi
        BY <1>1, <3>2, <4>1
      <4>4. \A y \in lo .. hi : y \in R
        BY <3>1, <3>3, <4>2
      <4> QED
        BY <4>3, <4>4
    <3> QED
      BY <3>4 DEF R
  <2> QED
    BY <2>1, <2>2 DEF Good, E
<1>13. CASE ~(l = 0 /\ h = s - 1) /\ first # last
  <2> DEFINE R1 == RowsAt(d, a, first, first, l .. s - 1)
             R2 == IF last > first + 1 THEN RowsAt(d, a, first + 1, last - 1, 0 .. s - 1) ELSE {}
             R3 == RowsAt(d, a, last, last, 0 .. h)
  <2>0. first < last
    BY <1>5, <1>13
  <2>1. Good(B1, R1)
    BY <1>1, <1>8, <1>9
  <2>2. Good(B2, R2)
    <3>1. CASE last > first + 1
      <4>1. first + 1 \in 0 .. w - 1 /\ last - 1 \in 0 .. w - 1 /\ first + 1 <= last - 1
        BY <1>1, <1>3, <3>1
      <4>2. Good(Block(d, a, first + 1, last - 1, tails[<<0, s - 1>>]), RowsAt(d, a, first + 1, last - 1, 0 .. s - 1))
        BY <1>8, <1>9, <4>1
      <4> QED
        BY <3>1, <4>2
    <3>2. CASE ~(last > first + 1)
      <4>1. Good({}, {})
        BY DEF Good, Tiles
      <4> QED
        BY <3>2, <4>1
    <3> QED
      BY <3>1, <3>2
  <2>3. Good(B3, R3)
    BY <1>1, <1>8, <1>9
  <2>4. /\ \A y \in R1 : y \in 0 .. t - 1 /\ row(y) = first
        /\ \A y \in R2 : y \in 0 .. t - 1 /\ first < row(y) /\ row(y) < last
        /\ \A y \in R3 : y \in 0 .. t - 1 /\ row(y) = last
    BY <1>1, <1>2, <1>7
  <2>5. R1 \cap R2 = {} /\ (R1 \cup R2) \cap R3 = {}
    <3> HIDE DEF R1, R2, R3
    <3> QED
      BY <1>1, <2>0, <2>4
  <2>6. R1 \cup R2 \cup R3 = lo .. hi
    <3>1. ASSUME NEW y \in 0 .. t - 1
          PROVE  /\ y \in R1 <=> row(y) = first /\ l <= rem(y)
                 /\ y \in R2 <=> first < row(y) /\ row(y) < last
                 /\ y \in R3 <=> row(y) = last /\ rem(y) <= h
      <4>1. row(y) \in Int /\ rem(y) \in Int /\ 0 <= rem(y) /\ rem(y) <= s - 1
        BY <1>2, <1>3
      <4>2. /\ y \in R1 <=> row(y) \in first .. first /\ rem(y) \in l .. s - 1
            /\ y \in R2 <=> last > first + 1 /\ row(y) \in first + 1 .. last - 1 /\ rem(y) \in 0 .. s - 1
            /\ y \in R3 <=> row(y) \in last .. last /\ rem(y) \in 0 .. h
        BY <1>7
      <4> HIDE DEF R1, R2, R3
      <4> QED
        BY <1>1, <1>3, <4>1, <4>2
    <3>2. \A y \in 0 .. t - 1 : y \in R1 \cup R2 \cup R3 <=> lo <= y /\ y <= hi
      <4> HIDE DEF R1, R2, R3
      <4> QED
        BY <1>1, <1>2, <1>4, <2>0, <3>1
    <3>3. \A y \in 0 .. t - 1 : y \in Int
      BY <1>2
    <3>4. \A y \in R1 \cup R2 \cup R3 : y \in 0 .. t - 1
      BY <2>4
    <3> HIDE DEF R1, R2, R3
    <3> QED
      BY <1>1, <1>6, <3>2, <3>3, <3>4
  <2> HIDE DEF B1, B2, B3, R1, R2, R3
  <2>7. Good(B1 \cup B2, R1 \cup R2)
    BY <2>1, <2>2, <2>5, TilesJoin DEF Good
  <2>8. Good((B1 \cup B2) \cup B3, (R1 \cup R2) \cup R3)
    BY <2>3, <2>5, <2>7, TilesJoin DEF Good
  <2>9. E = B1 \cup B2 \cup B3
    BY <1>10, <1>13
  <2> QED
    BY <2>6, <2>8, <2>9 DEF Good, E
<1> QED
  BY <1>11, <1>12, <1>13
PieceSets(d) == [Intervals(d) -> SUBSET Seq(Int \X Int)]

LEMMA IntervalIs ==
    ASSUME NEW d, Declared(d), NEW a \in 0 .. Len(d.axes),
           NEW l \in 0 .. Stride(d, a) - 1, NEW h \in 0 .. Stride(d, a) - 1, l <= h
    PROVE  <<l, h>> \in Intervals(d)
<1>1. Stride(d, a) \in Int /\ Stride(d, a) <= Total(d) /\ Total(d) \in Int
  BY StridesShrink DEF Pos
<1>2. l \in 0 .. Total(d) - 1 /\ h \in 0 .. Total(d) - 1
  BY <1>1
<1> QED
  BY <1>2 DEF Intervals

LEMMA BlockSeq ==
    ASSUME NEW d, Declared(d), NEW a \in 1 .. Len(d.axes), NEW p \in Int, NEW q \in Int,
           NEW T \in SUBSET Seq(Int \X Int)
    PROVE  Block(d, a, p, q, T) \in SUBSET Seq(Int \X Int)
<1> SUFFICES ASSUME NEW rest \in T PROVE Joined(d, a, p, q, rest) \in Seq(Int \X Int)
  BY DEF Block, Joined
<1> DEFINE h == <<AxisIndex(d.axes[a], q), AxisIndex(d.axes[a], p)>>
<1>1. h \in Int \X Int
  BY AxisIs, OffsetIs
<1> HIDE DEF h
<1>2. <<h>> \in Seq(Int \X Int) /\ rest \in Seq(Int \X Int)
  BY <1>1
<1>3. <<h>> \o rest \in Seq(Int \X Int)
  BY <1>2, ConcatProperties
<1> QED
  BY <1>3 DEF h, Joined

LEMMA EmitSeq ==
    ASSUME NEW d, Declared(d), NEW a \in 1 .. Len(d.axes), NEW x \in Intervals(d), NEW tails \in PieceSets(d)
    PROVE  Emit(d, a, x[1], x[2], tails) \in SUBSET Seq(Int \X Int)
<1> DEFINE s == Stride(d, a)
           lo == x[1]
           hi == x[2]
           first == lo \div s
           last == hi \div s
           l == lo % s
           h == hi % s
           Q == SUBSET Seq(Int \X Int)
<1>1. a \in 0 .. Len(d.axes)
  BY AxisIs
<1>2. s \in Pos /\ s \in Int /\ 1 <= s /\ Total(d) \in Int
  BY <1>1, StridesShrink DEF Pos
<1>3. lo \in Int /\ hi \in Int /\ lo <= hi
  BY <1>2 DEF Intervals
<1> HIDE DEF s, lo, hi
<1>4. /\ first \in Int /\ l \in 0 .. s - 1 /\ lo = (first * s) + l
      /\ last \in Int /\ h \in 0 .. s - 1 /\ hi = (last * s) + h
  BY <1>2, <1>3, DivIs
<1> HIDE DEF first, last, l, h
<1>5. first < last \/ (first = last /\ l <= h)
  BY <1>2, <1>3, <1>4, RowOrder
<1>6. \A i, j \in 0 .. s - 1 : i <= j => tails[<<i, j>>] \in Q
  BY <1>1, IntervalIs DEF s, PieceSets
<1>7. 0 \in 0 .. s - 1 /\ s - 1 \in 0 .. s - 1 /\ l <= s - 1 /\ 0 <= h /\ 0 <= s - 1
  BY <1>2, <1>4
<1>8. \A p, q \in Int : \A T \in Q : Block(d, a, p, q, T) \in Q
  BY BlockSeq
<1> DEFINE B1 == Block(d, a, first, first, tails[<<l, s - 1>>])
           B2 == Block(d, a, first + 1, last - 1, tails[<<0, s - 1>>])
           B3 == Block(d, a, last, last, tails[<<0, h>>])
           B4 == Block(d, a, first, last, tails[<<0, s - 1>>])
           B5 == Block(d, a, first, last, tails[<<l, h>>])
           E == Emit(d, a, lo, hi, tails)
<1>9. E = (IF l = 0 /\ h = s - 1 THEN B4
           ELSE IF first = last THEN B5
           ELSE B1 \cup (IF last > first + 1 THEN B2 ELSE {}) \cup B3)
  BY DEF Emit, s, first, last, l, h
<1>10. B1 \in Q /\ B3 \in Q /\ B4 \in Q
  BY <1>4, <1>6, <1>7, <1>8
<1>11. B2 \in Q
  <2>1. first + 1 \in Int /\ last - 1 \in Int
    BY <1>4
  <2> QED
    BY <1>6, <1>7, <1>8, <2>1
<1>12. first = last => B5 \in Q
  BY <1>4, <1>5, <1>6, <1>8
<1> HIDE DEF B1, B2, B3, B4, B5, E
<1>13. E \in Q
  BY <1>9, <1>10, <1>11, <1>12
<1> QED
  BY <1>13 DEF E, lo, hi

LEMMA EmittedAre ==
    ASSUME NEW d, Declared(d)
    PROVE  /\ \A x \in Intervals(d) : Emitted(d)[0][x] = {<<>>}
           /\ \A k \in 1 .. Len(d.axes) : \A x \in Intervals(d) :
                Emitted(d)[k][x] = Emit(d, Len(d.axes) - k + 1, x[1], x[2], Emitted(d)[k - 1])
<1> DEFINE n == Len(d.axes)
           I == Intervals(d)
           start == [x \in I |-> {<<>>}]
           Next1(k, e) == [x \in I |-> Emit(d, n - k + 1, x[1], x[2], e)]
           J == [k \in 0 .. n |-> PieceSets(d)]
           G == [y \in (1 .. n) \X PieceSets(d) |-> Next1(y[1], y[2])]
           emit == CHOOSE f : f = [k \in 0 .. n |-> IF k = 0 THEN start ELSE Next1(k, f[k - 1])]
<1>1. Emitted(d) = emit
  BY DEF Emitted
<1>2. n \in Nat
  BY AxisIs
<1>3. start \in PieceSets(d)
  <2>1. {<<>>} \in SUBSET Seq(Int \X Int)
    OBVIOUS
  <2> QED
    BY <2>1 DEF PieceSets
<1>4. \A k \in 1 .. n : \A e \in PieceSets(d) : G[<<k, e>>] = Next1(k, e) /\ Next1(k, e) \in PieceSets(d)
  <2> SUFFICES ASSUME NEW k \in 1 .. n, NEW e \in PieceSets(d) PROVE Next1(k, e) \in PieceSets(d)
    OBVIOUS
  <2>1. n - k + 1 \in 1 .. n
    BY <1>2
  <2>2. \A x \in I : Emit(d, n - k + 1, x[1], x[2], e) \in SUBSET Seq(Int \X Int)
    BY <2>1, EmitSeq
  <2> QED
    BY <2>2 DEF PieceSets
<1> HIDE DEF G, n, start, Next1
<1>5. PICK f : InSteps(f, n, start, G, J)
  <2>1. J \in [0 .. n -> SUBSET PieceSets(d)] /\ start \in J[0]
    BY <1>2, <1>3
  <2>2. \A k \in 1 .. n : \A e \in J[k - 1] : G[<<k, e>>] \in J[k]
    <3> SUFFICES ASSUME NEW k \in 1 .. n, NEW e \in J[k - 1] PROVE G[<<k, e>>] \in J[k]
      OBVIOUS
    <3>1. k - 1 \in 0 .. n /\ k \in 0 .. n
      BY <1>2
    <3> QED
      BY <1>4, <3>1
  <2> HIDE DEF J
  <2> QED
    BY <1>2, <2>1, <2>2, StepsInside
<1>6. f = [k \in 0 .. n |-> IF k = 0 THEN start ELSE Next1(k, f[k - 1])]
  <2>1. ASSUME NEW k \in 0 .. n, k # 0
        PROVE  G[<<k, f[k - 1]>>] = Next1(k, f[k - 1])
    <3>1. k - 1 \in 0 .. n /\ k \in 1 .. n
      BY <1>2, <2>1
    <3>2. f[k - 1] \in PieceSets(d)
      BY <1>5, <3>1 DEF InSteps
    <3> QED
      BY <1>4, <3>1, <3>2
  <2> QED
    BY <1>5, <2>1 DEF InSteps
<1>7. emit = [k \in 0 .. n |-> IF k = 0 THEN start ELSE Next1(k, emit[k - 1])]
  BY <1>6
<1> HIDE DEF emit
<1>8. emit[0] = start /\ \A k \in 1 .. n : emit[k] = Next1(k, emit[k - 1])
  <2>1. 0 \in 0 .. n /\ \A k \in 1 .. n : k \in 0 .. n /\ k # 0
    BY <1>2
  <2> QED
    BY <1>7, <2>1
<1>9. \A x \in I : emit[0][x] = {<<>>}
  BY <1>8 DEF start
<1>10. \A k \in 1 .. n : \A x \in I : emit[k][x] = Emit(d, n - k + 1, x[1], x[2], emit[k - 1])
  BY <1>8 DEF Next1
<1> QED
  BY <1>1, <1>9, <1>10 DEF n

LEMMA EmittedTile ==
    ASSUME NEW d, Declared(d), NEW low \in 0 .. Total(d) - 1, NEW high \in 0 .. Total(d) - 1, low <= high
    PROVE  Tiles(d, 0, Rectangles(d, low, high), low .. high)
<1> DEFINE n == Len(d.axes)
           em == Emitted(d)
           Tiled(k) == \A l, h \in 0 .. Stride(d, n - k) - 1 : l <= h => Tiles(d, n - k, em[k][<<l, h>>], l .. h)
           P == {k \in 0 .. n : Tiled(k)}
<1>1. n \in Nat
  BY AxisIs
<1>2. 0 \in P
  <2>1. n - 0 = n /\ n \in 0 .. n /\ 0 \in 0 .. n
    BY <1>1
  <2>2. Stride(d, n) = 1
    <3>1. Radix(n, Widths(d), Weights(d)) /\ Weights(d)[n] = Stride(d, n)
      BY <2>1, RadixOf
    <3> QED
      BY <3>1 DEF Radix
  <2>3. em[0][<<0, 0>>] = {<<>>}
    <3>1. 0 \in 0 .. Stride(d, n) - 1 /\ 0 <= 0
      BY <2>2
    <3>2. <<0, 0>> \in Intervals(d)
      BY <2>1, <3>1, IntervalIs
    <3> QED
      BY <3>2, EmittedAre
  <2>4. IsPiece(d, n, <<>>) /\ Part(d, n, <<>>) = {0}
    <3>1. n - n = 0 /\ (1 .. 0) = {} /\ (0 .. 1 - 1) = {0}
      BY <1>1
    <3>2. <<>> \in Seq(Int \X Int) /\ Len(<<>>) = 0
      OBVIOUS
    <3> HIDE DEF em
    <3>3. IsPiece(d, n, <<>>)
      BY <3>1, <3>2 DEF IsPiece
    <3>4. Part(d, n, <<>>) = {0}
      BY <2>2, <3>1 DEF Part
    <3> QED
      BY <3>3, <3>4
  <2>5. Tiles(d, n, {<<>>}, {0})
    BY <2>4 DEF Tiles
  <2>6. ASSUME NEW l \in 0 .. Stride(d, n) - 1, NEW h \in 0 .. Stride(d, n) - 1
        PROVE  l = 0 /\ h = 0 /\ l .. h = {0}
    BY <2>2, <2>6
  <2> QED
    BY <2>1, <2>3, <2>5, <2>6
<1>3. ASSUME NEW k \in 1 .. n, k - 1 \in P PROVE k \in P
  <2> DEFINE a == n - k + 1
  <2>1. a \in 1 .. n /\ n - k = a - 1 /\ n - (k - 1) = a /\ k \in 0 .. n /\ a - 1 \in 0 .. n
    BY <1>1
  <2>2. \A l, h \in 0 .. Stride(d, a) - 1 : l <= h => Tiles(d, a, em[k - 1][<<l, h>>], l .. h)
    BY <1>3, <2>1
  <2> HIDE DEF em, a
  <2>3. ASSUME NEW l \in 0 .. Stride(d, a - 1) - 1, NEW h \in 0 .. Stride(d, a - 1) - 1, l <= h
        PROVE  Tiles(d, a - 1, em[k][<<l, h>>], l .. h)
    <3>1. <<l, h>> \in Intervals(d)
      BY <2>1, <2>3, IntervalIs
    <3>2. em[k][<<l, h>>] = Emit(d, a, l, h, em[k - 1])
      BY <3>1, EmittedAre DEF em, a
    <3>3. Tiles(d, a - 1, Emit(d, a, l, h, em[k - 1]), l .. h)
      BY <2>1, <2>2, <2>3, EmitTiles
    <3> QED
      BY <3>2, <3>3
  <2> QED
    BY <2>1, <2>3
<1>4. Tiled(n)
  <2>1. n \in 0 .. n
    BY <1>1
  <2>2. \A k \in 0 .. n : k \in P
    <3> HIDE DEF P, n
    <3> QED
      BY <1>1, <1>2, <1>3, Upward
  <2> QED
    BY <2>1, <2>2
<1>5. n - n = 0
  BY <1>1
<1>6. Tiles(d, 0, em[n][<<low, high>>], low .. high)
  BY <1>4, <1>5 DEF Total
<1> QED
  BY <1>6 DEF Rectangles

LEMMA RectanglesAreExact == ASSUME SelectionInv PROVE RectanglesExact
<1> DEFINE d == asked
           bits(r) == {BitOf(d, t) - d.offset : t \in Elements(d, r)}
<1> SUFFICES ASSUME LayoutKnown(d), NEW low \in 0 .. Total(d) - 1, NEW high \in 0 .. Total(d) - 1, low <= high
             PROVE  /\ UNION {bits(r) : r \in Rectangles(d, low, high)} = low .. high
                    /\ \A r, q \in Rectangles(d, low, high) : r # q => bits(r) \cap bits(q) = {}
  BY DEF RectanglesExact
<1>1. d \in Declarations
  <2> SUFFICES ASSUME d = NoSignal PROVE FALSE
    BY DEF SelectionInv
  <2>1. ~d.coord
    BY DEF NoSignal
  <2> QED
    BY <2>1 DEF LayoutKnown
<1>2. Declared(d) /\ d.offset \in Nat
  BY <1>1, CoordinateAssumption DEF Declared
<1> HIDE DEF d
<1>3. Tiles(d, 0, Rectangles(d, low, high), low .. high)
  BY <1>2, EmittedTile
<1>4. ASSUME NEW r \in Rectangles(d, low, high) PROVE bits(r) = Part(d, 0, r)
  <2> DEFINE n == Len(d.axes)
  <2>1. IsPiece(d, 0, r)
    BY <1>3 DEF Tiles
  <2>2. n \in Nat /\ n - 0 = n /\ DOMAIN d.axes = 1 .. n /\ \A j \in 1 .. n : 0 + j = j
    BY <1>2, AxisIs
  <2>3. r \in Seq(Int \X Int) /\ Len(r) = n /\ DOMAIN r = 1 .. n
    BY <2>1, <2>2 DEF IsPiece
  <2>4. InBounds(d, r)
    BY <2>1, <2>2, <2>3 DEF IsPiece, InBounds
  <2>5. Chosen(d, r) = Part(d, 0, r)
    BY <2>2, <2>3 DEF Chosen, Part, Within, Total
  <2>6. {BitOf(d, t) : t \in Elements(d, r)} = {d.offset + b : b \in Chosen(d, r)}
    BY <1>2, <2>4, ElementsAreBits
  <2>7. \A b \in Chosen(d, r) : (d.offset + b) - d.offset = b
    <3>1. \A b \in Chosen(d, r) : b \in Int
      BY <1>2, RadixOf DEF Chosen, Pos
    <3> QED
      BY <1>2, <3>1
  <2>8. \A t \in Elements(d, r) : \E b \in Chosen(d, r) : BitOf(d, t) = d.offset + b
    BY <2>6
  <2>9. \A b \in Chosen(d, r) : \E t \in Elements(d, r) : BitOf(d, t) = d.offset + b
    BY <2>6
  <2>10. bits(r) = Chosen(d, r)
    BY <2>7, <2>8, <2>9
  <2> QED
    BY <2>5, <2>10
<1> HIDE DEF bits
<1> QED
  BY <1>3, <1>4 DEF Tiles

---------------------------------------------------------------------------
SelectSpec == CoordInit /\ [][CoordNext]_coordVars
SelectInv == SelectionInv /\ Resolved

LEMMA SelectInvInit == CoordInit => SelectInv
<1> SUFFICES ASSUME CoordInit PROVE SelectInv
  OBVIOUS
<1>1. asked = NoSignal /\ named = NoName /\ resolved = {}
  BY DEF CoordInit
<1>2. named.query = <<>> /\ <<>> \in Seq(Tokens)
  BY <1>1 DEF NoName
<1> QED
  BY <1>1, <1>2 DEF SelectInv, SelectionInv, Resolved

LEMMA SelectInvNext == SelectInv /\ [CoordNext]_coordVars => SelectInv'
<1> SUFFICES ASSUME SelectInv, [CoordNext]_coordVars PROVE SelectInv'
  OBVIOUS
<1>1. CASE ResolveName
  <2>1. PICK stored \in StoredNames, q \in Queries :
          named' = [stored |-> stored, query |-> q] /\ resolved' = ResolveSignalQuery(stored, q)
    BY <1>1 DEF ResolveName
  <2>2. named'.query = q /\ named'.stored = stored /\ q \in Seq(Tokens)
    BY <2>1, CoordinateAssumption
  <2>3. Resolved'
    BY <2>1, <2>2 DEF Resolved
  <2>4. SelectionInv'
    BY <1>1 DEF ResolveName, SelectInv, SelectionInv
  <2> QED
    BY <2>3, <2>4 DEF SelectInv
<1>2. CASE CheckSelection
  <2>1. SelectionInv'
    BY <1>2 DEF CheckSelection, SelectionInv
  <2>2. Resolved'
    BY <1>2 DEF CheckSelection, SelectInv, Resolved
  <2> QED
    BY <2>1, <2>2 DEF SelectInv
<1>3. CASE UNCHANGED coordVars
  BY <1>3 DEF coordVars, SelectInv, SelectionInv, Resolved
<1> QED
  BY <1>1, <1>2, <1>3 DEF CoordNext

(* A name is resolved to the longest stored name, and a selection that is  *)
(* not refused stands for the bits of its elements wherever it is turned   *)
(* into bits, pieces, a hint or a filter (GraphDb.cc:4495, 4669,           *)
(* TraceQuery.cc:714): for any declaration, number of axes, direction,     *)
(* width and bound on the pieces.                                          *)
THEOREM SelectionsAreExact == SelectSpec => []SelectionsExact
<1>1. CoordInit => SelectInv
  BY SelectInvInit
<1>2. SelectInv /\ [CoordNext]_coordVars => SelectInv'
  BY SelectInvNext
<1>3. SelectInv => SelectionsExact
  BY SelectionIsExact, RectanglesAreExact, HintIsExact, FilterIsExact, NamesAreLongest DEF SelectInv, SelectionsExact
<1> QED
  BY <1>1, <1>2, <1>3, PTL DEF SelectSpec

---------------------------------------------------------------------------
(* Traces: sequences.                                                      *)

IsList(s) == s \in Seq(ToSet(s))

LEMMA ListIs ==
    ASSUME NEW s, NEW S, s \in Seq(S)
    PROVE  IsList(s) /\ ToSet(s) \subseteq S
<1>1. \A i \in 1 .. Len(s) : s[i] \in ToSet(s)
  BY DEF ToSet
<1> QED
  BY <1>1 DEF IsList, ToSet

LEMMA JoinIs ==
    ASSUME NEW s, NEW t, IsList(s), IsList(t)
    PROVE  IsList(s \o t) /\ ToSet(s \o t) = ToSet(s) \cup ToSet(t)
<1> DEFINE S == ToSet(s) \cup ToSet(t)
<1>1. s \in Seq(S) /\ t \in Seq(S)
  BY DEF IsList
<1>2. s \o t \in Seq(S)
  BY <1>1
<1>3. ToSet(s \o t) \subseteq S
  BY <1>2, ListIs
<1>4. ToSet(s) \subseteq ToSet(s \o t)
  <2> SUFFICES ASSUME NEW i \in DOMAIN s PROVE s[i] \in ToSet(s \o t)
    BY DEF ToSet
  <2>1. i \in DOMAIN (s \o t) /\ (s \o t)[i] = s[i]
    BY <1>1
  <2> QED
    BY <2>1 DEF ToSet
<1>5. ToSet(t) \subseteq ToSet(s \o t)
  <2> SUFFICES ASSUME NEW i \in DOMAIN t PROVE t[i] \in ToSet(s \o t)
    BY DEF ToSet
  <2>1. Len(s) + i \in DOMAIN (s \o t) /\ (s \o t)[Len(s) + i] = t[i]
    BY <1>1
  <2> QED
    BY <2>1 DEF ToSet
<1> QED
  BY <1>2, <1>3, <1>4, <1>5, ListIs

LEMMA TailIs ==
    ASSUME NEW s, IsList(s), s # <<>>
    PROVE  IsList(Tail(s)) /\ ToSet(Tail(s)) \subseteq ToSet(s) /\ Head(s) \in ToSet(s)
           /\ ToSet(s) = {Head(s)} \cup ToSet(Tail(s))
<1>1. s \in Seq(ToSet(s)) /\ Len(s) \in Nat \ {0} /\ DOMAIN s = 1 .. Len(s)
  BY DEF IsList
<1>2. Tail(s) \in Seq(ToSet(s)) /\ Head(s) \in ToSet(s)
  BY <1>1
<1>3. IsList(Tail(s)) /\ ToSet(Tail(s)) \subseteq ToSet(s)
  BY <1>2, ListIs
<1>4. ASSUME NEW i \in DOMAIN s PROVE s[i] \in {Head(s)} \cup ToSet(Tail(s))
  <2>1. CASE i = 1
    BY <1>1, <2>1
  <2>2. CASE i # 1
    <3>1. i - 1 \in DOMAIN Tail(s) /\ Tail(s)[i - 1] = s[i]
      BY <1>1, <2>2
    <3> QED
      BY <3>1 DEF ToSet
  <2> QED
    BY <2>1, <2>2
<1>5. ToSet(s) \subseteq {Head(s)} \cup ToSet(Tail(s))
  BY <1>4 DEF ToSet
<1> QED
  BY <1>2, <1>3, <1>5

LEMMA KeptIs ==
    ASSUME NEW s, NEW S, S \subseteq DOMAIN s, IsList(s)
    PROVE  /\ IsList(Picked(s, S)) /\ ToSet(Picked(s, S)) = {s[i] : i \in S}
           /\ ToSet(Picked(s, S)) \subseteq ToSet(s)
<1>1. DOMAIN s = 1 .. Len(s) /\ IsFiniteSet(DOMAIN s) /\ Len(s) \in Nat
  BY DomainIs DEF IsList
<1>2. S \in SUBSET Int /\ IsFiniteSet(S)
  BY <1>1, FS_Subset
<1>3. /\ DOMAIN Ascending(S) = 1 .. Cardinality(S) /\ Cardinality(S) \in Nat
      /\ \A k \in DOMAIN Ascending(S) : Ascending(S)[k] \in S
      /\ \A i \in S : \E k \in DOMAIN Ascending(S) : Ascending(S)[k] = i
  BY <1>2, AscendingIs
<1>4. Picked(s, S) = [k \in 1 .. Cardinality(S) |-> s[Ascending(S)[k]]]
  BY <1>3 DEF Picked
<1>5. Picked(s, S) \in Seq({s[i] : i \in S})
  BY <1>3, <1>4
<1>6. {s[i] : i \in S} \subseteq ToSet(Picked(s, S))
  <2> SUFFICES ASSUME NEW i \in S PROVE s[i] \in ToSet(Picked(s, S))
    OBVIOUS
  <2>1. PICK k \in 1 .. Cardinality(S) : Ascending(S)[k] = i
    BY <1>3
  <2>2. k \in DOMAIN Picked(s, S) /\ Picked(s, S)[k] = s[i]
    BY <1>4, <2>1
  <2> QED
    BY <2>2 DEF ToSet
<1>7. {s[i] : i \in S} \subseteq ToSet(s)
  BY DEF ToSet
<1> QED
  BY <1>5, <1>6, <1>7, ListIs

LEMMA FlattenIs ==
    ASSUME NEW ss, NEW n \in Nat, ss = [i \in 1 .. n |-> ss[i]], \A i \in 1 .. n : IsList(ss[i])
    PROVE  IsList(FlattenSeq(ss)) /\ ToSet(FlattenSeq(ss)) \subseteq UNION {ToSet(ss[i]) : i \in 1 .. n}
<1> DEFINE A == UNION {ToSet(ss[i]) : i \in 1 .. n}
           Parts(f) == f = [i \in 1 .. n |-> IF i = 1 THEN ss[i] ELSE f[i - 1] \o ss[i]]
<1>0. \A i \in 1 .. n : ss[i] \in Seq(A)
  <2> SUFFICES ASSUME NEW i \in 1 .. n PROVE ss[i] \in Seq(A)
    OBVIOUS
  <2>1. ss[i] \in Seq(ToSet(ss[i])) /\ ToSet(ss[i]) \subseteq A
    BY DEF IsList
  <2> QED
    BY <2>1
<1>1. CASE n = 0
  <2>1. ss = <<>> /\ Len(ss) = 0
    BY <1>1
  <2>2. FlattenSeq(ss) = <<>>
    BY <2>1 DEF FlattenSeq
  <2> QED
    BY <2>2 DEF IsList, ToSet
<1>2. CASE n # 0
  <2> DEFINE S == Seq(A)
             J == [i \in 0 .. n - 1 |-> S]
             G == [y \in (1 .. n - 1) \X S |-> y[2] \o ss[y[1] + 1]]
  <2>0. n - 1 \in Nat /\ 1 \in 1 .. n
    BY <1>2
  <2>1. J \in [0 .. n - 1 -> SUBSET S] /\ ss[1] \in J[0]
    <3>1. ss[1] \in Seq(A) /\ 0 \in 0 .. n - 1
      BY <1>0, <2>0
    <3> HIDE DEF A
    <3> QED
      BY <3>1
  <2>2. \A i \in 1 .. n - 1 : \A x \in S : G[<<i, x>>] = x \o ss[i + 1] /\ G[<<i, x>>] \in S
    <3> SUFFICES ASSUME NEW i \in 1 .. n - 1, NEW x \in S
                 PROVE  G[<<i, x>>] = x \o ss[i + 1] /\ G[<<i, x>>] \in S
      OBVIOUS
    <3>1. i + 1 \in 1 .. n /\ <<i, x>> \in (1 .. n - 1) \X S
      BY <2>0
    <3>2. ss[i + 1] \in Seq(A)
      BY <1>0, <3>1
    <3> HIDE DEF A
    <3> QED
      BY <3>1, <3>2
  <2>3. \A i \in 1 .. n - 1 : i - 1 \in 0 .. n - 1 /\ i \in 0 .. n - 1
    BY <2>0
  <2>4. PICK h : InSteps(h, n - 1, ss[1], G, J)
    <3>1. \A i \in 1 .. n - 1 : \A x \in J[i - 1] : G[<<i, x>>] \in J[i]
      BY <2>2, <2>3
    <3> HIDE DEF J, G, S
    <3> QED
      BY <2>0, <2>1, <3>1, StepsInside
  <2> DEFINE g == [i \in 1 .. n |-> h[i - 1]]
  <2>5. \A i \in 0 .. n - 1 : h[i] \in S /\ h[i] = IF i = 0 THEN ss[1] ELSE G[<<i, h[i - 1]>>]
    <3>1. \A i \in 0 .. n - 1 : J[i] = S
      OBVIOUS
    <3>2. h = [i \in 0 .. n - 1 |-> IF i = 0 THEN ss[1] ELSE G[<<i, h[i - 1]>>]]
      BY <2>4 DEF InSteps
    <3>3. \A i \in 0 .. n - 1 : h[i] \in J[i]
      BY <2>4 DEF InSteps
    <3> HIDE DEF J, G, S
    <3> QED
      BY <3>1, <3>2, <3>3, Zenon
  <2>6. \A i \in 1 .. n : g[i] = IF i = 1 THEN ss[i] ELSE g[i - 1] \o ss[i]
    <3> SUFFICES ASSUME NEW i \in 1 .. n PROVE g[i] = IF i = 1 THEN ss[i] ELSE g[i - 1] \o ss[i]
      OBVIOUS
    <3>1. CASE i = 1
      <4>1. g[i] = h[0]
        <5>1. \A j \in 1 .. n : g[j] = h[j - 1]
          OBVIOUS
        <5>2. i - 1 = 0
          BY <3>1
        <5> HIDE DEF g
        <5> QED
          BY <5>1, <5>2
      <4>2. h[0] = ss[1]
        <5>1. 0 \in 0 .. n - 1
          BY <2>0
        <5> HIDE DEF G, S
        <5> QED
          BY <2>5, <5>1, Zenon
      <4> HIDE DEF g
      <4> QED
        BY <3>1, <4>1, <4>2, Zenon
    <3>2. CASE i # 1
      <4>1. i - 1 \in 1 .. n - 1 /\ i - 1 \in 1 .. n /\ (i - 1) + 1 = i /\ (i - 1) - 1 \in 0 .. n - 1
        BY <2>0, <3>2
      <4>2. g[i] = h[i - 1] /\ g[i - 1] = h[(i - 1) - 1]
        BY <4>1
      <4> HIDE DEF g, G, S
      <4>3. h[i - 1] = G[<<i - 1, h[(i - 1) - 1]>>] /\ h[(i - 1) - 1] \in S
        <5>1. i - 1 \in 0 .. n - 1 /\ i - 1 # 0
          BY <2>0, <4>1
        <5> QED
          BY <2>5, <4>1, <5>1, Zenon
      <4>4. G[<<i - 1, h[(i - 1) - 1]>>] = h[(i - 1) - 1] \o ss[i]
        BY <2>2, <4>1, <4>3
      <4> QED
        BY <3>2, <4>2, <4>3, <4>4
    <3> QED
      BY <3>1, <3>2
  <2>7. Parts(g)
    <3>1. g = [i \in 1 .. n |-> g[i]]
      OBVIOUS
    <3> HIDE DEF g
    <3> QED
      BY <2>6, <3>1
  <2> DEFINE p == CHOOSE f : Parts(f)
  <2>8. Parts(p)
    <3> HIDE DEF Parts, g
    <3> QED
      BY <2>7
  <2>9. ss \in Seq({ss[i] : i \in 1 .. n}) /\ Len(ss) = n
    BY <1>2
  <2>10. FlattenSeq(ss) = p[n]
    <3>1. Len(ss) # 0
      BY <1>2, <2>9
    <3> QED
      BY <2>9, <3>1, Zenon DEF FlattenSeq
  <2>11. \A i \in 0 .. n - 1 : p[i + 1] \in Seq(A)
    <3> HIDE DEF p, A, g, G, J, S
    <3> DEFINE d == [i \in 0 .. n - 1 |-> p[i + 1]]
               K == [i \in 0 .. n - 1 |-> Seq(A)]
    <3>1. d[0] \in K[0]
      BY <1>0, <2>0, <2>8
    <3>2. ASSUME NEW i \in 1 .. n - 1, d[i - 1] \in K[i - 1] PROVE d[i] \in K[i]
      <4>1. i - 1 \in 0 .. n - 1 /\ i \in 0 .. n - 1 /\ (i - 1) + 1 = i /\ i + 1 \in 1 .. n /\ i + 1 # 1
            /\ (i + 1) - 1 = i
        BY <2>0
      <4>2. p[i + 1] = p[i] \o ss[i + 1]
        BY <2>8, <4>1
      <4>3. p[i] \in Seq(A) /\ ss[i + 1] \in Seq(A)
        BY <1>0, <3>2, <4>1
      <4>4. d[i] = p[i + 1] /\ K[i] = Seq(A)
        BY <4>1
      <4>5. p[i] \o ss[i + 1] \in Seq(A)
        BY <4>3
      <4> HIDE DEF d, K
      <4> QED
        BY <4>2, <4>4, <4>5
    <3>3. \A i \in 0 .. n - 1 : d[i] \in K[i]
      <4> HIDE DEF d, K
      <4> QED
        BY <2>0, <3>1, <3>2, StepwiseIn
    <3> QED
      BY <3>3
  <2>12. p[n] \in Seq(A)
    <3>1. n - 1 \in 0 .. n - 1 /\ (n - 1) + 1 = n
      BY <2>0
    <3> HIDE DEF p, A
    <3> QED
      BY <2>11, <3>1
  <2> HIDE DEF A, p
  <2>13. IsList(p[n]) /\ ToSet(p[n]) \subseteq A
    BY <2>12, ListIs
  <2> QED
    BY <2>10, <2>13 DEF A
<1> QED
  BY <1>1, <1>2

---------------------------------------------------------------------------
(* Traces: what is asked.                                                  *)

TraceAsked == netlist \in Netlists /\ opts \in TraceRequests /\ opts.root \in Names(netlist)

(* A record that is listed for s, or a statement without coverage.         *)
IsEdgeOf(s, e) == \E q \in Names(netlist) : IsEndpointOf(netlist, q, e) /\ (q = s \/ e.cover = {})

LEMMA TraceAskedIs ==
    ASSUME TraceAsked
    PROVE  /\ IsNetlist(netlist) /\ IsList(netlist.names) /\ Names(netlist) = ToSet(netlist.names)
           /\ opts.root \in Names(netlist) /\ opts.depth \in Nat /\ opts.cone \in Nat
           /\ \A s \in Names(netlist) : netlist.width[s] \in Nat
           /\ \A s \in Names(netlist) :
                /\ IsList(netlist.drivers[s]) /\ IsList(netlist.loads[s])
                /\ \A e \in ToSet(netlist.drivers[s]) \cup ToSet(netlist.loads[s]) : IsEndpointOf(netlist, s, e)
           /\ opts.select = <<>> \/ opts.select \in Int \X Int
<1>1. IsNetlist(netlist) /\ opts.depth \in Nat /\ opts.cone \in Nat /\ opts.select \in {<<>>} \cup (Int \X Int)
  BY TraceAssumption DEF TraceAsked
<1>2. netlist.names \in Seq(Names(netlist)) /\ netlist.width \in [Names(netlist) -> Nat]
  BY <1>1 DEF IsNetlist
<1>3. IsList(netlist.names) /\ Names(netlist) = ToSet(netlist.names)
  BY <1>2 DEF IsList, Names
<1>4. \A s \in Names(netlist) :
                /\ IsList(netlist.drivers[s]) /\ IsList(netlist.loads[s])
                /\ \A e \in ToSet(netlist.drivers[s]) \cup ToSet(netlist.loads[s]) : IsEndpointOf(netlist, s, e)
  BY <1>1 DEF IsNetlist, IsList
<1> QED
  BY <1>1, <1>2, <1>3, <1>4 DEF TraceAsked

LEMMA BitsAre ==
    ASSUME TraceAsked, NEW s \in Names(netlist)
    PROVE  /\ Bits(s) # {} /\ \A w \in Whole(netlist, s) : w = Bits(s) /\ w = 0 .. netlist.width[s] - 1
           /\ Whole(netlist, s) = {} <=> netlist.width[s] = 0
           /\ Whole(netlist, s) = {} => Bits(s) = {NoBit}
           /\ \A b \in 0 .. netlist.width[s] - 1 : b \in Bits(s) /\ b \in Int /\ b # NoBit
           /\ Whole(netlist, s) # {} => Whole(netlist, s) = {Bits(s)}
<1>1. netlist.width[s] \in Nat
  BY TraceAskedIs
<1>2. CASE netlist.width[s] = 0
  BY <1>1, <1>2 DEF Bits, Whole, NoBit
<1>3. CASE netlist.width[s] # 0
  <2>1. 0 \in 0 .. netlist.width[s] - 1 /\ Bits(s) = 0 .. netlist.width[s] - 1
    BY <1>1, <1>3 DEF Bits
  <2>2. Whole(netlist, s) = {0 .. netlist.width[s] - 1}
    BY <1>1, <1>3 DEF Whole
  <2>3. \A b \in 0 .. netlist.width[s] - 1 : b \in Int /\ b # NoBit
    BY <1>1 DEF NoBit
  <2> QED
    BY <1>3, <2>1, <2>2, <2>3
<1> QED
  BY <1>2, <1>3

LEMMA FallbackIs ==
    ASSUME TraceAsked, NEW s \in Names(netlist), netlist.drivers[s] = <<>>
    PROVE  /\ IsList(FindFallbackDriverEndpoints(netlist, s))
           /\ \A e \in ToSet(FindFallbackDriverEndpoints(netlist, s)) :
                e.cover = {} /\ \E q \in Names(netlist) : IsEndpointOf(netlist, q, e)
<1> DEFINE n == Len(netlist.names)
           list(i) == netlist.loads[netlist.names[i]]
           at(i) == {j \in DOMAIN list(i) : s \in ToSet(list(i)[j].lhs)}
           ss == [i \in 1 .. n |-> Picked(list(i), at(i))]
<1>1. n \in Nat /\ DOMAIN netlist.names = 1 .. n /\ \A i \in 1 .. n : netlist.names[i] \in Names(netlist)
  BY TraceAskedIs DEF IsList, Names, ToSet
<1>2. ASSUME NEW i \in 1 .. n
      PROVE  /\ IsList(ss[i])
             /\ \A e \in ToSet(ss[i]) : \E q \in Names(netlist) : IsEndpointOf(netlist, q, e)
  <2>1. IsList(list(i)) /\ \A e \in ToSet(list(i)) : IsEndpointOf(netlist, netlist.names[i], e)
    BY <1>1, TraceAskedIs
  <2>2. IsList(Picked(list(i), at(i))) /\ ToSet(Picked(list(i), at(i))) \subseteq ToSet(list(i))
    <3>1. at(i) \subseteq DOMAIN list(i)
      OBVIOUS
    <3> HIDE DEF at, list
    <3> QED
      BY <2>1, <3>1, KeptIs DEF list
  <2>3. ss[i] = Picked(list(i), at(i))
    OBVIOUS
  <2> HIDE DEF ss, at, list
  <2> QED
    BY <1>1, <2>1, <2>2, <2>3
<1>3. FindFallbackDriverEndpoints(netlist, s) = FlattenSeq(ss)
  BY <1>1 DEF FindFallbackDriverEndpoints
<1>4. ss = [i \in 1 .. n |-> ss[i]]
  OBVIOUS
<1>5. IsList(FlattenSeq(ss)) /\ ToSet(FlattenSeq(ss)) \subseteq UNION {ToSet(ss[i]) : i \in 1 .. n}
  <2> HIDE DEF ss, n
  <2> QED
    BY <1>1, <1>2, <1>4, FlattenIs
<1>6. \A e \in ToSet(FindFallbackDriverEndpoints(netlist, s)) : e.cover = {}
  BY TraceAskedIs DEF IsNetlist
<1>7. \A e \in ToSet(FlattenSeq(ss)) : \E i \in 1 .. n : e \in ToSet(ss[i])
  BY <1>5
<1> HIDE DEF ss, n
<1> QED
  BY <1>2, <1>3, <1>5, <1>6, <1>7

LEMMA EdgesAre ==
    ASSUME TraceAsked, NEW s \in Names(netlist)
    PROVE  IsList(Edges(s)) /\ \A e \in ToSet(Edges(s)) : IsEdgeOf(s, e)
<1>1. CASE OfFallback(s)
  <2>1. netlist.drivers[s] = <<>> /\ Edges(s) = FindFallbackDriverEndpoints(netlist, s)
    BY <1>1 DEF OfFallback, Edges
  <2> QED
    BY <2>1, FallbackIs DEF IsEdgeOf
<1>2. CASE ~OfFallback(s)
  <2>1. Edges(s) = netlist.drivers[s] \/ Edges(s) = netlist.loads[s]
    BY <1>2 DEF Edges, Recorded
  <2> QED
    BY <2>1, TraceAskedIs DEF IsEdgeOf
<1> QED
  BY <1>1, <1>2

---------------------------------------------------------------------------
(* The reference, step by step.                                            *)

LEMMA StepsAre ==
    ASSUME TraceAsked, NEW exact, NEW any
    PROVE  /\ Steps(exact, any)[0] = {<<opts.root, b, 0>> : b \in Selected}
           /\ \A k \in Nat : k < opts.depth + 9 =>
                Steps(exact, any)[k + 1] = Steps(exact, any)[k] \cup Further(Steps(exact, any)[k], exact, any)
<1> DEFINE A == {<<opts.root, b, 0>> : b \in Selected}
           next(f, k) == IF k = 0 THEN A ELSE f[k - 1] \cup Further(f[k - 1], exact, any)
           IsReach(f, m) == f = [k \in 0 .. m |-> next(f, k)]
           T == {m \in Nat : \E f : IsReach(f, m)}
<1>0. opts.depth + 9 \in Nat
  BY TraceAskedIs
<1>1. 0 \in T
  <2> DEFINE g == [k \in 0 .. 0 |-> A]
  <2>1. g = [k \in 0 .. 0 |-> next(g, k)]
    <3>1. \A k \in 0 .. 0 : next(g, k) = A
      OBVIOUS
    <3> HIDE DEF next
    <3> QED
      BY <3>1
  <2> HIDE DEF g, next
  <2> QED
    BY <2>1
<1>2. ASSUME NEW m \in T PROVE m + 1 \in T
  <2>1. PICK f : IsReach(f, m)
    OBVIOUS
  <2>2. m \in Nat
    OBVIOUS
  <2> HIDE DEF T
  <2> DEFINE g == [k \in 0 .. m + 1 |-> IF k = m + 1 THEN f[m] \cup Further(f[m], exact, any) ELSE f[k]]
  <2>3. \A k \in 0 .. m : f[k] = next(f, k)
    <3>1. \A h : \A k \in 0 .. m : h = [j \in 0 .. m |-> next(f, j)] => h[k] = next(f, k)
      OBVIOUS
    <3> HIDE DEF next
    <3> QED
      BY <2>1, <3>1
  <2>4. \A k \in 0 .. m : g[k] = f[k]
    BY <2>2
  <2>5. g[m + 1] = f[m] \cup Further(f[m], exact, any)
    BY <2>2
  <2>6. \A k \in 0 .. m + 1 : g[k] = next(g, k)
    <3> SUFFICES ASSUME NEW k \in 0 .. m + 1 PROVE g[k] = next(g, k)
      OBVIOUS
    <3> HIDE DEF g
    <3>1. CASE k = m + 1
      <4>1. k # 0 /\ k - 1 = m /\ m \in 0 .. m
        BY <2>2, <3>1
      <4>2. g[m] = f[m]
        BY <2>4, <4>1
      <4> QED
        BY <2>5, <3>1, <4>1, <4>2
    <3>2. CASE k = 0
      <4>1. k \in 0 .. m
        BY <2>2, <3>2
      <4> QED
        BY <2>3, <2>4, <3>2, <4>1
    <3>3. CASE k # m + 1 /\ k # 0
      <4>1. k \in 0 .. m /\ k - 1 \in 0 .. m
        BY <2>2, <3>3
      <4>2. g[k] = f[k] /\ g[k - 1] = f[k - 1] /\ f[k] = next(f, k)
        BY <2>3, <2>4, <4>1
      <4> QED
        BY <3>3, <4>2
    <3> QED
      BY <3>1, <3>2, <3>3
  <2>7. IsReach(g, m + 1)
    <3>1. g = [k \in 0 .. m + 1 |-> g[k]]
      OBVIOUS
    <3> HIDE DEF g, next
    <3> QED
      BY <2>6, <3>1
  <2> HIDE DEF g, IsReach
  <2> QED
    BY <2>2, <2>7 DEF T
<1>3. T = Nat
  <2> HIDE DEF T
  <2>1. T \in SUBSET Nat
    BY DEF T
  <2> QED
    BY <1>1, <1>2, <2>1, SetInduction
<1> DEFINE D == opts.depth + 9
           p == CHOOSE f : IsReach(f, D)
<1>4. IsReach(p, D)
  <2>1. D \in T
    BY <1>0, <1>3
  <2>2. \E f : IsReach(f, D)
    <3> HIDE DEF IsReach, D
    <3> QED
      BY <2>1
  <2> HIDE DEF IsReach, T
  <2> QED
    BY <2>2
<1>5. Steps(exact, any) = p
  BY DEF Steps
<1> HIDE DEF p, T
<1>6. \A k \in 0 .. D : p[k] = next(p, k)
  <2>1. \A h : \A k \in 0 .. D : h = [j \in 0 .. D |-> next(p, j)] => h[k] = next(p, k)
    OBVIOUS
  <2> HIDE DEF next, D
  <2> QED
    BY <1>4, <2>1
<1>7. p[0] = A
  <2>1. 0 \in 0 .. D
    BY <1>0
  <2>2. next(p, 0) = A
    OBVIOUS
  <2> HIDE DEF D, next
  <2> QED
    BY <1>6, <2>1, <2>2
<1>8. ASSUME NEW k \in Nat, k < D PROVE p[k + 1] = p[k] \cup Further(p[k], exact, any)
  <2>1. k + 1 \in 0 .. D /\ k + 1 # 0 /\ (k + 1) - 1 = k
    <3>1. D \in Nat
      BY <1>0
    <3> HIDE DEF D
    <3> QED
      BY <1>8, <3>1
  <2>2. p[k + 1] = next(p, k + 1)
    <3> HIDE DEF D, next
    <3> QED
      BY <1>6, <2>1
  <2>3. next(p, k + 1) = p[k] \cup Further(p[k], exact, any)
    <3>1. \A i \in Int : i # 0 /\ i - 1 = k => next(p, i) = p[k] \cup Further(p[k], exact, any)
      OBVIOUS
    <3> HIDE DEF next
    <3> QED
      BY <2>1, <3>1
  <2> HIDE DEF next
  <2> QED
    BY <2>2, <2>3
<1> QED
  BY <1>5, <1>7, <1>8

LEMMA StepsGrow ==
    ASSUME TraceAsked, NEW any, NEW k \in Nat, k <= opts.depth + 9
    PROVE  Steps(FALSE, any)[k] \subseteq Steps(FALSE, any)[opts.depth + 9]
<1> DEFINE R == Steps(FALSE, any)
           D == opts.depth + 9
           T == {m \in Nat : k + m <= D => R[k] \subseteq R[k + m]}
<1>0. D \in Nat
  BY TraceAskedIs
<1>1. \A i \in Nat : i < D => R[i] \subseteq R[i + 1]
  <2>1. \A i \in Nat : i < D => R[i + 1] = R[i] \cup Further(R[i], FALSE, any)
    BY StepsAre
  <2> HIDE DEF R
  <2> QED
    BY <2>1
<1> HIDE DEF R, D
<1>2. 0 \in T
  BY <1>0
<1>3. ASSUME NEW m \in T PROVE m + 1 \in T
  <2> SUFFICES ASSUME k + (m + 1) <= D PROVE R[k] \subseteq R[k + (m + 1)]
    OBVIOUS
  <2>1. k + m \in Nat /\ k + m < D /\ k + m <= D /\ (k + m) + 1 = k + (m + 1)
    BY <1>0
  <2> QED
    BY <1>1, <2>1
<1>4. T = Nat
  <2> HIDE DEF T
  <2>1. T \in SUBSET Nat
    BY DEF T
  <2> QED
    BY <1>2, <1>3, <2>1, SetInduction
<1>5. D - k \in Nat /\ k + (D - k) = D /\ D <= D
  BY <1>0 DEF D
<1>6. D - k \in T
  BY <1>4, <1>5
<1> QED
  BY <1>5, <1>6 DEF R, D

LEMMA NextNode ==
    ASSUME TraceAsked, NEW any, NEW k \in Nat, k < opts.depth + 9, NEW x \in Steps(FALSE, any)[k], x[1] \notin opts.stopAt,
           NEW e \in InUse(x, FALSE, any), NEW y \in Neighbours(e, x, any), any \/ y[2] \in Bits(y[1])
    PROVE  y \in Steps(FALSE, any)[k + 1]
<1>1. x \in Entered(Steps(FALSE, any)[k])
  BY DEF Entered
<1>2. y \in UNION {Neighbours(g, x, any) : g \in InUse(x, FALSE, any)}
  OBVIOUS
<1>3. y \in UNION {UNION {Neighbours(g, z, any) : g \in InUse(z, FALSE, any)} : z \in Entered(Steps(FALSE, any)[k])}
  BY <1>1, <1>2
<1>4. y \in Further(Steps(FALSE, any)[k], FALSE, any)
  BY <1>3, Zenon DEF Further
<1>5. Steps(FALSE, any)[k + 1] = Steps(FALSE, any)[k] \cup Further(Steps(FALSE, any)[k], FALSE, any)
  BY StepsAre
<1> QED
  BY <1>4, <1>5

LEMMA SiteReached ==
    ASSUME TraceAsked, NEW any, NEW k \in Nat, k <= opts.depth + 9, NEW x \in Steps(FALSE, any)[k], x[1] \notin opts.stopAt,
           NEW e \in InUse(x, FALSE, any), e.kind = "expr"
    PROVE  e.site \in Sites(FALSE, any)
<1>1. x \in Reached(FALSE, any)
  BY StepsGrow DEF Reached, Entered
<1>2. e.site \in {f.site : f \in {g \in InUse(x, FALSE, any) : g.kind = "expr"}}
  OBVIOUS
<1> QED
  BY <1>1, <1>2, Zenon DEF Sites

---------------------------------------------------------------------------
(* The bits that a call is about, and what a record says of them.          *)

TaskBits(t) ==
  IF t.domain # {} THEN UNION t.domain
  ELSE IF t.sig = opts.root /\ t.depth = 0 THEN Selected ELSE Bits(t.sig)

LEMMA OneRange ==
    ASSUME NEW e, IsEndpointRecord(e)
    PROVE  \/ ParseExactBitMapText(e.bits) = {}
           \/ \E r \in Int \X Int : ParseExactBitMapText(e.bits) = {r} /\ ParseExactBitRange(e.bits) = {r}
<1> DEFINE bits == e.bits
<1>1. bits \in Seq({Symbolic} \cup (Int \X Int))
  BY DEF IsEndpointRecord
<1>2. CASE Len(bits) = 1 /\ bits[1] # Symbolic
  <2>1. DOMAIN bits = {1} /\ bits[1] \in Int \X Int
    BY <1>1, <1>2
  <2>2. ParseExactBitMapText(bits) = {bits[1]} /\ ParseExactBitRange(bits) = {bits[1]}
    BY <1>2, <2>1 DEF ParseExactBitMapText, ParseExactBitRange
  <2> QED
    BY <2>1, <2>2
<1>3. CASE ~(Len(bits) = 1 /\ bits[1] # Symbolic)
  <2>1. Len(bits) = 1 => DOMAIN bits = {1}
    BY <1>1
  <2>2. ParseExactBitMapText(bits) = {}
    BY <1>3, <2>1 DEF ParseExactBitMapText
  <2> QED
    BY <2>2
<1> QED
  BY <1>2, <1>3

LEMMA NoBits == ParseExactBitMapText(<<>>) = {}
BY DEF ParseExactBitMapText

(* A record that is no marker concerns a bit of its signal ...             *)
LEMMA SomeBit ==
    ASSUME TraceAsked, NEW s \in Names(netlist), NEW e, IsEdgeOf(s, e), ~Marker(e)
    PROVE  \E b \in Bits(s) : Concerns(e, s, b)
<1>1. PICK q \in Names(netlist) : IsEndpointOf(netlist, q, e) /\ (q = s \/ e.cover = {})
  BY DEF IsEdgeOf
<1>2. Bits(s) # {}
  BY BitsAre
<1>3. CASE e.cover # {}
  <2>1. q = s /\ e.cover \subseteq 0 .. netlist.width[s] - 1
    BY <1>1, <1>3 DEF IsEndpointOf
  <2>2. PICK b \in e.cover : b \in Bits(s)
    BY <1>3, <2>1, BitsAre
  <2> QED
    BY <1>3, <2>2 DEF Concerns
<1>4. CASE e.cover = {} /\ (e.path # s \/ e.approx \/ ParseExactBitMapText(e.bits) = {})
  BY <1>2, <1>4 DEF Concerns
<1>5. CASE e.cover = {} /\ e.path = s /\ ParseExactBitMapText(e.bits) # {}
  <2>1. PICK r \in Int \X Int : ParseExactBitMapText(e.bits) = {r}
    BY <1>1, <1>5, OneRange DEF IsEndpointOf
  <2>2. CASE Whole(netlist, s) = {}
    <3>1. NoBit \in Bits(s)
      BY <2>2, BitsAre
    <3> QED
      BY <1>5, <3>1 DEF Concerns
  <2>3. CASE Whole(netlist, s) # {}
    <3>1. PICK w \in Whole(netlist, s) : w = Bits(s)
      BY <2>3, BitsAre
    <3>2. Span(r) \cap w # {}
      BY <1>1, <1>5, <2>1, <3>1 DEF IsEndpointOf
    <3>3. PICK b \in Bits(s) : b \in Span(r)
      BY <3>1, <3>2
    <3> QED
      BY <1>5, <2>1, <3>3 DEF Concerns
  <2> QED
    BY <2>2, <2>3
<1> QED
  BY <1>3, <1>4, <1>5

(* ... and one of the selected bits, if it is not filtered at the root.    *)
LEMMA SelectedBit ==
    ASSUME TraceAsked, NEW e, IsEdgeOf(opts.root, e), ~Marker(e), RootMatches(e)
    PROVE  \E b \in Selected : Concerns(e, opts.root, b)
<1>1. CASE opts.select = <<>>
  BY <1>1, SomeBit, TraceAskedIs DEF Selected
<1>2. CASE opts.select # <<>> /\ e.cover # {}
  <2>1. Selected = Span(opts.select)
    BY <1>2 DEF Selected
  <2>2. RootDomain # {}
    BY <1>2 DEF RootMatches, Marker
  <2>3. RootDomain = {Span(opts.select)}
    BY <2>2 DEF RootDomain
  <2>4. PICK b \in e.cover : b \in Selected
    BY <1>2, <2>1, <2>3 DEF RootMatches
  <2> QED
    BY <1>2, <2>4 DEF Concerns
<1>3. CASE opts.select # <<>> /\ e.cover = {}
  <2>1. Selected = Span(opts.select) /\ opts.select \in Int \X Int
    BY <1>3, TraceAskedIs DEF Selected
  <2>2. PICK q \in Names(netlist) : IsEndpointOf(netlist, q, e)
    BY DEF IsEdgeOf
  <2>3. CASE e.path # opts.root \/ e.approx \/ ParseExactBitMapText(e.bits) = {}
    <3>1. PICK b \in Int : b \in Span(opts.select)
      BY <2>1, RangeHas
    <3> QED
      BY <1>3, <2>1, <2>3, <3>1 DEF Concerns
  <2>4. CASE e.path = opts.root /\ ~e.approx /\ ParseExactBitMapText(e.bits) # {}
    <3>1. PICK r \in Int \X Int : ParseExactBitMapText(e.bits) = {r} /\ ParseExactBitRange(e.bits) = {r}
      BY <2>2, <2>4, OneRange DEF IsEndpointOf
    <3>2. e.kind # "port"
      <4>1. e.kind = "port" => e.bits = <<>>
        BY <2>2 DEF IsEndpointOf
      <4> QED
        BY <2>4, <4>1, NoBits
    <3>3. RangesOverlap(r, opts.select)
      BY <1>3, <2>4, <3>1, <3>2 DEF RootMatches, EndpointMatchesSignalSelect
    <3>4. PICK b \in Int : b \in Span(r) /\ b \in Span(opts.select)
      BY <2>1, <3>3, OverlapIs
    <3> QED
      BY <1>3, <2>1, <3>1, <3>4 DEF Concerns
  <2> QED
    BY <2>3, <2>4
<1> QED
  BY <1>1, <1>2, <1>3

---------------------------------------------------------------------------
(* What a visit makes of the edges of its signal.                          *)

HasFields(e) ==
  /\ e = [x \in DOMAIN e |-> e[x]] /\ e.approx \in BOOLEAN
  /\ {"kind", "path", "dir", "lhs", "rhs", "site", "bits", "approx", "cover", "legacy", "merged", "routes", "unresolved",
      "constant"} \subseteq DOMAIN e
SameRecord(o, e) ==
  /\ e.kind = o.kind /\ e.path = o.path /\ e.routes = o.routes /\ e.unresolved = o.unresolved /\ e.constant = o.constant
  /\ e.lhs = o.lhs /\ e.rhs = o.rhs /\ e.site = o.site

LEMMA EdgeHasFields ==
    ASSUME NEW s, NEW e, IsEdgeOf(s, e)
    PROVE  HasFields(e) /\ IsEndpointRecord(e) /\ SameRecord(e, e)
<1>1. PICK q \in Names(netlist) : IsEndpointOf(netlist, q, e)
  BY DEF IsEdgeOf
<1>2. IsEndpointRecord(e) /\ {"kind", "path", "dir", "lhs", "rhs", "site"} \subseteq DOMAIN e
  BY <1>1 DEF IsEndpointOf
<1> QED
  BY <1>2 DEF HasFields, SameRecord, IsEndpointRecord

(* The records that a copy with other bits stands for.                     *)
LEMMA Rebitted ==
    ASSUME NEW e, HasFields(e), NEW bits, NEW m
    PROVE  LET c == [e EXCEPT !.bits = bits, !.merged = m]
           IN  HasFields(c) /\ SameRecord(e, c) /\ c.cover = e.cover /\ c.approx = e.approx
BY DEF HasFields, SameRecord

LEMMA MarkedApprox ==
    ASSUME NEW e, HasFields(e), NEW a \in BOOLEAN
    PROVE  LET c == [e EXCEPT !.approx = a]
           IN  HasFields(c) /\ SameRecord(e, c) /\ c.cover = e.cover /\ c.approx = a
BY DEF HasFields, SameRecord

LEMMA AsLegacy ==
    ASSUME NEW e, HasFields(e)
    PROVE  LET c == [e EXCEPT !.cover = {}, !.legacy = TRUE]
           IN  HasFields(c) /\ SameRecord(e, c)
BY DEF HasFields, SameRecord

LEMMA NativeIs ==
    ASSUME TraceAsked, NEW s \in Names(netlist), NEW e, IsEndpointRecord(e)
    PROVE  \/ PortNativeDomain(netlist, e, s) = {}
           \/ \E N : /\ PortNativeDomain(netlist, e, s) = {N} /\ N # {} /\ e.path = s /\ ~e.approx
                     /\ N \subseteq Bits(s) /\ N \subseteq 0 .. netlist.width[s] - 1 /\ Whole(netlist, s) = {Bits(s)}
                     /\ \A b \in N : \A r \in ParseExactBitMapText(e.bits) : b \in Span(r)
<1> SUFFICES ASSUME PortNativeDomain(netlist, e, s) # {}
             PROVE  \E N : /\ PortNativeDomain(netlist, e, s) = {N} /\ N # {} /\ e.path = s /\ ~e.approx
                     /\ N \subseteq Bits(s) /\ N \subseteq 0 .. netlist.width[s] - 1 /\ Whole(netlist, s) = {Bits(s)}
                     /\ \A b \in N : \A r \in ParseExactBitMapText(e.bits) : b \in Span(r)
  OBVIOUS
<1>1. e.path = s /\ ~e.approx
  BY DEF PortNativeDomain
<1>2. CASE e.bits = <<>>
  <2>1. PortNativeDomain(netlist, e, s) = Whole(netlist, s)
    BY <1>1, <1>2 DEF PortNativeDomain
  <2>2. PortNativeDomain(netlist, e, s) = {Bits(s)} /\ Whole(netlist, s) = {Bits(s)} /\ Bits(s) # {}
        /\ Bits(s) = 0 .. netlist.width[s] - 1
    BY <2>1, BitsAre
  <2> QED
    BY <1>1, <1>2, <2>2, NoBits
<1>3. CASE e.bits # <<>>
  <2>1. PortNativeDomain(netlist, e, s)
        = {Span(r) : r \in {q \in ParseExactBitMapText(e.bits) : \E w \in Whole(netlist, s) : Span(q) \subseteq w}}
    BY <1>1, <1>3 DEF PortNativeDomain
  <2>2. PICK r \in ParseExactBitMapText(e.bits) : \E w \in Whole(netlist, s) : Span(r) \subseteq w
    BY <2>1
  <2>3. PICK q \in Int \X Int : ParseExactBitMapText(e.bits) = {q}
    BY <2>2, OneRange
  <2>4. r = q
    BY <2>2, <2>3
  <2>5. PortNativeDomain(netlist, e, s) = {Span(q)}
    BY <2>1, <2>2, <2>3, <2>4
  <2>6. Whole(netlist, s) = {Bits(s)} /\ Span(q) \subseteq Bits(s) /\ Bits(s) = 0 .. netlist.width[s] - 1
    <3>1. PICK w \in Whole(netlist, s) : Span(q) \subseteq w
      BY <2>2, <2>4
    <3> QED
      BY <3>1, BitsAre
  <2>7. Span(q) # {}
    BY RangeHas
  <2> QED
    BY <1>1, <2>3, <2>5, <2>6, <2>7
<1> QED
  BY <1>2, <1>3

LEMMA RunsListed ==
    ASSUME NEW n \in Int, NEW bits \in SUBSET (0 .. n)
    PROVE  \E m \in Nat : DOMAIN Runs(bits) = 1 .. m
<1> DEFINE low == {b \in bits : b - 1 \notin bits}
<1>1. low \in SUBSET Int /\ IsFiniteSet(low)
  <2>1. IsFiniteSet(0 .. n)
    BY FS_Interval
  <2>2. low \subseteq 0 .. n
    OBVIOUS
  <2>3. 0 .. n \subseteq Int
    OBVIOUS
  <2>4. IsFiniteSet(low)
    <3> HIDE DEF low
    <3> QED
      BY <2>1, <2>2, FS_Subset
  <2> QED
    BY <2>2, <2>3, <2>4
<1>2. DOMAIN Ascending(low) = 1 .. Cardinality(low) /\ Cardinality(low) \in Nat
  <2> HIDE DEF low
  <2> QED
    BY <1>1, AscendingIs
<1>3. DOMAIN Runs(bits) = DOMAIN Ascending(low)
  BY DEF Runs
<1> HIDE DEF low
<1> QED
  BY <1>2, <1>3

LEMMA PartIs ==
    ASSUME TraceAsked, NEW s \in Names(netlist), NEW o, IsEdgeOf(s, o), NEW D, D # {},
           SessionConstrainPortEndpoint(netlist, o, s, D) # {}
    PROVE  \E p : /\ SessionConstrainPortEndpoint(netlist, o, s, D) = {p} /\ IsList(p)
                  /\ \A e \in ToSet(p) : /\ HasFields(e) /\ SameRecord(o, e) /\ e.cover = o.cover /\ e.approx = o.approx
                                         /\ ~Marker(o) => \E b \in D : Concerns(o, s, b)
<1> DEFINE P == SessionConstrainPortEndpoint(netlist, o, s, D)
           Good(e) == /\ HasFields(e) /\ SameRecord(o, e) /\ e.cover = o.cover /\ e.approx = o.approx
                      /\ ~Marker(o) => \E b \in D : Concerns(o, s, b)
<1>0. IsEndpointRecord(o) /\ HasFields(o) /\ SameRecord(o, o)
  BY EdgeHasFields
<1>1. IsList(<<>>) /\ ToSet(<<>>) = {} /\ IsList(<<o>>) /\ ToSet(<<o>>) = {o}
  BY DEF IsList, ToSet
<1>2. CASE o.cover # {}
  <2>1. P = {IF o.cover \cap D = {} THEN <<>> ELSE <<o>>}
    BY <1>2 DEF SessionConstrainPortEndpoint
  <2>2. (o.cover \cap D # {} /\ ~Marker(o)) => \E b \in D : Concerns(o, s, b)
    BY <1>2 DEF Concerns
  <2> QED
    BY <1>0, <1>1, <2>1, <2>2
<1>3. CASE o.cover = {} /\ Whole(netlist, s) = {D}
  <2>1. P = {<<o>>}
    BY <1>3 DEF SessionConstrainPortEndpoint
  <2>2. D = Bits(s)
    BY <1>3, BitsAre
  <2>3. ~Marker(o) => \E b \in D : Concerns(o, s, b)
    BY <2>2, SomeBit
  <2> QED
    BY <1>0, <1>1, <2>1, <2>3
<1>4. CASE o.cover = {} /\ Whole(netlist, s) # {D}
  <2> DEFINE runs(N) == Runs(N \cap D)
             copies(N) == [k \in DOMAIN runs(N) |-> [o EXCEPT !.bits = <<runs(N)[k]>>, !.merged = FALSE]]
             clip(N) == IF N \cap D = {} THEN <<>> ELSE IF N \subseteq D THEN <<o>> ELSE copies(N)
  <2>1. P = {clip(N) : N \in PortNativeDomain(netlist, o, s)}
    BY <1>4 DEF SessionConstrainPortEndpoint
  <2>2. PICK N : /\ PortNativeDomain(netlist, o, s) = {N} /\ N # {} /\ o.path = s /\ ~o.approx
                 /\ N \subseteq 0 .. netlist.width[s] - 1
                 /\ \A b \in N : \A r \in ParseExactBitMapText(o.bits) : b \in Span(r)
    <3>1. PortNativeDomain(netlist, o, s) # {}
      <4> HIDE DEF clip
      <4> QED
        BY <2>1
    <3> QED
      BY <1>0, <3>1, NativeIs
  <2>3. P = {clip(N)}
    <3> HIDE DEF clip
    <3> QED
      BY <2>1, <2>2
  <2>4. (N \cap D # {} /\ ~Marker(o)) => \E b \in D : Concerns(o, s, b)
    BY <1>4, <2>2 DEF Concerns
  <2>5. CASE N \cap D = {}
    <3>1. clip(N) = <<>>
      BY <2>5
    <3> QED
      BY <1>1, <2>3, <3>1
  <2>6. CASE N \cap D # {} /\ N \subseteq D
    <3>1. clip(N) = <<o>>
      BY <2>6
    <3> QED
      BY <1>0, <1>1, <2>3, <2>4, <2>6, <3>1
  <2>7. CASE N \cap D # {} /\ ~(N \subseteq D)
    <3>1. clip(N) = copies(N)
      BY <2>7
    <3>2. PICK m \in Nat : DOMAIN runs(N) = 1 .. m
      <4>1. netlist.width[s] - 1 \in Int
        BY TraceAskedIs
      <4>2. N \cap D \in SUBSET (0 .. netlist.width[s] - 1)
        BY <2>2
      <4> QED
        BY <4>1, <4>2, RunsListed
    <3>3. \A k \in 1 .. m : Good(copies(N)[k])
      <4> SUFFICES ASSUME NEW k \in 1 .. m PROVE Good(copies(N)[k])
        OBVIOUS
      <4> HIDE DEF runs
      <4> DEFINE c == [o EXCEPT !.bits = <<runs(N)[k]>>, !.merged = FALSE]
      <4>1. copies(N)[k] = c
        BY <3>2
      <4>2. HasFields(c) /\ SameRecord(o, c) /\ c.cover = o.cover /\ c.approx = o.approx
        BY <1>0, Rebitted
      <4> HIDE DEF copies, c
      <4> QED
        BY <2>4, <2>7, <4>1, <4>2
    <3>4. copies(N) \in Seq({copies(N)[k] : k \in 1 .. m}) /\ DOMAIN copies(N) = 1 .. m
      <4>1. copies(N) = [k \in 1 .. m |-> copies(N)[k]]
        BY <3>2
      <4> HIDE DEF copies
      <4> QED
        BY <4>1
    <3> HIDE DEF copies
    <3>5. IsList(copies(N)) /\ ToSet(copies(N)) \subseteq {copies(N)[k] : k \in 1 .. m}
      BY <3>4, ListIs
    <3>6. \A e \in ToSet(copies(N)) : Good(e)
      <4> HIDE DEF Good
      <4> QED
        BY <3>3, <3>5
    <3> HIDE DEF clip
    <3> QED
      BY <2>3, <3>1, <3>5, <3>6
  <2> QED
    BY <2>5, <2>6, <2>7
<1> QED
  BY <1>2, <1>3, <1>4

(* The list l has copies of records of the list of s.                      *)
AreCopies(l, s) == IsList(l) /\ \A e \in ToSet(l) : HasFields(e) /\ \E o \in ToSet(Edges(s)) : SameRecord(o, e)

LEMMA MergeCopies ==
    ASSUME NEW l, IsList(l), \A i \in DOMAIN l : HasFields(l[i])
    PROVE  /\ IsList(MergeEndpointBitRangesInPlace(l))
           /\ \A e \in ToSet(MergeEndpointBitRangesInPlace(l)) : HasFields(e) /\ \E o \in ToSet(l) : SameRecord(o, e)
<1> DEFINE runs == {run \in RunsOf(l) : Cardinality(run.members) > 1}
           dropped == UNION {run.members \ {run.first} : run \in runs}
           united == [i \in DOMAIN l |->
                        IF \E run \in runs : run.first = i
                        THEN MergedRecord(l, CHOOSE run \in runs : run.first = i) ELSE l[i]]
<1>1. MergeEndpointBitRangesInPlace(l) = Picked(united, DOMAIN l \ dropped)
  BY DEF MergeEndpointBitRangesInPlace
<1>2. ASSUME NEW i \in DOMAIN l PROVE HasFields(united[i]) /\ SameRecord(l[i], united[i])
  <2>1. CASE \E run \in runs : run.first = i
    <3> DEFINE run == CHOOSE x \in runs : x.first = i
    <3>1. run.first = i
      BY <2>1
    <3>2. united[i] = MergedRecord(l, run)
      BY <2>1
    <3> HIDE DEF run, united
    <3>3. HasFields(MergedRecord(l, run)) /\ SameRecord(l[run.first], MergedRecord(l, run))
      <4> SUFFICES ASSUME NEW m, NEW bits
                   PROVE  LET c == [l[run.first] EXCEPT !.merged = m, !.bits = bits]
                          IN  HasFields(c) /\ SameRecord(l[run.first], c)
        BY DEF MergedRecord
      <4> QED
        BY <3>1 DEF HasFields, SameRecord
    <3> QED
      BY <3>1, <3>2, <3>3
  <2>2. CASE ~ \E run \in runs : run.first = i
    <3>1. united[i] = l[i]
      BY <2>2
    <3> HIDE DEF united
    <3> QED
      BY <3>1 DEF SameRecord
  <2> QED
    BY <2>1, <2>2
<1>3. IsList(united) /\ DOMAIN united = DOMAIN l
  <2>1. DOMAIN l = 1 .. Len(l) /\ Len(l) \in Nat /\ DOMAIN united = DOMAIN l
    BY DomainIs DEF IsList
  <2>2. united = [i \in 1 .. Len(l) |-> united[i]]
    BY <2>1
  <2> HIDE DEF united
  <2>3. united \in Seq({united[i] : i \in 1 .. Len(l)})
    BY <2>1, <2>2
  <2> QED
    BY <2>1, <2>3, ListIs
<1> HIDE DEF united, dropped
<1>4. /\ IsList(Picked(united, DOMAIN l \ dropped))
      /\ ToSet(Picked(united, DOMAIN l \ dropped)) = {united[i] : i \in DOMAIN l \ dropped}
  BY <1>3, KeptIs
<1>5. \A i \in DOMAIN l : l[i] \in ToSet(l)
  BY DEF ToSet
<1> QED
  BY <1>1, <1>2, <1>4, <1>5

LEMMA LegacyView ==
    ASSUME TraceAsked, NEW s \in Names(netlist)
    PROVE  AreCopies(SessionLegacyHopEndpointView(netlist, Edges(s)), s)
<1> DEFINE list == Edges(s)
           old(i) == /\ list[i].kind = "expr" /\ ~list[i].approx /\ ~Marker(list[i])
                     /\ ParseExactBitMapText(list[i].bits) # {} /\ PortNativeDomain(netlist, list[i], list[i].path) # {}
           l == [i \in DOMAIN list |-> IF old(i) THEN [list[i] EXCEPT !.cover = {}, !.legacy = TRUE] ELSE list[i]]
<1>1. SessionLegacyHopEndpointView(netlist, list) = MergeEndpointBitRangesInPlace(l)
  BY DEF SessionLegacyHopEndpointView
<1>2. IsList(list) /\ \A e \in ToSet(list) : IsEdgeOf(s, e)
  BY EdgesAre
<1>3. DOMAIN list = 1 .. Len(list) /\ Len(list) \in Nat /\ \A i \in DOMAIN list : list[i] \in ToSet(list)
  <2> HIDE DEF list
  <2> QED
    BY <1>2, DomainIs DEF IsList, ToSet
<1>4. ASSUME NEW i \in DOMAIN list PROVE HasFields(l[i]) /\ SameRecord(list[i], l[i])
  <2>1. HasFields(list[i]) /\ SameRecord(list[i], list[i])
    BY <1>2, <1>3, EdgeHasFields
  <2> DEFINE c == [list[i] EXCEPT !.cover = {}, !.legacy = TRUE]
  <2>2. HasFields(c) /\ SameRecord(list[i], c)
    <3> HIDE DEF list
    <3> QED
      BY <2>1, AsLegacy
  <2>3. l[i] = list[i] \/ l[i] = c
    <3> HIDE DEF old, list
    <3> QED
      OBVIOUS
  <2> HIDE DEF l, c, list
  <2> QED
    BY <2>1, <2>2, <2>3
<1>5. DOMAIN l = DOMAIN list /\ l = [i \in 1 .. Len(list) |-> l[i]]
  <2> HIDE DEF old, list
  <2> QED
    BY <1>3
<1> HIDE DEF l, list
<1>6. IsList(l) /\ ToSet(l) = {l[i] : i \in DOMAIN list}
  <2>1. l \in Seq({l[i] : i \in 1 .. Len(list)})
    BY <1>3, <1>5
  <2> QED
    BY <1>5, <2>1, ListIs DEF ToSet
<1>7. /\ IsList(MergeEndpointBitRangesInPlace(l))
      /\ \A e \in ToSet(MergeEndpointBitRangesInPlace(l)) : HasFields(e) /\ \E o \in ToSet(l) : SameRecord(o, e)
  BY <1>4, <1>5, <1>6, MergeCopies
<1>8. \A e \in ToSet(MergeEndpointBitRangesInPlace(l)) : \E i \in DOMAIN list : SameRecord(list[i], e)
  <2> SUFFICES ASSUME NEW e \in ToSet(MergeEndpointBitRangesInPlace(l)) PROVE \E i \in DOMAIN list : SameRecord(list[i], e)
    OBVIOUS
  <2>1. PICK i \in DOMAIN list : SameRecord(l[i], e)
    BY <1>6, <1>7
  <2>2. SameRecord(list[i], l[i])
    BY <1>4
  <2> QED
    BY <2>1, <2>2 DEF SameRecord
<1> QED
  BY <1>1, <1>3, <1>7, <1>8 DEF AreCopies, list

(* What holds of a call, and of an edge that is to be looked at: their     *)
(* places are reached, all of their bits if the call is not approximate.   *)
VisitFits(t) ==
  /\ t.sig \in Names(netlist) /\ t.depth \in Nat /\ t.depth <= opts.depth + 1 /\ t.cone \in Nat /\ t.approx \in BOOLEAN
  /\ t.domain = {} \/ \E D : t.domain = {D}
  /\ \E b : <<t.sig, b, t.cone>> \in Steps(FALSE, TRUE)[t.depth]
  /\ ~t.approx => \A b \in TaskBits(t) : <<t.sig, b, t.cone>> \in Steps(FALSE, FALSE)[t.depth]

(* The edge is made of a record of the signal, that is exact unless what   *)
(* follows is approximate: o concerns one of the bits.                     *)
ExactlyOf(f, o) ==
  /\ f.edge.cover = o.cover /\ f.edge.approx = o.approx /\ (f.domain = {} => f.edge = o)
  /\ (f.domain # {} /\ ~Marker(o)) => \E b \in UNION f.domain : Concerns(o, f.sig, b)
EdgeFits(f) ==
  /\ VisitFits(f) /\ f.depth <= opts.depth /\ f.sig \notin opts.stopAt /\ f.failed \in BOOLEAN /\ HasFields(f.edge)
  /\ \E o \in ToSet(Edges(f.sig)) : SameRecord(o, f.edge) /\ (~Approximate(f) => ExactlyOf(f, o))

Constrain(w) == w.domain # {} /\ ~w.approx
Active(w) ==
  IF Constrain(w) THEN Constrained(w)
  ELSE IF w.approx /\ w.domain = {} THEN SessionLegacyHopEndpointView(netlist, Edges(w.sig)) ELSE Edges(w.sig)
CallFailed(w) == (\E e \in ToSet(Edges(w.sig)) : e.unresolved) \/ (Constrain(w) /\ Unproven(w) # {})
FrameOf(w, e) ==
  [task |-> "edge", sig |-> w.sig, depth |-> w.depth, cone |-> w.cone, domain |-> w.domain, approx |-> w.approx,
   failed |-> CallFailed(w), own |-> ~Constrain(w) /\ ~w.approx /\ ~OfFallback(w.sig), edge |-> e]

LEMMA ConstrainedIs ==
    ASSUME TraceAsked, NEW w, w.sig \in Names(netlist), NEW D, w.domain = {D}, D # {}
    PROVE  /\ IsList(Constrained(w))
           /\ \A e \in ToSet(Constrained(w)) : \E o \in ToSet(Edges(w.sig)) :
                /\ HasFields(e) /\ SameRecord(o, e)
                /\ \/ Unproven(w) # {} /\ e.approx
                   \/ /\ e.cover = o.cover /\ e.approx = o.approx
                      /\ ~Marker(o) => \E b \in D : Concerns(o, w.sig, b)
<1> DEFINE s == w.sig
           n == Len(Edges(s))
           part(i) == SessionConstrainPortEndpoint(netlist, Edges(s)[i], s, D)
           of(i, P) == IF P = {} THEN <<[Edges(s)[i] EXCEPT !.approx = TRUE]>> ELSE CHOOSE p \in P : TRUE
           at(i, d) == of(i, SessionConstrainPortEndpoint(netlist, Edges(s)[i], s, d))
           first == CHOOSE b \in w.domain : TRUE
           ss == [i \in 1 .. n |-> of(i, part(i))]
           Good(e, o) == /\ HasFields(e) /\ SameRecord(o, e)
                         /\ \/ Unproven(w) # {} /\ e.approx
                            \/ /\ e.cover = o.cover /\ e.approx = o.approx
                               /\ ~Marker(o) => \E b \in D : Concerns(o, w.sig, b)
<1>1. IsList(Edges(s)) /\ \A e \in ToSet(Edges(s)) : IsEdgeOf(s, e)
  BY EdgesAre
<1>2. n \in Nat /\ DOMAIN Edges(s) = 1 .. n /\ \A i \in 1 .. n : Edges(s)[i] \in ToSet(Edges(s))
  BY <1>1, DomainIs DEF IsList, ToSet
<1>3. Constrained(w) = FlattenSeq(ss)
  <2>1. first = D
    OBVIOUS
  <2>2. Constrained(w) = FlattenSeq([i \in DOMAIN Edges(s) |-> at(i, first)])
    BY DEF Constrained
  <2>3. ss = [i \in 1 .. n |-> at(i, D)]
    OBVIOUS
  <2> HIDE DEF at, first, ss, n
  <2> QED
    BY <1>2, <2>1, <2>2, <2>3
<1>4. ASSUME NEW i \in 1 .. n
      PROVE  IsList(ss[i]) /\ \A e \in ToSet(ss[i]) : Good(e, Edges(s)[i])
  <2> DEFINE o == Edges(s)[i]
  <2>1. o \in ToSet(Edges(s)) /\ IsEdgeOf(s, o) /\ HasFields(o)
    BY <1>1, <1>2, EdgeHasFields
  <2>2. CASE part(i) = {}
    <3> DEFINE c == [o EXCEPT !.approx = TRUE]
    <3>1. ss[i] = <<c>>
      BY <2>2
    <3>2. HasFields(c) /\ SameRecord(o, c) /\ c.approx
      <4> HIDE DEF o
      <4> QED
        BY <2>1, MarkedApprox
    <3>3. Unproven(w) # {}
      <4>1. o.path \in Unproven(w)
        BY <2>1, <2>2 DEF Unproven
      <4> QED
        BY <4>1
    <3> HIDE DEF c, ss, o
    <3>4. IsList(<<c>>) /\ ToSet(<<c>>) = {c}
      BY DEF IsList, ToSet
    <3> QED
      BY <3>1, <3>2, <3>3, <3>4 DEF o
  <2>3. CASE part(i) # {}
    <3>1. PICK p : /\ part(i) = {p} /\ IsList(p)
                   /\ \A e \in ToSet(p) : /\ HasFields(e) /\ SameRecord(o, e) /\ e.cover = o.cover /\ e.approx = o.approx
                                          /\ ~Marker(o) => \E b \in D : Concerns(o, s, b)
      <4> HIDE DEF o
      <4>1. part(i) = SessionConstrainPortEndpoint(netlist, o, s, D)
        BY DEF o
      <4> HIDE DEF part
      <4> QED
        BY <2>1, <2>3, <4>1, PartIs
    <3>2. ss[i] = CHOOSE x \in part(i) : TRUE
      BY <2>3
    <3>3. ss[i] = p
      <4> HIDE DEF ss, part
      <4> QED
        BY <3>1, <3>2
    <3> HIDE DEF ss, part
    <3> QED
      BY <3>1, <3>3
  <2> QED
    BY <2>2, <2>3
<1>5. ss = [i \in 1 .. n |-> ss[i]]
  OBVIOUS
<1> HIDE DEF ss, n, part
<1>6. IsList(FlattenSeq(ss)) /\ ToSet(FlattenSeq(ss)) \subseteq UNION {ToSet(ss[i]) : i \in 1 .. n}
  BY <1>2, <1>4, <1>5, FlattenIs
<1>7. \A e \in ToSet(FlattenSeq(ss)) : \E i \in 1 .. n : e \in ToSet(ss[i])
  BY <1>6
<1>8. \A e \in ToSet(FlattenSeq(ss)) : \E o \in ToSet(Edges(s)) : Good(e, o)
  <2> HIDE DEF Good
  <2> QED
    BY <1>2, <1>4, <1>7
<1> QED
  BY <1>3, <1>6, <1>8

LEMMA FramesFit ==
    ASSUME TraceAsked, NEW w, VisitFits(w), w.depth <= opts.depth, w.sig \notin opts.stopAt, w.domain # {{}}
    PROVE  IsList(Active(w)) /\ \A e \in ToSet(Active(w)) : EdgeFits(FrameOf(w, e))
<1> DEFINE s == w.sig
<1>1. s \in Names(netlist) /\ w.approx \in BOOLEAN /\ IsList(Edges(s)) /\ \A e \in ToSet(Edges(s)) : IsEdgeOf(s, e)
  BY EdgesAre DEF VisitFits
<1>2. CallFailed(w) \in BOOLEAN
  BY DEF CallFailed
<1>3. ASSUME NEW e
      PROVE  LET f == FrameOf(w, e)
             IN  /\ VisitFits(f) /\ f.depth <= opts.depth /\ f.sig \notin opts.stopAt /\ f.failed \in BOOLEAN /\ f.edge = e
                 /\ f.sig = s /\ f.domain = w.domain /\ f.failed = CallFailed(w) /\ f.approx = w.approx
  BY <1>2 DEF FrameOf, VisitFits, TaskBits
<1>4. CASE Constrain(w)
  <2>1. PICK D : w.domain = {D} /\ D # {}
    BY <1>4 DEF Constrain, VisitFits
  <2>2. Active(w) = Constrained(w)
    BY <1>4 DEF Active
  <2>3. /\ IsList(Constrained(w))
           /\ \A e \in ToSet(Constrained(w)) : \E o \in ToSet(Edges(w.sig)) :
                /\ HasFields(e) /\ SameRecord(o, e)
                /\ \/ Unproven(w) # {} /\ e.approx
                   \/ /\ e.cover = o.cover /\ e.approx = o.approx
                      /\ ~Marker(o) => \E b \in D : Concerns(o, w.sig, b)
    BY <1>1, <2>1, ConstrainedIs
  <2>4. ASSUME NEW e \in ToSet(Constrained(w)) PROVE EdgeFits(FrameOf(w, e))
    <3> DEFINE f == FrameOf(w, e)
    <3>1. PICK o \in ToSet(Edges(w.sig)) :
                /\ HasFields(e) /\ SameRecord(o, e)
                /\ \/ Unproven(w) # {} /\ e.approx
                   \/ /\ e.cover = o.cover /\ e.approx = o.approx
                      /\ ~Marker(o) => \E b \in D : Concerns(o, w.sig, b)
      BY <2>3
    <3>2. /\ VisitFits(f) /\ f.depth <= opts.depth /\ f.sig \notin opts.stopAt /\ f.failed \in BOOLEAN /\ f.edge = e
          /\ f.sig = s /\ f.domain = {D} /\ f.failed = CallFailed(w)
      BY <1>3, <2>1
    <3> HIDE DEF f
    <3>3. Unproven(w) # {} /\ e.approx => Approximate(f)
      BY <1>4, <3>2 DEF CallFailed, Approximate
    <3>4. ~Approximate(f) => ExactlyOf(f, o)
      BY <3>1, <3>2, <3>3 DEF ExactlyOf
    <3> QED
      BY <3>1, <3>2, <3>4 DEF EdgeFits, f
  <2> QED
    BY <2>2, <2>3, <2>4
<1>5. CASE ~Constrain(w) /\ w.approx /\ w.domain = {}
  <2>1. Active(w) = SessionLegacyHopEndpointView(netlist, Edges(s))
    BY <1>5 DEF Active
  <2>2. AreCopies(SessionLegacyHopEndpointView(netlist, Edges(s)), s)
    BY <1>1, LegacyView
  <2>3. ASSUME NEW e \in ToSet(Active(w)) PROVE EdgeFits(FrameOf(w, e))
    <3> DEFINE f == FrameOf(w, e)
    <3>1. HasFields(e) /\ \E o \in ToSet(Edges(s)) : SameRecord(o, e)
      BY <2>1, <2>2 DEF AreCopies
    <3>2. /\ VisitFits(f) /\ f.depth <= opts.depth /\ f.sig \notin opts.stopAt /\ f.failed \in BOOLEAN /\ f.edge = e
          /\ f.sig = s /\ f.approx = w.approx
      BY <1>3
    <3> HIDE DEF f
    <3>3. Approximate(f)
      BY <1>5, <3>2 DEF Approximate
    <3> QED
      BY <3>1, <3>2, <3>3 DEF EdgeFits, f
  <2> QED
    BY <2>1, <2>2, <2>3 DEF AreCopies
<1>6. CASE ~Constrain(w) /\ ~(w.approx /\ w.domain = {})
  <2>1. Active(w) = Edges(s)
    BY <1>6 DEF Active
  <2>2. ASSUME NEW e \in ToSet(Edges(s)) PROVE EdgeFits(FrameOf(w, e))
    <3> DEFINE f == FrameOf(w, e)
    <3>1. HasFields(e) /\ SameRecord(e, e)
      BY <1>1, EdgeHasFields
    <3>2. /\ VisitFits(f) /\ f.depth <= opts.depth /\ f.sig \notin opts.stopAt /\ f.failed \in BOOLEAN /\ f.edge = e
          /\ f.sig = s /\ f.approx = w.approx /\ f.domain = w.domain
      BY <1>3
    <3> HIDE DEF f
    <3>3. ~Approximate(f) => f.domain = {}
      BY <1>6, <3>2 DEF Approximate, Constrain
    <3>4. ~Approximate(f) => ExactlyOf(f, e)
      BY <3>2, <3>3 DEF ExactlyOf
    <3> QED
      BY <3>1, <3>2, <3>4 DEF EdgeFits, f
  <2> QED
    BY <1>1, <2>1, <2>2
<1> QED
  BY <1>4, <1>5, <1>6

---------------------------------------------------------------------------
(* What an edge adds.                                                      *)

LEMMA EndpointOf ==
    ASSUME NEW f, HasFields(f.edge), f.failed \in BOOLEAN, f.approx \in BOOLEAN
    PROVE  /\ HasFields(Endpoint(f)) /\ SameRecord(f.edge, Endpoint(f)) /\ Endpoint(f).cover = f.edge.cover
           /\ Endpoint(f).approx = (f.edge.approx \/ Approximate(f)) /\ Approximate(f) \in BOOLEAN
           /\ ~Approximate(f) => Endpoint(f) = f.edge
<1> DEFINE e == f.edge
           c(a) == [e EXCEPT !.approx = a]
<1>1. e = [x \in DOMAIN e |-> e[x]] /\ "approx" \in DOMAIN e /\ e.approx \in BOOLEAN
  BY DEF HasFields
<1>2. Approximate(f) \in BOOLEAN /\ (e.approx \/ Approximate(f)) \in BOOLEAN
  BY <1>1 DEF Approximate
<1>3. Endpoint(f) = c(e.approx \/ Approximate(f))
  BY <1>1 DEF Endpoint
<1>4. c(e.approx) = e
  <2> HIDE DEF e
  <2> QED
    BY <1>1
<1>5. ~Approximate(f) => (e.approx \/ Approximate(f)) = e.approx
  BY <1>1, <1>2
<1>6. \A a \in BOOLEAN : HasFields(c(a)) /\ SameRecord(e, c(a)) /\ c(a).cover = e.cover /\ c(a).approx = a
  BY MarkedApprox
<1> DEFINE A == e.approx \/ Approximate(f)
<1>7. A \in BOOLEAN /\ (~Approximate(f) => A = e.approx) /\ Endpoint(f) = c(A)
  BY <1>2, <1>3, <1>5
<1> HIDE DEF c, A
<1>8. HasFields(c(A)) /\ SameRecord(e, c(A)) /\ c(A).cover = e.cover /\ c(A).approx = A
  BY <1>6, <1>7
<1>9. ~Approximate(f) => c(A) = e
  BY <1>4, <1>7
<1> QED
  BY <1>2, <1>7, <1>8, <1>9 DEF A

Outside(f) ==
  LET e == Endpoint(f)
  IN  /\ ~Approximate(f) \/ e.cover # {}
      /\ f.sig = opts.root /\ ~(f.domain # {} /\ e.path = f.sig) /\ ~RootMatches(e)

(* The record of an edge that is followed, and a bit that it concerns.     *)
IsUsed(f, o, b) ==
  /\ o \in ToSet(Edges(f.sig)) /\ SameRecord(o, f.edge) /\ ExactlyOf(f, o) /\ ~Marker(o)
  /\ b \in TaskBits(f) /\ Concerns(o, f.sig, b)

LEMMA UsedBit ==
    ASSUME TraceAsked, NEW f, EdgeFits(f), ~Approximate(f), ~Marker(f.edge), ~Outside(f)
    PROVE  \E o, b : IsUsed(f, o, b)
<1>1. PICK o \in ToSet(Edges(f.sig)) : SameRecord(o, f.edge) /\ ExactlyOf(f, o)
  BY DEF EdgeFits
<1>2. IsEdgeOf(f.sig, o) /\ f.sig \in Names(netlist)
  BY <1>1, EdgesAre DEF EdgeFits, VisitFits
<1>3. ~Marker(o)
  BY <1>1 DEF SameRecord, Marker
<1>4. CASE f.domain # {}
  <2>1. PICK b \in UNION f.domain : Concerns(o, f.sig, b)
    BY <1>1, <1>3, <1>4 DEF ExactlyOf
  <2> QED
    BY <1>1, <1>3, <1>4, <2>1 DEF IsUsed, TaskBits
<1>5. CASE f.domain = {} /\ f.sig = opts.root /\ f.depth = 0
  <2>1. Endpoint(f) = f.edge /\ f.edge = o
    BY <1>1, <1>5, EndpointOf DEF EdgeFits, VisitFits, ExactlyOf
  <2>2. RootMatches(o)
    BY <1>5, <2>1 DEF Outside
  <2>3. PICK b \in Selected : Concerns(o, f.sig, b)
    BY <1>2, <1>3, <1>5, <2>2, SelectedBit
  <2> QED
    BY <1>1, <1>3, <1>5, <2>3 DEF IsUsed, TaskBits
<1>6. CASE f.domain = {} /\ ~(f.sig = opts.root /\ f.depth = 0)
  <2>1. PICK b \in Bits(f.sig) : Concerns(o, f.sig, b)
    BY <1>2, <1>3, SomeBit
  <2> QED
    BY <1>1, <1>3, <1>6, <2>1 DEF IsUsed, TaskBits
<1> QED
  BY <1>4, <1>5, <1>6

LEMMA AnyUse ==
    ASSUME TraceAsked, NEW f, EdgeFits(f), ~Marker(f.edge)
    PROVE  \E o, b : /\ o \in ToSet(Edges(f.sig)) /\ SameRecord(o, f.edge)
                     /\ <<f.sig, b, f.cone>> \in Steps(FALSE, TRUE)[f.depth]
                     /\ o \in InUse(<<f.sig, b, f.cone>>, FALSE, TRUE)
<1>1. PICK o \in ToSet(Edges(f.sig)) : SameRecord(o, f.edge)
  BY DEF EdgeFits
<1>2. PICK b : <<f.sig, b, f.cone>> \in Steps(FALSE, TRUE)[f.depth]
  BY DEF EdgeFits, VisitFits
<1>3. ~Marker(o)
  BY <1>1 DEF SameRecord, Marker
<1>4. o \in InUse(<<f.sig, b, f.cone>>, FALSE, TRUE)
  BY <1>1, <1>3 DEF InUse
<1> QED
  BY <1>1, <1>2, <1>4

LEMMA UsedIs ==
    ASSUME TraceAsked, NEW f, EdgeFits(f), ~Approximate(f), NEW o, NEW b, IsUsed(f, o, b)
    PROVE  /\ <<f.sig, b, f.cone>> \in Steps(FALSE, FALSE)[f.depth]
           /\ o \in InUse(<<f.sig, b, f.cone>>, FALSE, FALSE)
<1>1. ~f.approx
  BY DEF Approximate
<1>2. <<f.sig, b, f.cone>> \in Steps(FALSE, FALSE)[f.depth]
  BY <1>1 DEF EdgeFits, VisitFits, IsUsed
<1>3. o \in InUse(<<f.sig, b, f.cone>>, FALSE, FALSE)
  BY DEF InUse, IsUsed
<1> QED
  BY <1>2, <1>3

LEMMA SiteFits ==
    ASSUME TraceAsked, NEW f, EdgeFits(f), ~Marker(f.edge), ~Outside(f), f.edge.kind = "expr"
    PROVE  /\ f.edge.site \in Sites(FALSE, TRUE)
           /\ ~Approximate(f) => f.edge.site \in Sites(FALSE, FALSE)
<1>0. f.depth \in Nat /\ f.depth <= opts.depth + 9 /\ f.sig \notin opts.stopAt
  BY TraceAskedIs DEF EdgeFits, VisitFits
<1>1. f.edge.site \in Sites(FALSE, TRUE)
  <2>1. PICK o, b : /\ o \in ToSet(Edges(f.sig)) /\ SameRecord(o, f.edge)
                     /\ <<f.sig, b, f.cone>> \in Steps(FALSE, TRUE)[f.depth]
                     /\ o \in InUse(<<f.sig, b, f.cone>>, FALSE, TRUE)
    BY AnyUse
  <2>2. o.kind = "expr" /\ o.site = f.edge.site
    BY <2>1 DEF SameRecord
  <2> DEFINE x == <<f.sig, b, f.cone>>
  <2>3. x[1] \notin opts.stopAt
    BY <1>0
  <2> HIDE DEF x
  <2>4. x \in Steps(FALSE, TRUE)[f.depth] /\ o \in InUse(x, FALSE, TRUE)
    BY <2>1 DEF x
  <2> QED
    BY <1>0, <2>2, <2>3, <2>4, SiteReached
<1>2. ASSUME ~Approximate(f) PROVE f.edge.site \in Sites(FALSE, FALSE)
  <2>1. PICK o, b : IsUsed(f, o, b)
    BY <1>2, UsedBit
  <2>2. o.kind = "expr" /\ o.site = f.edge.site
    BY <2>1 DEF SameRecord, IsUsed
  <2> DEFINE x == <<f.sig, b, f.cone>>
  <2>3. x[1] \notin opts.stopAt
    BY <1>0
  <2>4. x \in Steps(FALSE, FALSE)[f.depth] /\ o \in InUse(x, FALSE, FALSE)
    BY <1>2, <2>1, UsedIs
  <2> HIDE DEF x
  <2> QED
    BY <1>0, <2>2, <2>3, <2>4, SiteReached
<1> QED
  BY <1>1, <1>2

LEMMA CallIs ==
    ASSUME NEW s, NEW depth, NEW cone, NEW domain, NEW approx
    PROVE  LET c == Call(s, depth, cone, domain, approx)
           IN  /\ c.task = "visit" /\ c.sig = s /\ c.depth = depth /\ c.cone = cone /\ c.approx = approx
               /\ c.domain = IF approx THEN {} ELSE domain
BY DEF Call

(* A call fits if each of its bits is next to one that the edge concerns.  *)
LEMMA CallFits ==
    ASSUME TraceAsked, NEW f, EdgeFits(f), ~Marker(f.edge), ~Outside(f),
           NEW t \in Names(netlist), NEW cone \in Nat, NEW domain, domain = {} \/ \E D : domain = {D},
           NEW approx \in BOOLEAN, Approximate(f) => approx,
           \E x : \A o, b : SameRecord(o, f.edge) => <<t, x, cone>> \in Neighbours(o, <<f.sig, b, f.cone>>, TRUE),
           ~approx => \A x \in (IF domain = {} THEN Bits(t) ELSE UNION domain) :
                        x \in Bits(t) /\ \E o, b : IsUsed(f, o, b) /\ <<t, x, cone>> \in Neighbours(o, <<f.sig, b, f.cone>>, FALSE)
    PROVE  VisitFits(Call(t, f.depth + 1, cone, domain, approx))
<1> DEFINE c == Call(t, f.depth + 1, cone, domain, approx)
<1>0. /\ f.depth \in Nat /\ f.depth + 1 \in Nat /\ f.depth + 1 <= opts.depth + 1 /\ f.sig \notin opts.stopAt
      /\ f.depth < opts.depth + 9 /\ f.depth + 1 # 0
  BY TraceAskedIs DEF EdgeFits, VisitFits
<1>1. /\ c.sig = t /\ c.depth = f.depth + 1 /\ c.cone = cone /\ c.approx = approx
      /\ c.domain = IF approx THEN {} ELSE domain
  BY CallIs
<1> HIDE DEF c
<1>2. \E x : <<t, x, cone>> \in Steps(FALSE, TRUE)[f.depth + 1]
  <2>1. PICK o, b : /\ o \in ToSet(Edges(f.sig)) /\ SameRecord(o, f.edge)
                     /\ <<f.sig, b, f.cone>> \in Steps(FALSE, TRUE)[f.depth]
                     /\ o \in InUse(<<f.sig, b, f.cone>>, FALSE, TRUE)
    BY AnyUse
  <2>2. PICK x : <<t, x, cone>> \in Neighbours(o, <<f.sig, b, f.cone>>, TRUE)
    BY <2>1
  <2> DEFINE n == <<f.sig, b, f.cone>>
             y == <<t, x, cone>>
  <2>3. n[1] \notin opts.stopAt /\ n \in Steps(FALSE, TRUE)[f.depth] /\ o \in InUse(n, FALSE, TRUE)
        /\ y \in Neighbours(o, n, TRUE)
    BY <1>0, <2>1, <2>2
  <2>4. y \in Steps(FALSE, TRUE)[f.depth + 1]
    <3> HIDE DEF n, y
    <3> QED
      BY <1>0, <2>3, NextNode
  <2> QED
    BY <2>4
<1>3. ASSUME ~approx, NEW x \in TaskBits(c) PROVE <<t, x, cone>> \in Steps(FALSE, FALSE)[f.depth + 1]
  <2>0. x \in (IF domain = {} THEN Bits(t) ELSE UNION domain) /\ ~Approximate(f)
    BY <1>0, <1>1, <1>3 DEF TaskBits
  <2>1. PICK o, b : IsUsed(f, o, b) /\ <<t, x, cone>> \in Neighbours(o, <<f.sig, b, f.cone>>, FALSE)
    BY <1>3, <2>0
  <2>2. x \in Bits(t)
    BY <1>3, <2>0
  <2> DEFINE n == <<f.sig, b, f.cone>>
             y == <<t, x, cone>>
  <2>3. n[1] \notin opts.stopAt /\ n \in Steps(FALSE, FALSE)[f.depth] /\ o \in InUse(n, FALSE, FALSE)
        /\ y \in Neighbours(o, n, FALSE) /\ y[2] \in Bits(y[1])
    BY <1>0, <2>0, <2>1, <2>2, UsedIs
  <2>4. y \in Steps(FALSE, FALSE)[f.depth + 1]
    <3> HIDE DEF n, y
    <3> QED
      BY <1>0, <2>3, NextNode
  <2> QED
    BY <2>4
<1> QED
  BY <1>0, <1>1, <1>2, <1>3 DEF VisitFits, c

---------------------------------------------------------------------------
(* The calls of an edge.                                                   *)

AllVisits(L) == IsList(L) /\ \A c \in ToSet(L) : c.task = "visit" /\ VisitFits(c)

LEMMA NoVisits == AllVisits(<<>>)
BY DEF AllVisits, IsList, ToSet

LEMMA OthersAre ==
    ASSUME NEW f, NEW names, IsList(names)
    PROVE  /\ IsList(Others(f, names))
           /\ \A t \in ToSet(Others(f, names)) : t \in ToSet(names) /\ t # f.sig /\ t \in Names(netlist)
<1> DEFINE at == {i \in DOMAIN names : names[i] # f.sig /\ names[i] \in Names(netlist)}
<1>1. at \subseteq DOMAIN names /\ \A i \in at : names[i] # f.sig /\ names[i] \in Names(netlist)
  OBVIOUS
<1>2. Others(f, names) = Picked(names, at)
  BY DEF Others
<1> HIDE DEF at
<1> QED
  BY <1>1, <1>2, KeptIs

LEMMA BridgeRefs ==
    ASSUME TraceAsked, NEW path
    PROVE  /\ IsList(SessionBridgeRefs(netlist, opts.drivers, path))
           /\ ToSet(SessionBridgeRefs(netlist, opts.drivers, path)) \subseteq Names(netlist)
<1> DEFINE lists == IF opts.drivers THEN netlist.loads ELSE netlist.drivers
           at == {i \in DOMAIN netlist.names : \E e \in ToSet(lists[netlist.names[i]]) : ~Marker(e) /\ e.path = path}
<1>1. at \subseteq DOMAIN netlist.names
  OBVIOUS
<1>2. SessionBridgeRefs(netlist, opts.drivers, path) = Picked(netlist.names, at)
  BY DEF SessionBridgeRefs
<1> HIDE DEF at
<1> QED
  BY <1>1, <1>2, KeptIs, TraceAskedIs

LEMMA DirectIs ==
    ASSUME TraceAsked, NEW f
    PROVE  /\ IsList(Direct(f)) /\ \A t \in ToSet(Direct(f)) : t = f.edge.path /\ t # f.sig /\ t \in Names(netlist)
           /\ IsList(Bridges(f))
           /\ \A t \in ToSet(Bridges(f)) : /\ t \in ToSet(SessionBridgeRefs(netlist, opts.drivers, f.edge.path))
                                           /\ t # f.sig /\ t \in Names(netlist)
<1>1. IsList(<<f.edge.path>>) /\ ToSet(<<f.edge.path>>) = {f.edge.path}
  BY DEF IsList, ToSet
<1>2. IsList(Direct(f)) /\ \A t \in ToSet(Direct(f)) : t = f.edge.path /\ t # f.sig /\ t \in Names(netlist)
  BY <1>1, OthersAre DEF Direct
<1>3. IsList(SessionBridgeRefs(netlist, opts.drivers, f.edge.path))
  BY BridgeRefs
<1> QED
  BY <1>2, <1>3, OthersAre DEF Bridges

LEMMA CallsToAre ==
    ASSUME NEW f, NEW names, IsList(names), NEW cone, \A t \in ToSet(names) : VisitFits(Down(f, t, cone, {}))
    PROVE  AllVisits(CallsTo(f, names, cone))
<1> DEFINE n == Len(names)
           down(t) == Down(f, t, cone, {})
<1>1. n \in Nat /\ DOMAIN names = 1 .. n /\ \A k \in 1 .. n : names[k] \in ToSet(names)
  BY DomainIs DEF IsList, ToSet
<1>2. CallsTo(f, names, cone) = [k \in 1 .. n |-> down(names[k])]
  BY <1>1 DEF CallsTo
<1>3. \A t : down(t).task = "visit"
  BY CallIs DEF Down
<1> HIDE DEF n
<1>4. CallsTo(f, names, cone) \in Seq({down(names[k]) : k \in 1 .. n})
  <2> HIDE DEF down
  <2> QED
    BY <1>1, <1>2
<1>5. IsList(CallsTo(f, names, cone)) /\ ToSet(CallsTo(f, names, cone)) \subseteq {down(names[k]) : k \in 1 .. n}
  <2> HIDE DEF down
  <2> QED
    BY <1>4, ListIs
<1>6. \A t \in ToSet(names) : down(t).task = "visit" /\ VisitFits(down(t))
  <2>1. \A t \in ToSet(names) : VisitFits(down(t))
    OBVIOUS
  <2> HIDE DEF down
  <2> QED
    BY <1>3, <2>1
<1> HIDE DEF down
<1> QED
  BY <1>1, <1>5, <1>6 DEF AllVisits

---------------------------------------------------------------------------
(* What the reference says of the same record.                             *)

Listed(e) == ToSet(IF opts.drivers THEN e.rhs ELSE e.lhs)
Places(node, places, c) == {<<p[1], p[2], c>> : p \in places}
Pieces(e, node, any) ==
  UNION {Places(node, {r.target} \X (IF any THEN Bits(r.target) ELSE {r.tlow + x - r.low : x \in {node[2]} \cap (r.low .. r.high)}),
                node[3]) : r \in ToSet(e.routes)}
Referred(e, node) == LET refs == (Listed(e) \cap Names(netlist)) \ {node[1]}
                     IN  {<<t, x, node[3] + 1>> : t \in refs, x \in UNION {Bits(t) : t \in refs}}

LEMMA NeighboursAre ==
    ASSUME NEW e, NEW node, NEW any
    PROVE  Neighbours(e, node, any) =
             IF e.routes # <<>> THEN Pieces(e, node, any)
             ELSE IF e.kind = "port"
             THEN IF e.cover = {} \/ any THEN Places(node, Beyond(e, node[1], node[2], any), node[3]) ELSE {}
             ELSE IF node[3] + 1 >= opts.cone THEN {}
             ELSE IF Listed(e) = {} THEN IF opts.hop THEN Places(node, Beyond(e, node[1], node[2], TRUE), node[3] + 1) ELSE {}
             ELSE Referred(e, node)
BY DEF Neighbours, Listed, Places, Pieces, Referred

LEMMA PortNeighbours ==
    ASSUME NEW e, e.routes = <<>>, e.kind = "port", NEW any \in BOOLEAN, e.cover = {} \/ any, NEW s, NEW b, NEW c,
           NEW p, p \in Beyond(e, s, b, any)
    PROVE  <<p[1], p[2], c>> \in Neighbours(e, <<s, b, c>>, any)
<1> DEFINE node == <<s, b, c>>
<1>1. Neighbours(e, node, any) = Places(node, Beyond(e, node[1], node[2], any), node[3])
  <2> HIDE DEF node
  <2> QED
    BY NeighboursAre
<1> QED
  BY <1>1 DEF Places

LEMMA HopNeighbours ==
    ASSUME NEW e, e.routes = <<>>, e.kind # "port", NEW any \in BOOLEAN, NEW s, NEW b, NEW c \in Nat, opts.cone \in Nat,
           c + 1 < opts.cone, opts.hop, Listed(e) = {}, NEW p, p \in Beyond(e, s, b, TRUE)
    PROVE  <<p[1], p[2], c + 1>> \in Neighbours(e, <<s, b, c>>, any)
<1> DEFINE node == <<s, b, c>>
<1>1. ~(node[3] + 1 >= opts.cone)
  OBVIOUS
<1>2. Neighbours(e, node, any) = Places(node, Beyond(e, node[1], node[2], TRUE), node[3] + 1)
  <2> HIDE DEF node
  <2> QED
    BY <1>1, NeighboursAre
<1> QED
  BY <1>2 DEF Places

LEMMA RefNeighbours ==
    ASSUME NEW e, e.routes = <<>>, e.kind # "port", NEW any \in BOOLEAN, NEW s, NEW b, NEW c \in Nat, opts.cone \in Nat,
           c + 1 < opts.cone, NEW t \in Listed(e), t \in Names(netlist), t # s, NEW x \in Bits(t)
    PROVE  <<t, x, c + 1>> \in Neighbours(e, <<s, b, c>>, any)
<1> DEFINE node == <<s, b, c>>
<1>1. ~(node[3] + 1 >= opts.cone)
  OBVIOUS
<1>2. Neighbours(e, node, any) = Referred(e, node)
  <2> HIDE DEF node
  <2> QED
    BY <1>1, NeighboursAre
<1>3. t \in (Listed(e) \cap Names(netlist)) \ {node[1]}
  OBVIOUS
<1> QED
  BY <1>2, <1>3 DEF Referred

LEMMA PieceNeighbours ==
    ASSUME NEW e, e.routes # <<>>, NEW any \in BOOLEAN, NEW s, NEW b, NEW c, NEW r \in ToSet(e.routes), NEW x,
           IF any THEN x \in Bits(r.target) ELSE b \in r.low .. r.high /\ x = r.tlow + b - r.low
    PROVE  <<r.target, x, c>> \in Neighbours(e, <<s, b, c>>, any)
<1> DEFINE node == <<s, b, c>>
           to(q) == {q.target} \X (IF any THEN Bits(q.target) ELSE {q.tlow + z - q.low : z \in {node[2]} \cap (q.low .. q.high)})
<1>1. Neighbours(e, node, any) = UNION {Places(node, to(q), node[3]) : q \in ToSet(e.routes)}
  <2>1. Neighbours(e, node, any) = Pieces(e, node, any)
    <3> HIDE DEF node
    <3> QED
      BY NeighboursAre
  <2> HIDE DEF node
  <2> QED
    BY <2>1 DEF Pieces
<1>2. <<r.target, x>> \in to(r)
  OBVIOUS
<1>3. <<r.target, x, c>> \in Places(node, to(r), node[3])
  <2> HIDE DEF to
  <2> QED
    BY <1>2 DEF Places
<1> HIDE DEF node, to
<1>4. <<r.target, x, c>> \in Neighbours(e, node, any)
  BY <1>1, <1>3
<1> QED
  BY <1>4 DEF node

LEMMA DirectBeyond ==
    ASSUME NEW e, NEW s, NEW b, NEW any, e.path # s, e.path \in Names(netlist), NEW x \in Bits(e.path)
    PROVE  <<e.path, x>> \in Beyond(e, s, b, any)
<1>1. (ToSet(<<e.path>>) \cap Names(netlist)) \ {s} = {e.path}
  BY DEF ToSet
<1> QED
  BY <1>1 DEF Beyond

LEMMA BridgeBeyond ==
    ASSUME NEW e, NEW s, NEW b, NEW any, NEW t, t \in ToSet(SessionBridgeRefs(netlist, opts.drivers, e.path)),
           t # s, t \in Names(netlist), any \/ e.path \in Names(netlist), NEW x \in BridgeBits(e, s, b, t, any)
    PROVE  <<t, x>> \in Beyond(e, s, b, any)
<1>1. t \in {u \in (ToSet(SessionBridgeRefs(netlist, opts.drivers, e.path)) \cap Names(netlist)) \ {s} :
               any \/ e.path \in Names(netlist)}
  OBVIOUS
<1>2. <<t, x>> \in {<<t, z>> : z \in BridgeBits(e, s, b, t, any)}
  OBVIOUS
<1> QED
  BY <1>1, <1>2 DEF Beyond

LEMMA AnyBridgeBits ==
    ASSUME NEW e, NEW s, NEW b, NEW t
    PROVE  BridgeBits(e, s, b, t, TRUE) = Bits(t)
BY DEF BridgeBits

(* An edge that is followed.                                               *)
Followed(f) == EdgeFits(f) /\ ~Marker(f.edge) /\ ~Outside(f)

LEMMA WholeCall ==
    ASSUME TraceAsked, NEW f, Followed(f), NEW t \in Names(netlist), NEW cone \in Nat,
           NEW a \in BOOLEAN, Approximate(f) => a,
           \A o, b : SameRecord(o, f.edge) => \A x \in Bits(t) : <<t, x, cone>> \in Neighbours(o, <<f.sig, b, f.cone>>, TRUE),
           \A o, b : IsUsed(f, o, b) /\ ~a => \A x \in Bits(t) : <<t, x, cone>> \in Neighbours(o, <<f.sig, b, f.cone>>, FALSE)
    PROVE  VisitFits(Call(t, f.depth + 1, cone, {}, a))
<1>1. PICK z \in Bits(t) : TRUE
  BY BitsAre
<1>2. \A o, b : SameRecord(o, f.edge) => <<t, z, cone>> \in Neighbours(o, <<f.sig, b, f.cone>>, TRUE)
  OBVIOUS
<1>3. ASSUME ~a, NEW x \in Bits(t)
      PROVE  \E o, b : IsUsed(f, o, b) /\ <<t, x, cone>> \in Neighbours(o, <<f.sig, b, f.cone>>, FALSE)
  <2>1. PICK o, b : IsUsed(f, o, b)
    BY <1>3, UsedBit DEF Followed
  <2> QED
    BY <1>3, <2>1
<1>4. \E x : \A o, b : SameRecord(o, f.edge) => <<t, x, cone>> \in Neighbours(o, <<f.sig, b, f.cone>>, TRUE)
  BY <1>2
<1>5. ~a => \A x \in (IF {} = {} THEN Bits(t) ELSE UNION {}) :
                        x \in Bits(t) /\ \E o, b : IsUsed(f, o, b) /\ <<t, x, cone>> \in Neighbours(o, <<f.sig, b, f.cone>>, FALSE)
  BY <1>3
<1> QED
  BY <1>4, <1>5, CallFits DEF Followed

LEMMA FollowedIs ==
    ASSUME TraceAsked, NEW f, Followed(f)
    PROVE  /\ f.sig \in Names(netlist) /\ f.cone \in Nat /\ f.cone + 1 \in Nat /\ Approximate(f) \in BOOLEAN /\ opts.cone \in Nat
           /\ SameRecord(f.edge, Endpoint(f)) /\ Endpoint(f).cover = f.edge.cover
           /\ IsList(f.edge.rhs) /\ IsList(f.edge.lhs) /\ IsList(f.edge.routes)
<1>1. /\ f.sig \in Names(netlist) /\ f.cone \in Nat /\ f.failed \in BOOLEAN /\ f.approx \in BOOLEAN /\ HasFields(f.edge)
  BY DEF Followed, EdgeFits, VisitFits
<1>2. PICK o \in ToSet(Edges(f.sig)) : SameRecord(o, f.edge)
  BY DEF Followed, EdgeFits
<1>3. IsEdgeOf(f.sig, o)
  BY <1>1, <1>2, EdgesAre
<1>4. IsList(o.rhs) /\ IsList(o.lhs) /\ IsList(o.routes)
  BY <1>3 DEF IsEdgeOf, IsEndpointOf, IsList
<1> QED
  BY <1>1, <1>2, <1>4, EndpointOf, TraceAskedIs DEF SameRecord

LEMMA AssignmentCalls ==
    ASSUME TraceAsked, NEW f, Followed(f), f.edge.routes = <<>>, f.edge.kind # "port"
    PROVE  AllVisits(Assignment(f).calls)
<1> DEFINE e == Endpoint(f)
           refs == IF opts.drivers THEN e.rhs ELSE e.lhs
           hops == IF opts.hop THEN Direct(f) \o Bridges(f) ELSE <<>>
           deeper == f.cone + 1 < opts.cone
           next == IF ~deeper THEN <<>> ELSE IF refs = <<>> THEN hops ELSE Others(f, refs)
<1>1. Assignment(f).calls = CallsTo(f, next, f.cone + 1)
  BY DEF Assignment, Effect
<1>2. /\ f.cone \in Nat /\ f.cone + 1 \in Nat /\ Approximate(f) \in BOOLEAN /\ opts.cone \in Nat
      /\ IsList(refs) /\ \A o : SameRecord(o, f.edge) => Listed(o) = ToSet(refs) /\ o.routes = <<>> /\ o.kind # "port" /\ o.path = f.edge.path
  BY FollowedIs DEF SameRecord, Listed
<1>3. \A o, b : IsUsed(f, o, b) => SameRecord(o, f.edge)
  BY DEF IsUsed
<1> HIDE DEF refs
<1>4. ASSUME deeper, NEW t \in ToSet(Others(f, refs)) PROVE VisitFits(Down(f, t, f.cone + 1, {}))
  <2>1. t \in ToSet(refs) /\ t # f.sig /\ t \in Names(netlist)
    BY <1>2, OthersAre
  <2>2. ASSUME NEW any \in BOOLEAN, NEW o, NEW b, SameRecord(o, f.edge), NEW x \in Bits(t)
        PROVE  <<t, x, f.cone + 1>> \in Neighbours(o, <<f.sig, b, f.cone>>, any)
    BY <1>2, <1>4, <2>1, <2>2, RefNeighbours
  <2> HIDE DEF deeper
  <2>3. \A o, b : SameRecord(o, f.edge) => \A x \in Bits(t) : <<t, x, f.cone + 1>> \in Neighbours(o, <<f.sig, b, f.cone>>, TRUE)
    BY <2>2
  <2>4. \A o, b : IsUsed(f, o, b) => \A x \in Bits(t) : <<t, x, f.cone + 1>> \in Neighbours(o, <<f.sig, b, f.cone>>, FALSE)
    BY <1>3, <2>2
  <2> QED
    BY <1>2, <2>1, <2>3, <2>4, WholeCall DEF Down
<1>5. ASSUME deeper, refs = <<>>, opts.hop, NEW t \in ToSet(Direct(f)) \cup ToSet(Bridges(f))
      PROVE  VisitFits(Down(f, t, f.cone + 1, {}))
  <2>0. ToSet(refs) = {}
    BY <1>5 DEF ToSet
  <2>1. t # f.sig /\ t \in Names(netlist)
    BY DirectIs
  <2>2. ASSUME NEW o, NEW b, o.path = f.edge.path, NEW x \in Bits(t) PROVE <<t, x>> \in Beyond(o, f.sig, b, TRUE)
    <3>1. CASE t \in ToSet(Direct(f))
      <4>1. t = o.path
        BY <2>2, <3>1, DirectIs
      <4> QED
        BY <2>1, <2>2, <4>1, DirectBeyond
    <3>2. CASE t \in ToSet(Bridges(f))
      <4>1. t \in ToSet(SessionBridgeRefs(netlist, opts.drivers, o.path)) /\ x \in BridgeBits(o, f.sig, b, t, TRUE)
        BY <2>2, <3>2, DirectIs, AnyBridgeBits
      <4> QED
        BY <2>1, <2>2, <4>1, BridgeBeyond
    <3> QED
      BY <3>1, <3>2
  <2>3. ASSUME NEW any \in BOOLEAN, NEW o, NEW b, SameRecord(o, f.edge), NEW x \in Bits(t)
        PROVE  <<t, x, f.cone + 1>> \in Neighbours(o, <<f.sig, b, f.cone>>, any)
    <3> DEFINE p == <<t, x>>
    <3>1. p \in Beyond(o, f.sig, b, TRUE)
      BY <1>2, <2>2, <2>3
    <3>2. o.routes = <<>> /\ o.kind # "port" /\ Listed(o) = {}
      BY <1>2, <2>0, <2>3
    <3>3. p[1] = t /\ p[2] = x
      OBVIOUS
    <3> HIDE DEF p
    <3>4. <<p[1], p[2], f.cone + 1>> \in Neighbours(o, <<f.sig, b, f.cone>>, any)
      BY <1>2, <1>5, <3>1, <3>2, HopNeighbours
    <3> QED
      BY <3>3, <3>4
  <2> HIDE DEF deeper
  <2>4. \A o, b : SameRecord(o, f.edge) => \A x \in Bits(t) : <<t, x, f.cone + 1>> \in Neighbours(o, <<f.sig, b, f.cone>>, TRUE)
    BY <2>3
  <2>5. \A o, b : IsUsed(f, o, b) => \A x \in Bits(t) : <<t, x, f.cone + 1>> \in Neighbours(o, <<f.sig, b, f.cone>>, FALSE)
    BY <1>3, <2>3
  <2> QED
    BY <1>2, <2>1, <2>4, <2>5, WholeCall DEF Down
<1>6. IsList(<<>>) /\ ToSet(<<>>) = {}
  BY DEF IsList, ToSet
<1>7. IsList(hops) /\ \A t \in ToSet(hops) : opts.hop /\ t \in ToSet(Direct(f)) \cup ToSet(Bridges(f))
  BY <1>6, DirectIs, JoinIs
<1> HIDE DEF hops, deeper
<1>8. IsList(next) /\ \A t \in ToSet(next) : VisitFits(Down(f, t, f.cone + 1, {}))
  <2>1. CASE ~deeper
    BY <1>6, <2>1
  <2>2. CASE deeper /\ refs = <<>>
    BY <1>5, <1>7, <2>2
  <2>3. CASE deeper /\ refs # <<>>
    BY <1>2, <1>4, <2>3, OthersAre
  <2> QED
    BY <2>1, <2>2, <2>3
<1> HIDE DEF next
<1> QED
  BY <1>1, <1>8, CallsToAre

LEMMA DirectCalls ==
    ASSUME TraceAsked, NEW f, Followed(f), f.edge.routes = <<>>, f.edge.kind = "port", ~Approximate(f) => f.edge.cover = {}
    PROVE  AllVisits(CallsTo(f, Direct(f), f.cone))
<1>1. f.cone \in Nat /\ Approximate(f) \in BOOLEAN
  BY FollowedIs
<1>2. ASSUME NEW t \in ToSet(Direct(f)) PROVE VisitFits(Down(f, t, f.cone, {}))
  <2>1. t = f.edge.path /\ t # f.sig /\ t \in Names(netlist)
    BY DirectIs
  <2>2. ASSUME NEW any \in BOOLEAN, NEW o, NEW b, SameRecord(o, f.edge), any \/ o.cover = {}, NEW x \in Bits(t)
        PROVE  <<t, x, f.cone>> \in Neighbours(o, <<f.sig, b, f.cone>>, any)
    <3> DEFINE p == <<t, x>>
    <3>1. o.routes = <<>> /\ o.kind = "port" /\ o.path = t
      BY <2>1, <2>2 DEF SameRecord
    <3>2. p \in Beyond(o, f.sig, b, any)
      BY <2>1, <3>1, DirectBeyond
    <3>3. p[1] = t /\ p[2] = x
      OBVIOUS
    <3> HIDE DEF p
    <3>4. <<p[1], p[2], f.cone>> \in Neighbours(o, <<f.sig, b, f.cone>>, any)
      BY <2>2, <3>1, <3>2, PortNeighbours
    <3> QED
      BY <3>3, <3>4
  <2>3. \A o, b : SameRecord(o, f.edge) => \A x \in Bits(t) : <<t, x, f.cone>> \in Neighbours(o, <<f.sig, b, f.cone>>, TRUE)
    BY <2>2
  <2>4. \A o, b : IsUsed(f, o, b) /\ ~Approximate(f) => SameRecord(o, f.edge) /\ o.cover = {}
    BY DEF IsUsed, ExactlyOf
  <2>5. \A o, b : IsUsed(f, o, b) /\ ~Approximate(f) => \A x \in Bits(t) : <<t, x, f.cone>> \in Neighbours(o, <<f.sig, b, f.cone>>, FALSE)
    BY <2>2, <2>4
  <2> QED
    BY <1>1, <2>1, <2>3, <2>5, WholeCall DEF Down
<1> QED
  BY <1>2, DirectIs, CallsToAre

LEMMA RootDomainIs ==
    ASSUME TraceAsked
    PROVE  /\ \A D \in RootDomain : D = Selected /\ D \subseteq Bits(opts.root)
           /\ RootDomain # {} => RootDomain = {Selected}
           /\ RootDomain = {} => opts.select = <<>> \/ Whole(netlist, opts.root) = {}
           /\ opts.select = <<>> => RootDomain = {} /\ Selected = Bits(opts.root)
<1>1. \A D \in RootDomain : opts.select # <<>> /\ Whole(netlist, opts.root) # {} /\ D = Span(opts.select)
  BY DEF RootDomain
<1>2. Whole(netlist, opts.root) # {} => Whole(netlist, opts.root) = {Bits(opts.root)}
  BY BitsAre, TraceAskedIs
<1>3. opts.select # <<>> => \A w \in Whole(netlist, opts.root) : Span(opts.select) \subseteq w
  <2>1. netlist \in Netlists /\ opts \in TraceRequests /\ opts.root \in Names(netlist)
    BY DEF TraceAsked
  <2> QED
    BY <2>1, TraceAssumption
<1>4. opts.select # <<>> /\ Whole(netlist, opts.root) # {} => RootDomain # {}
  BY DEF RootDomain
<1>5. Selected = IF opts.select # <<>> THEN Span(opts.select) ELSE Bits(opts.root)
  BY DEF Selected
<1>6. \A D \in RootDomain : D = Selected /\ D \subseteq Bits(opts.root)
  BY <1>1, <1>2, <1>3, <1>5
<1> QED
  BY <1>1, <1>4, <1>5, <1>6

(* The bits that a compact port maps are bits of the call.                 *)
CompactDomain(f) == IF f.domain # {} THEN f.domain
             ELSE IF f.sig = opts.root /\ RootDomain # {} THEN RootDomain ELSE Whole(netlist, f.sig)

LEMMA CompactBits ==
    ASSUME TraceAsked, NEW f, f.sig \in Names(netlist)
    PROVE  UNION CompactDomain(f) \subseteq TaskBits(f)
<1>1. CASE f.domain # {}
  BY <1>1 DEF CompactDomain, TaskBits
<1>2. CASE f.domain = {} /\ f.sig = opts.root /\ RootDomain # {}
  <2>1. CompactDomain(f) = {Selected} /\ Selected \subseteq Bits(f.sig)
    BY <1>2, RootDomainIs DEF CompactDomain
  <2> QED
    BY <1>2, <2>1 DEF TaskBits
<1>3. CASE f.domain = {} /\ ~(f.sig = opts.root /\ RootDomain # {})
  <2>1. CompactDomain(f) = Whole(netlist, f.sig)
    BY <1>3 DEF CompactDomain
  <2>2. CASE Whole(netlist, f.sig) = {}
    BY <2>1, <2>2
  <2>3. CASE Whole(netlist, f.sig) # {}
    <3>1. Whole(netlist, f.sig) = {Bits(f.sig)}
      BY <2>3, BitsAre
    <3>2. f.sig = opts.root => Selected = Bits(f.sig)
      BY <1>3, <2>3, RootDomainIs
    <3> QED
      BY <1>3, <2>1, <3>1, <3>2 DEF TaskBits
  <2> QED
    BY <2>2, <2>3
<1> QED
  BY <1>1, <1>2, <1>3

LEMMA RouteIs ==
    ASSUME TraceAsked, NEW f, Followed(f), NEW r \in ToSet(f.edge.routes)
    PROVE  /\ r.target \in Names(netlist)
           /\ \A b \in r.low .. r.high : r.tlow + b - r.low \in Bits(r.target)
           /\ ~Approximate(f) => \A b \in TaskBits(f) \cap (r.low .. r.high) : \E o : IsUsed(f, o, b)
<1>1. PICK o \in ToSet(Edges(f.sig)) : SameRecord(o, f.edge) /\ (~Approximate(f) => ExactlyOf(f, o))
  BY DEF Followed, EdgeFits
<1>2. IsEdgeOf(f.sig, o)
  BY <1>1, FollowedIs, EdgesAre
<1>3. r \in ToSet(o.routes) /\ ~Marker(o)
  BY <1>1 DEF SameRecord, Marker, Followed
<1>4. /\ r.low .. r.high \subseteq o.cover /\ r.target \in Names(netlist)
      /\ \A b \in r.low .. r.high : r.tlow + b - r.low \in 0 .. netlist.width[r.target] - 1
  BY <1>2, <1>3 DEF IsEdgeOf, IsEndpointOf
<1>5. \A b \in r.low .. r.high : r.tlow + b - r.low \in Bits(r.target)
  BY <1>4, BitsAre
<1>6. ASSUME ~Approximate(f), NEW b \in TaskBits(f) \cap (r.low .. r.high) PROVE IsUsed(f, o, b)
  <2>1. b \in o.cover
    BY <1>4
  <2>2. Concerns(o, f.sig, b)
    BY <1>3, <2>1 DEF Concerns
  <2> QED
    BY <1>1, <1>3, <1>6, <2>2 DEF IsUsed
<1> QED
  BY <1>4, <1>5, <1>6

LEMMA CompactCalls ==
    ASSUME TraceAsked, NEW f, Followed(f), f.edge.routes # <<>>
    PROVE  AllVisits(CompactPort(f).calls)
<1> DEFINE e == f.edge
           bits == UNION CompactDomain(f)
           runs(r) == ToSet(Runs(bits \cap (r.low .. r.high)))
           pieces == UNION {{i} \X runs(e.routes[i]) : i \in DOMAIN e.routes}
           used == {i \in DOMAIN e.routes : Mapped(e.routes[i], bits) # {}}
           first == {i \in used : \A j \in used : j < i => e.routes[j].target # e.routes[i].target}
           domain(t) == UNION {Mapped(r, bits) : r \in {x \in ToSet(e.routes) : x.target = t}}
           down(t) == Down(f, t, f.cone, {domain(t)})
           all == [i \in DOMAIN e.routes |-> down(e.routes[i].target)]
           n == Len(e.routes)
<1>1. CompactPort(f) = IF CompactDomain(f) = {} THEN Stop("owner-layout", e.path)
                       ELSE IF Cardinality(pieces) > kRoutePieces THEN Stop("route-cap", e.path)
                       ELSE [Effect EXCEPT !.calls = Picked(all, first)]
  BY DEF CompactPort, CompactDomain
<1>2. \A reason, name : Stop(reason, name).calls = <<>>
  BY DEF Stop, Effect
<1>3. \A c : [Effect EXCEPT !.calls = c].calls = c
  BY DEF Effect
<1>4. n \in Nat /\ DOMAIN e.routes = 1 .. n /\ \A i \in 1 .. n : e.routes[i] \in ToSet(e.routes)
  BY FollowedIs, DomainIs DEF IsList, ToSet
<1>5. f.cone \in Nat /\ Approximate(f) \in BOOLEAN /\ bits \subseteq TaskBits(f)
  BY FollowedIs, CompactBits
<1>6. ASSUME NEW q \in ToSet(e.routes) PROVE down(q.target).task = "visit" /\ VisitFits(down(q.target))
  <2> DEFINE t == q.target
             D == domain(t)
  <2>1. t \in Names(netlist)
    BY RouteIs
  <2>2. PICK z \in Bits(t) : TRUE
    BY <2>1, BitsAre
  <2>3. \A o, b : SameRecord(o, e) => <<t, z, f.cone>> \in Neighbours(o, <<f.sig, b, f.cone>>, TRUE)
    <3> SUFFICES ASSUME NEW o, NEW b, SameRecord(o, e)
                 PROVE  <<t, z, f.cone>> \in Neighbours(o, <<f.sig, b, f.cone>>, TRUE)
      OBVIOUS
    <3>1. o.routes # <<>> /\ q \in ToSet(o.routes)
      BY DEF SameRecord
    <3> QED
      BY <2>2, <3>1, PieceNeighbours
  <2>4. ASSUME ~Approximate(f), NEW x \in D
        PROVE  x \in Bits(t) /\ \E o, b : IsUsed(f, o, b) /\ <<t, x, f.cone>> \in Neighbours(o, <<f.sig, b, f.cone>>, FALSE)
    <3>1. PICK r \in ToSet(e.routes) : r.target = t /\ x \in Mapped(r, bits)
      BY <2>4
    <3>2. PICK b \in bits \cap (r.low .. r.high) : x = r.tlow + b - r.low
      BY <3>1 DEF Mapped
    <3>3. x \in Bits(t)
      BY <3>1, <3>2, RouteIs
    <3>4. b \in TaskBits(f) \cap (r.low .. r.high)
      BY <1>5, <3>2
    <3>5. PICK o : IsUsed(f, o, b)
      BY <2>4, <3>4, RouteIs
    <3>6. o.routes = e.routes
      BY <3>5 DEF IsUsed, SameRecord
    <3>7. <<r.target, x, f.cone>> \in Neighbours(o, <<f.sig, b, f.cone>>, FALSE)
      BY <3>2, <3>6, PieceNeighbours
    <3> QED
      BY <3>1, <3>3, <3>5, <3>7
  <2> HIDE DEF D, bits
  <2>5. ~Approximate(f) => \A x \in (IF {D} = {} THEN Bits(t) ELSE UNION {D}) :
          x \in Bits(t) /\ \E o, b : IsUsed(f, o, b) /\ <<t, x, f.cone>> \in Neighbours(o, <<f.sig, b, f.cone>>, FALSE)
    BY <2>4
  <2>6. \E x : \A o, b : SameRecord(o, e) => <<t, x, f.cone>> \in Neighbours(o, <<f.sig, b, f.cone>>, TRUE)
    BY <2>3
  <2>7. VisitFits(Call(t, f.depth + 1, f.cone, {D}, Approximate(f)))
    BY <1>5, <2>1, <2>5, <2>6, CallFits DEF Followed
  <2>8. down(t) = Call(t, f.depth + 1, f.cone, {D}, Approximate(f))
    BY DEF Down, D
  <2>9. down(t).task = "visit"
    <3> HIDE DEF down
    <3> QED
      BY <2>8, CallIs
  <2> HIDE DEF down
  <2> QED
    BY <2>7, <2>8, <2>9
<1> HIDE DEF bits, domain
<1>7. first \subseteq 1 .. n
  BY <1>4
<1>8. all = [i \in 1 .. n |-> down(e.routes[i].target)]
  BY <1>4
<1> HIDE DEF down, first, pieces, n
<1>9. all \in Seq({down(e.routes[i].target) : i \in 1 .. n}) /\ DOMAIN all = 1 .. n
  BY <1>4, <1>8
<1>10. IsList(all)
  BY <1>9, ListIs
<1>11. IsList(Picked(all, first)) /\ ToSet(Picked(all, first)) = {all[i] : i \in first}
  <2> HIDE DEF all
  <2> QED
    BY <1>7, <1>9, <1>10, KeptIs
<1>12. AllVisits(Picked(all, first))
  <2>1. \A i \in first : all[i].task = "visit" /\ VisitFits(all[i])
    BY <1>4, <1>6, <1>7, <1>8
  <2> HIDE DEF all
  <2> QED
    BY <1>11, <2>1 DEF AllVisits
<1> HIDE DEF all
<1>13. CompactPort(f).calls \in {<<>>, Picked(all, first)}
  <2>1. CASE CompactDomain(f) = {} \/ Cardinality(pieces) > kRoutePieces
    <3>1. \E reason, name : CompactPort(f) = Stop(reason, name)
      BY <1>1, <2>1
    <3> QED
      BY <1>2, <3>1
  <2>2. CASE ~(CompactDomain(f) = {} \/ Cardinality(pieces) > kRoutePieces)
    <3>1. CompactPort(f) = [Effect EXCEPT !.calls = Picked(all, first)]
      BY <1>1, <2>2
    <3> QED
      BY <1>3, <3>1
  <2> QED
    BY <2>1, <2>2
<1> QED
  BY <1>12, <1>13, NoVisits

---------------------------------------------------------------------------
(* Bridges.                                                                *)
Bridged(source, t, domain) == SessionPortBridgeDomain(netlist, opts.drivers, source, t, domain)
Touches(N, domain) == \A b \in domain : N \cap b # {}

(* D is what is bridged: each of its bits is a bit of t, and beyond some    *)
(* bits of the source that the domain touches.                              *)
BridgesTo(source, t, domain, D) ==
  /\ Bridged(source, t, domain) = {D} /\ D \subseteq Bits(t)
  /\ \A x \in D : \E N : /\ N # {} /\ N \subseteq Bits(source) /\ NoBit \notin N
                         /\ Whole(netlist, source) = {Bits(source)} /\ Touches(N, domain)
                         /\ \A other : Touches(N, other) => x \in UNION Bridged(source, t, other)

LEMMA BridgedIs ==
    ASSUME TraceAsked, NEW source \in Names(netlist), NEW t \in Names(netlist), NEW domain
    PROVE  /\ Bridged(source, t, domain) = {} => \A other : Bridged(source, t, other) = {}
           /\ Bridged(source, t, domain) # {} => \E D : BridgesTo(source, t, domain, D)
<1> DEFINE opposite == ToSet(IF opts.drivers THEN netlist.loads[t] ELSE netlist.drivers[t])
           related == {e \in opposite : e.cover # {} /\ ~Marker(e) /\ e.path = source}
           native(e) == PortNativeDomain(netlist, e, source)
           meets(e, S) == \A a \in native(e), b \in S : a \cap b # {}
           known == ~(related = {} \/ \E e \in related : native(e) = {})
           found(S) == UNION {e.cover : e \in {f \in related : meets(f, S)}}
<1>1. \A S : Bridged(source, t, S) = IF ~known THEN {} ELSE {found(S)}
  BY DEF Bridged, SessionPortBridgeDomain
<1>2. ASSUME NEW e \in related, known
      PROVE  /\ e.cover \subseteq Bits(t)
             /\ \E N : /\ native(e) = {N} /\ N # {} /\ N \subseteq Bits(source) /\ NoBit \notin N
                       /\ Whole(netlist, source) = {Bits(source)}
  <2>1. e \in ToSet(netlist.loads[t]) \cup ToSet(netlist.drivers[t])
    OBVIOUS
  <2>2. IsEndpointOf(netlist, t, e)
    BY <2>1, TraceAskedIs
  <2>3. IsEndpointRecord(e) /\ e.cover \subseteq 0 .. netlist.width[t] - 1
    BY <2>2 DEF IsEndpointOf
  <2>4. e.cover \subseteq Bits(t)
    BY <2>3, BitsAre
  <2>5. native(e) # {}
    BY <1>2
  <2> HIDE DEF related, known
  <2>6. PICK N : /\ native(e) = {N} /\ N # {} /\ N \subseteq Bits(source) /\ N \subseteq 0 .. netlist.width[source] - 1
                 /\ Whole(netlist, source) = {Bits(source)}
    BY <2>3, <2>5, NativeIs
  <2>7. NoBit \notin N
    BY <2>6, BitsAre
  <2> QED
    BY <2>4, <2>6, <2>7
<1>3. ASSUME known
      PROVE  /\ found(domain) \subseteq Bits(t)
             /\ \A x \in found(domain) : \E N : /\ N # {} /\ N \subseteq Bits(source) /\ NoBit \notin N
                                              /\ Whole(netlist, source) = {Bits(source)} /\ Touches(N, domain)
                                              /\ \A other : Touches(N, other) => x \in UNION Bridged(source, t, other)
  <2> SUFFICES ASSUME NEW x \in found(domain)
               PROVE  /\ x \in Bits(t)
                      /\ \E N : /\ N # {} /\ N \subseteq Bits(source) /\ NoBit \notin N
                                /\ Whole(netlist, source) = {Bits(source)} /\ Touches(N, domain)
                                /\ \A other : Touches(N, other) => x \in UNION Bridged(source, t, other)
    OBVIOUS
  <2>1. PICK e \in related : x \in e.cover /\ meets(e, domain)
    OBVIOUS
  <2> HIDE DEF related, known
  <2>2. PICK N : /\ native(e) = {N} /\ N # {} /\ N \subseteq Bits(source) /\ NoBit \notin N
                 /\ Whole(netlist, source) = {Bits(source)}
    BY <1>2, <1>3
  <2> HIDE DEF native
  <2>3. \A S : meets(e, S) <=> Touches(N, S)
    BY <2>2 DEF Touches
  <2>4. x \in Bits(t)
    BY <1>2, <1>3, <2>1
  <2>5. \A other : Touches(N, other) => x \in UNION Bridged(source, t, other)
    <3> SUFFICES ASSUME NEW other, Touches(N, other) PROVE x \in UNION Bridged(source, t, other)
      OBVIOUS
    <3>1. meets(e, other)
      BY <2>3
    <3> HIDE DEF meets
    <3>2. x \in found(other)
      BY <2>1, <3>1
    <3> HIDE DEF found
    <3> QED
      BY <1>1, <1>3, <3>2
  <2> QED
    BY <2>1, <2>2, <2>3, <2>4, <2>5
<1> HIDE DEF known, found
<1>4. CASE ~known
  BY <1>1, <1>4
<1>5. CASE known
  <2>1. BridgesTo(source, t, domain, found(domain))
    BY <1>1, <1>3, <1>5 DEF BridgesTo
  <2> QED
    BY <1>1, <1>5, <2>1
<1> QED
  BY <1>4, <1>5

LEMMA PortUse ==
    ASSUME TraceAsked, NEW f, Followed(f), f.edge.kind = "port", f.edge.cover = {}, ~Approximate(f)
    PROVE  /\ \E o : /\ SameRecord(o, f.edge) /\ o.cover = {}
                     /\ \A b \in TaskBits(f) : IsUsed(f, o, b)
           /\ TaskBits(f) # {}
<1>1. PICK o, c : IsUsed(f, o, c)
  BY UsedBit DEF Followed
<1>2. /\ o \in ToSet(Edges(f.sig)) /\ SameRecord(o, f.edge) /\ ExactlyOf(f, o) /\ ~Marker(o) /\ c \in TaskBits(f)
  BY <1>1 DEF IsUsed
<1>3. o.cover = {} /\ o.kind = "port"
  BY <1>2 DEF ExactlyOf, SameRecord
<1>4. IsEdgeOf(f.sig, o)
  BY <1>2, FollowedIs, EdgesAre
<1>5. ParseExactBitMapText(o.bits) = {}
  BY <1>3, <1>4, NoBits DEF IsEdgeOf, IsEndpointOf
<1>6. \A b : Concerns(o, f.sig, b)
  BY <1>2, <1>3, <1>5 DEF Concerns
<1> QED
  BY <1>2, <1>3, <1>6 DEF IsUsed

BridgeSelected(f) ==
  IF f.edge.path = f.sig /\ f.domain # {} THEN f.domain
  ELSE IF f.edge.path = opts.root THEN RootDomain ELSE {}
BitSelected(e, s, b) ==
  IF e.path = s THEN {{b} \ {NoBit}} \ {{}} ELSE IF e.path = opts.root THEN RootDomain ELSE {}

(* If a coverage touches what the code selects, it touches a bit of the    *)
(* call.                                                                   *)
LEMMA TouchedBit ==
    ASSUME TraceAsked, NEW f, Followed(f), f.edge.kind = "port", f.edge.cover = {}, ~Approximate(f),
           NEW N, N # {}, N \subseteq Bits(f.edge.path), NoBit \notin N,
           Whole(netlist, f.edge.path) # {}, Touches(N, BridgeSelected(f))
    PROVE  \E b \in TaskBits(f) : Touches(N, BitSelected(f.edge, f.sig, b))
<1>1. CASE f.edge.path # f.sig
  <2>1. PICK b \in TaskBits(f) : TRUE
    BY PortUse
  <2>2. BitSelected(f.edge, f.sig, b) = BridgeSelected(f)
    BY <1>1 DEF BitSelected, BridgeSelected
  <2> QED
    BY <2>1, <2>2
<1>2. CASE f.edge.path = f.sig
  <2>1. ASSUME NEW b \in N PROVE Touches(N, BitSelected(f.edge, f.sig, b))
    <3>1. BitSelected(f.edge, f.sig, b) = {{b}}
      BY <1>2 DEF BitSelected
    <3> QED
      BY <3>1 DEF Touches
  <2>2. \E b \in N : b \in TaskBits(f)
    <3>1. CASE f.domain # {}
      <4>1. BridgeSelected(f) = f.domain
        BY <1>2, <3>1 DEF BridgeSelected
      <4>2. PICK D : D \in f.domain
        BY <3>1
      <4>3. PICK b \in N : b \in D
        BY <4>1, <4>2 DEF Touches
      <4> QED
        BY <3>1, <4>2, <4>3 DEF TaskBits
    <3>2. CASE f.domain = {} /\ f.sig = opts.root /\ f.depth = 0
      <4>1. BridgeSelected(f) = RootDomain
        BY <1>2, <3>2 DEF BridgeSelected
      <4>2. TaskBits(f) = Selected
        BY <3>2 DEF TaskBits
      <4>3. CASE RootDomain = {}
        <5>1. Selected = Bits(f.sig)
          BY <1>2, <3>2, <4>3, RootDomainIs
        <5> QED
          BY <1>2, <4>2, <5>1
      <4>4. CASE RootDomain # {}
        <5>1. RootDomain = {Selected}
          BY <4>4, RootDomainIs
        <5>2. PICK b \in N : b \in Selected
          BY <4>1, <5>1 DEF Touches
        <5> QED
          BY <4>2, <5>2
      <4> QED
        BY <4>3, <4>4
    <3>3. CASE f.domain = {} /\ ~(f.sig = opts.root /\ f.depth = 0)
      <4>1. TaskBits(f) = Bits(f.sig)
        BY <3>3 DEF TaskBits
      <4> QED
        BY <1>2, <4>1
    <3> QED
      BY <3>1, <3>2, <3>3
  <2> QED
    BY <2>1, <2>2
<1> QED
  BY <1>1, <1>2

LEMMA BridgeBitsAre ==
    ASSUME NEW e, NEW s, NEW b, NEW t
    PROVE  LET domain == Bridged(e.path, t, BitSelected(e, s, b))
           IN  /\ ~netlist.covered => BridgeBits(e, s, b, t, FALSE) = Bits(t)
               /\ domain = {} /\ Whole(netlist, t) = {} => BridgeBits(e, s, b, t, FALSE) = Bits(t)
               /\ netlist.covered /\ domain # {} => BridgeBits(e, s, b, t, FALSE) = UNION domain
BY DEF BridgeBits, Bridged, BitSelected

LEMMA BridgeToAll ==
    ASSUME NEW e, NEW s, NEW b, NEW t, Bridged(e.path, t, BitSelected(e, s, b)) = {}, Whole(netlist, t) = {}
    PROVE  BridgeBits(e, s, b, t, FALSE) = Bits(t)
BY BridgeBitsAre, Zenon

LEMMA BridgeToSome ==
    ASSUME NEW e, NEW s, NEW b, NEW t, netlist.covered, Bridged(e.path, t, BitSelected(e, s, b)) # {}
    PROVE  BridgeBits(e, s, b, t, FALSE) = UNION Bridged(e.path, t, BitSelected(e, s, b))
<1> DEFINE D == Bridged(e.path, t, BitSelected(e, s, b))
<1>1. netlist.covered /\ D # {} => BridgeBits(e, s, b, t, FALSE) = UNION D
  BY BridgeBitsAre, Zenon
<1> QED
  BY <1>1

LEMMA BridgeNeighbours ==
    ASSUME TraceAsked, NEW f, Followed(f), f.edge.routes = <<>>, f.edge.kind = "port", f.edge.path \in Names(netlist),
           NEW t \in ToSet(Bridges(f))
    PROVE  /\ \A o, b : SameRecord(o, f.edge) => \A x \in Bits(t) : <<t, x, f.cone>> \in Neighbours(o, <<f.sig, b, f.cone>>, TRUE)
           /\ \A o, b : SameRecord(o, f.edge) /\ o.cover = {} => \A x \in BridgeBits(o, f.sig, b, t, FALSE) :
                <<t, x, f.cone>> \in Neighbours(o, <<f.sig, b, f.cone>>, FALSE)
<1>1. t \in ToSet(SessionBridgeRefs(netlist, opts.drivers, f.edge.path)) /\ t # f.sig /\ t \in Names(netlist)
  BY DirectIs
<1>2. ASSUME NEW any \in BOOLEAN, NEW o, NEW b, SameRecord(o, f.edge), any \/ o.cover = {},
             NEW x \in BridgeBits(o, f.sig, b, t, any)
      PROVE  <<t, x, f.cone>> \in Neighbours(o, <<f.sig, b, f.cone>>, any)
  <2> DEFINE p == <<t, x>>
  <2>1. o.routes = <<>> /\ o.kind = "port" /\ o.path = f.edge.path
    BY <1>2 DEF SameRecord
  <2>2. p \in Beyond(o, f.sig, b, any)
    BY <1>1, <2>1, BridgeBeyond
  <2>3. p[1] = t /\ p[2] = x
    OBVIOUS
  <2> HIDE DEF p
  <2>4. <<p[1], p[2], f.cone>> \in Neighbours(o, <<f.sig, b, f.cone>>, any)
    BY <1>2, <2>1, <2>2, PortNeighbours
  <2> QED
    BY <2>3, <2>4
<1>3. \A o, b : SameRecord(o, f.edge) => \A x \in Bits(t) : <<t, x, f.cone>> \in Neighbours(o, <<f.sig, b, f.cone>>, TRUE)
  <2> SUFFICES ASSUME NEW o, NEW b, SameRecord(o, f.edge), NEW x \in Bits(t)
               PROVE  <<t, x, f.cone>> \in Neighbours(o, <<f.sig, b, f.cone>>, TRUE)
    OBVIOUS
  <2>1. x \in BridgeBits(o, f.sig, b, t, TRUE)
    BY AnyBridgeBits
  <2> QED
    BY <1>2, <2>1
<1>4. \A o, b : SameRecord(o, f.edge) /\ o.cover = {} => \A x \in BridgeBits(o, f.sig, b, t, FALSE) :
        <<t, x, f.cone>> \in Neighbours(o, <<f.sig, b, f.cone>>, FALSE)
  BY <1>2
<1> QED
  BY <1>3, <1>4

LEMMA BridgeCall ==
    ASSUME TraceAsked, NEW f, Followed(f), f.edge.routes = <<>>, f.edge.kind = "port", ~Approximate(f) => f.edge.cover = {},
           f.edge.path \in Names(netlist), NEW t \in ToSet(Bridges(f)), NEW a \in BOOLEAN, Approximate(f) => a
    PROVE  /\ a \/ ~netlist.covered => VisitFits(Call(t, f.depth + 1, f.cone, {}, a))
           /\ ~a /\ netlist.covered =>
                LET domain == Bridged(f.edge.path, t, BridgeSelected(f))
                    unproven == domain = {} /\ (BridgeSelected(f) # {} \/ Whole(netlist, t) # {})
                IN  VisitFits(Call(t, f.depth + 1, f.cone, domain, unproven))
<1> DEFINE path == f.edge.path
           domain == Bridged(path, t, BridgeSelected(f))
           unproven == domain = {} /\ (BridgeSelected(f) # {} \/ Whole(netlist, t) # {})
<1>1. t \in Names(netlist) /\ f.cone \in Nat
  BY DirectIs, FollowedIs
<1>2. \A o, b : SameRecord(o, f.edge) => \A x \in Bits(t) : <<t, x, f.cone>> \in Neighbours(o, <<f.sig, b, f.cone>>, TRUE)
  BY BridgeNeighbours
<1>3. \A o, b : SameRecord(o, f.edge) /\ o.cover = {} => \A x \in BridgeBits(o, f.sig, b, t, FALSE) :
        <<t, x, f.cone>> \in Neighbours(o, <<f.sig, b, f.cone>>, FALSE)
  BY BridgeNeighbours
<1>4. ASSUME NEW c \in BOOLEAN, Approximate(f) => c,
             ~c => \A o, b : IsUsed(f, o, b) => BridgeBits(o, f.sig, b, t, FALSE) = Bits(t)
      PROVE  VisitFits(Call(t, f.depth + 1, f.cone, {}, c))
  <2>1. \A o, b : IsUsed(f, o, b) /\ ~c => SameRecord(o, f.edge) /\ o.cover = {}
    BY <1>4 DEF IsUsed, ExactlyOf
  <2>2. \A o, b : IsUsed(f, o, b) /\ ~c => \A x \in Bits(t) : <<t, x, f.cone>> \in Neighbours(o, <<f.sig, b, f.cone>>, FALSE)
    BY <1>3, <1>4, <2>1
  <2> QED
    BY <1>1, <1>2, <1>4, <2>2, WholeCall
<1>5. a \/ ~netlist.covered => VisitFits(Call(t, f.depth + 1, f.cone, {}, a))
  <2>1. ~netlist.covered => \A o, b : BridgeBits(o, f.sig, b, t, FALSE) = Bits(t)
    BY BridgeBitsAre
  <2> QED
    BY <1>4, <2>1
<1>6. ASSUME ~a, unproven PROVE VisitFits(Call(t, f.depth + 1, f.cone, domain, unproven))
  <2>1. VisitFits(Call(t, f.depth + 1, f.cone, {}, TRUE))
    BY <1>4
  <2>2. domain = {} /\ unproven \in BOOLEAN
    BY <1>6
  <2> HIDE DEF domain, unproven
  <2>3. unproven = TRUE
    BY <1>6, <2>2, Zenon
  <2> QED
    BY <2>1, <2>2, <2>3
<1>7. ASSUME ~a, ~unproven, domain = {} PROVE VisitFits(Call(t, f.depth + 1, f.cone, domain, unproven))
  <2>1. Whole(netlist, t) = {} /\ \A other : Bridged(path, t, other) = {}
    BY <1>1, <1>7, BridgedIs
  <2>2. \A o, b : IsUsed(f, o, b) => o.path = path
    BY DEF IsUsed, SameRecord
  <2>3. \A o, b : IsUsed(f, o, b) => BridgeBits(o, f.sig, b, t, FALSE) = Bits(t)
    <3> SUFFICES ASSUME NEW o, NEW b, IsUsed(f, o, b) PROVE BridgeBits(o, f.sig, b, t, FALSE) = Bits(t)
      OBVIOUS
    <3>1. Bridged(o.path, t, BitSelected(o, f.sig, b)) = {}
      BY <2>1, <2>2
    <3> HIDE DEF domain, unproven, path
    <3>2. Bridged(o.path, t, BitSelected(o, f.sig, b)) = {} /\ Whole(netlist, t) = {}
      BY <2>1, <3>1
    <3> QED
      BY <3>2, BridgeToAll
  <2>4. VisitFits(Call(t, f.depth + 1, f.cone, {}, FALSE))
    BY <1>4, <1>7, <2>3
  <2>5. unproven \in BOOLEAN
    OBVIOUS
  <2> HIDE DEF domain, unproven
  <2>6. unproven = FALSE
    BY <1>7, <2>5
  <2> QED
    BY <1>7, <2>4, <2>6
<1>8. ASSUME ~a, netlist.covered, domain # {} PROVE VisitFits(Call(t, f.depth + 1, f.cone, domain, unproven))
  <2>0. PICK D : BridgesTo(path, t, BridgeSelected(f), D)
    BY <1>1, <1>8, BridgedIs
  <2>1. /\ domain = {D} /\ D \subseteq Bits(t)
        /\ \A x \in D : \E N : /\ N # {} /\ N \subseteq Bits(path) /\ NoBit \notin N
                               /\ Whole(netlist, path) = {Bits(path)} /\ Touches(N, BridgeSelected(f))
                               /\ \A other : Touches(N, other) => x \in UNION Bridged(path, t, other)
    BY <2>0 DEF BridgesTo
  <2>2. unproven = FALSE /\ ~Approximate(f)
    BY <1>8
  <2>3. PICK o : /\ SameRecord(o, f.edge) /\ o.cover = {} /\ \A b \in TaskBits(f) : IsUsed(f, o, b)
    BY <2>2, PortUse
  <2>4. ASSUME NEW x \in D
        PROVE  x \in Bits(t) /\ \E q, b : IsUsed(f, q, b) /\ <<t, x, f.cone>> \in Neighbours(q, <<f.sig, b, f.cone>>, FALSE)
    <3>1. PICK N : /\ N # {} /\ N \subseteq Bits(path) /\ NoBit \notin N
                   /\ Whole(netlist, path) = {Bits(path)} /\ Touches(N, BridgeSelected(f))
                   /\ \A other : Touches(N, other) => x \in UNION Bridged(path, t, other)
      BY <2>1
    <3>2. PICK b \in TaskBits(f) : Touches(N, BitSelected(f.edge, f.sig, b))
      BY <2>2, <3>1, TouchedBit
    <3>3. BitSelected(o, f.sig, b) = BitSelected(f.edge, f.sig, b) /\ o.path = path
      BY <2>3 DEF BitSelected, SameRecord
    <3>4. x \in UNION Bridged(o.path, t, BitSelected(o, f.sig, b))
      BY <3>1, <3>2, <3>3
    <3>5. netlist.covered /\ Bridged(o.path, t, BitSelected(o, f.sig, b)) # {}
      BY <1>8, <3>4
    <3>6. BridgeBits(o, f.sig, b, t, FALSE) = UNION Bridged(o.path, t, BitSelected(o, f.sig, b))
      BY <3>5, BridgeToSome, Zenon
    <3> QED
      BY <1>3, <2>1, <2>3, <3>2, <3>4, <3>6
  <2>5. PICK z \in Bits(t) : TRUE
    BY <1>1, BitsAre
  <2>6. \E x : \A q, b : SameRecord(q, f.edge) => <<t, x, f.cone>> \in Neighbours(q, <<f.sig, b, f.cone>>, TRUE)
    BY <1>2, <2>5
  <2>7. \A x \in (IF {D} = {} THEN Bits(t) ELSE UNION {D}) :
          x \in Bits(t) /\ \E q, b : IsUsed(f, q, b) /\ <<t, x, f.cone>> \in Neighbours(q, <<f.sig, b, f.cone>>, FALSE)
    BY <2>4
  <2>8. VisitFits(Call(t, f.depth + 1, f.cone, {D}, FALSE))
    BY <1>1, <2>2, <2>6, <2>7, CallFits DEF Followed
  <2> HIDE DEF domain, unproven
  <2> QED
    BY <2>1, <2>2, <2>8
<1> HIDE DEF domain, unproven
<1>9. ~a /\ netlist.covered => VisitFits(Call(t, f.depth + 1, f.cone, domain, unproven))
  BY <1>6, <1>7, <1>8
<1> QED
  BY <1>5, <1>9 DEF domain, unproven

BridgeDomains(f) == {{}} \cup {Bridged(f.edge.path, t, BridgeSelected(f)) : t \in Names(netlist)}
BridgeVisits(f) ==
  {c \in {Call(t, f.depth + 1, f.cone, domain, a) : t \in Names(netlist), domain \in BridgeDomains(f), a \in BOOLEAN} :
     VisitFits(c)}
BridgeStates(f) ==
  {s \in [approx: BOOLEAN, stops: SUBSET ({"bridge-domain"} \X Names(netlist)), calls: Seq(BridgeVisits(f))] :
     Approximate(f) => s.approx}

LEMMA CallAdded ==
    ASSUME NEW s, NEW c, s = [approx |-> s.approx, stops |-> s.stops, calls |-> s.calls]
    PROVE  [s EXCEPT !.calls = Append(@, c)] = [approx |-> s.approx, stops |-> s.stops, calls |-> Append(s.calls, c)]
OBVIOUS

LEMMA BridgeStep ==
    ASSUME TraceAsked, NEW f, Followed(f), f.edge.routes = <<>>, f.edge.kind = "port", ~Approximate(f) => f.edge.cover = {},
           f.edge.path \in Names(netlist), NEW t \in ToSet(Bridges(f)), NEW s \in BridgeStates(f)
    PROVE  FollowBridge(f, s, t) \in BridgeStates(f)
<1> DEFINE path == f.edge.path
           domain == Bridged(path, t, BridgeSelected(f))
           unproven == domain = {} /\ (BridgeSelected(f) # {} \/ Whole(netlist, t) # {})
           blind == [s EXCEPT !.calls = Append(@, Call(t, f.depth + 1, f.cone, {}, s.approx))]
           told == [approx |-> unproven,
                    stops |-> s.stops \cup {<<"bridge-domain", u>> : u \in {v \in {t} : unproven}},
                    calls |-> Append(s.calls, Call(t, f.depth + 1, f.cone, domain, unproven))]
<1>1. FollowBridge(f, s, t) = IF s.approx \/ ~netlist.covered THEN blind ELSE told
  BY DEF FollowBridge, Bridged, BridgeSelected
<1>2. /\ s.approx \in BOOLEAN /\ s.stops \in SUBSET ({"bridge-domain"} \X Names(netlist))
      /\ s.calls \in Seq(BridgeVisits(f)) /\ (Approximate(f) => s.approx)
      /\ s = [approx |-> s.approx, stops |-> s.stops, calls |-> s.calls]
  BY DEF BridgeStates
<1>3. t \in Names(netlist) /\ domain \in BridgeDomains(f) /\ {} \in BridgeDomains(f) /\ unproven \in BOOLEAN
  BY DirectIs DEF BridgeDomains
<1>4. /\ s.approx \/ ~netlist.covered => VisitFits(Call(t, f.depth + 1, f.cone, {}, s.approx))
      /\ ~s.approx /\ netlist.covered => VisitFits(Call(t, f.depth + 1, f.cone, domain, unproven))
  BY <1>2, BridgeCall
<1> HIDE DEF domain, unproven
<1>5. CASE s.approx \/ ~netlist.covered
  <2> DEFINE c == Call(t, f.depth + 1, f.cone, {}, s.approx)
  <2>1. c \in BridgeVisits(f)
    BY <1>2, <1>3, <1>4, <1>5 DEF BridgeVisits
  <2>2. blind = [approx |-> s.approx, stops |-> s.stops, calls |-> Append(s.calls, c)]
    <3> HIDE DEF c
    <3>1. s = [approx |-> s.approx, stops |-> s.stops, calls |-> s.calls]
      BY <1>2
    <3> QED
      BY <3>1, CallAdded DEF c
  <2> HIDE DEF c
  <2>3. Append(s.calls, c) \in Seq(BridgeVisits(f))
    BY <1>2, <2>1
  <2>4. blind \in BridgeStates(f)
    <3> HIDE DEF blind
    <3> QED
      BY <1>2, <2>2, <2>3 DEF BridgeStates
  <2> QED
    BY <1>1, <1>5, <2>4
<1>6. CASE ~(s.approx \/ ~netlist.covered)
  <2> DEFINE c == Call(t, f.depth + 1, f.cone, domain, unproven)
             stops == s.stops \cup {<<"bridge-domain", u>> : u \in {v \in {t} : unproven}}
  <2>1. c \in BridgeVisits(f)
    BY <1>3, <1>4, <1>6 DEF BridgeVisits
  <2>2. told = [approx |-> unproven, stops |-> stops, calls |-> Append(s.calls, c)]
    OBVIOUS
  <2>3. stops \in SUBSET ({"bridge-domain"} \X Names(netlist))
    BY <1>2, <1>3
  <2> HIDE DEF c, stops
  <2>4. Append(s.calls, c) \in Seq(BridgeVisits(f))
    BY <1>2, <2>1
  <2>5. told \in BridgeStates(f)
    <3> HIDE DEF told
    <3> QED
      BY <1>2, <1>3, <1>6, <2>2, <2>3, <2>4 DEF BridgeStates
  <2> QED
    BY <1>1, <1>6, <2>5
<1> QED
  BY <1>5, <1>6

LEMMA BridgeCalls ==
    ASSUME TraceAsked, NEW f, Followed(f), f.edge.routes = <<>>, f.edge.kind = "port", ~Approximate(f) => f.edge.cover = {},
           f.edge.path \in Names(netlist), NEW targets, IsList(targets), ToSet(targets) \subseteq ToSet(Bridges(f))
    PROVE  AllVisits(FollowBridges(f, targets).calls)
<1> DEFINE n == Len(targets)
           b == [approx |-> Approximate(f), stops |-> {}, calls |-> <<>>]
           J == [k \in 0 .. n |-> BridgeStates(f)]
           G == [x \in (1 .. n) \X BridgeStates(f) |-> FollowBridge(f, x[2], targets[x[1]])]
           state == CHOOSE g : g = [k \in 0 .. n |-> IF k = 0 THEN b ELSE FollowBridge(f, g[k - 1], targets[k])]
<1>1. FollowBridges(f, targets) = state[n]
  BY DEF FollowBridges
<1>2. n \in Nat /\ \A k \in 1 .. n : targets[k] \in ToSet(Bridges(f))
  BY DomainIs DEF IsList, ToSet
<1>3. b \in BridgeStates(f)
  <2>1. Approximate(f) \in BOOLEAN
    BY FollowedIs
  <2> QED
    BY <2>1 DEF BridgeStates
<1> HIDE DEF n, b
<1>4. \A k \in 1 .. n : \A s \in BridgeStates(f) :
        G[<<k, s>>] = FollowBridge(f, s, targets[k]) /\ FollowBridge(f, s, targets[k]) \in BridgeStates(f)
  <2> SUFFICES ASSUME NEW k \in 1 .. n, NEW s \in BridgeStates(f)
               PROVE  G[<<k, s>>] = FollowBridge(f, s, targets[k]) /\ FollowBridge(f, s, targets[k]) \in BridgeStates(f)
    OBVIOUS
  <2>1. FollowBridge(f, s, targets[k]) \in BridgeStates(f)
    BY <1>2, BridgeStep
  <2> QED
    BY <2>1
<1> HIDE DEF G
<1>5. PICK g : InSteps(g, n, b, G, J)
  <2>1. J \in [0 .. n -> SUBSET BridgeStates(f)] /\ b \in J[0]
    BY <1>2, <1>3
  <2>2. \A k \in 1 .. n : \A s \in J[k - 1] : G[<<k, s>>] \in J[k]
    <3> SUFFICES ASSUME NEW k \in 1 .. n, NEW s \in J[k - 1] PROVE G[<<k, s>>] \in J[k]
      OBVIOUS
    <3>1. k - 1 \in 0 .. n /\ k \in 0 .. n
      BY <1>2
    <3> QED
      BY <1>4, <3>1
  <2> HIDE DEF J
  <2> QED
    BY <1>2, <2>1, <2>2, StepsInside
<1>6. g = [k \in 0 .. n |-> IF k = 0 THEN b ELSE FollowBridge(f, g[k - 1], targets[k])]
  <2>1. ASSUME NEW k \in 0 .. n, k # 0
        PROVE  G[<<k, g[k - 1]>>] = FollowBridge(f, g[k - 1], targets[k])
    <3>1. k - 1 \in 0 .. n /\ k \in 1 .. n
      BY <1>2, <2>1
    <3>2. g[k - 1] \in BridgeStates(f)
      BY <1>5, <3>1 DEF InSteps
    <3> QED
      BY <1>4, <3>1, <3>2
  <2> QED
    BY <1>5, <2>1 DEF InSteps
<1>7. state = [k \in 0 .. n |-> IF k = 0 THEN b ELSE FollowBridge(f, state[k - 1], targets[k])]
  BY <1>6
<1> HIDE DEF state
<1>8. state[0] = b /\ \A k \in 1 .. n : state[k] = FollowBridge(f, state[k - 1], targets[k])
  <2>1. 0 \in 0 .. n /\ \A k \in 1 .. n : k \in 0 .. n /\ k # 0
    BY <1>2
  <2> QED
    BY <1>7, <2>1
<1>9. \A k \in 0 .. n : state[k] \in J[k]
  <2>1. state[0] \in J[0]
    BY <1>2, <1>3, <1>8
  <2>2. \A k \in 1 .. n : state[k - 1] \in J[k - 1] => state[k] \in J[k]
    <3> SUFFICES ASSUME NEW k \in 1 .. n, state[k - 1] \in J[k - 1] PROVE state[k] \in J[k]
      OBVIOUS
    <3>1. k - 1 \in 0 .. n /\ k \in 0 .. n
      BY <1>2
    <3>2. state[k] = FollowBridge(f, state[k - 1], targets[k])
      BY <1>8
    <3> QED
      BY <1>4, <3>1, <3>2
  <2> HIDE DEF J
  <2> QED
    BY <1>2, <2>1, <2>2, StepwiseIn
<1>10. state[n].calls \in Seq(BridgeVisits(f))
  <2>1. state[n] \in BridgeStates(f)
    BY <1>2, <1>9
  <2> QED
    BY <2>1 DEF BridgeStates
<1>11. \A c \in BridgeVisits(f) : c.task = "visit" /\ VisitFits(c)
  <2> SUFFICES ASSUME NEW c \in BridgeVisits(f) PROVE c.task = "visit" /\ VisitFits(c)
    OBVIOUS
  <2>1. VisitFits(c) /\ \E t, domain, a : c = Call(t, f.depth + 1, f.cone, domain, a)
    BY DEF BridgeVisits
  <2> QED
    BY <2>1, CallIs
<1> QED
  BY <1>1, <1>10, <1>11, ListIs DEF AllVisits

LEMMA NoBridge ==
    ASSUME NEW f
    PROVE  FollowBridges(f, <<>>).calls = <<>>
<1> DEFINE b == [approx |-> Approximate(f), stops |-> {}, calls |-> <<>>]
           state == CHOOSE g : g = [k \in 0 .. Len(<<>>) |-> IF k = 0 THEN b ELSE FollowBridge(f, g[k - 1], <<>>[k])]
           only == [k \in 0 .. 0 |-> b]
<1>1. FollowBridges(f, <<>>) = state[0]
  BY DEF FollowBridges
<1> HIDE DEF b
<1>2. \A k \in 0 .. 0 : k = 0
  OBVIOUS
<1>3. \A g : [k \in 0 .. Len(<<>>) |-> IF k = 0 THEN b ELSE FollowBridge(f, g[k - 1], <<>>[k])] = only
  BY <1>2
<1>4. only = [k \in 0 .. Len(<<>>) |-> IF k = 0 THEN b ELSE FollowBridge(f, only[k - 1], <<>>[k])]
  BY <1>3
<1>5. state = only
  <2> HIDE DEF only
  <2>1. state = [k \in 0 .. Len(<<>>) |-> IF k = 0 THEN b ELSE FollowBridge(f, state[k - 1], <<>>[k])]
    BY <1>4
  <2> HIDE DEF state
  <2> QED
    BY <1>3, <2>1
<1>6. state[0] = b
  <2> HIDE DEF state
  <2> QED
    BY <1>5
<1> HIDE DEF state
<1> QED
  BY <1>1, <1>6 DEF b

LEMMA PortCalls ==
    ASSUME TraceAsked, NEW f, Followed(f), f.edge.routes = <<>>, f.edge.kind = "port", ~Approximate(f) => f.edge.cover = {}
    PROVE  /\ AllVisits(Port(f).calls) /\ Port(f).logic = {}
           /\ \A c \in Port(f).ports : c.shown.kind = "port"
<1> DEFINE e == Endpoint(f)
           targets == IF f.edge.path \in Names(netlist) THEN Bridges(f) ELSE <<>>
           bridges == FollowBridges(f, targets)
           calls == CallsTo(f, Direct(f), f.cone) \o bridges.calls
           keeps == Allowed(e) /\ (Approximate(f) \/ calls = <<>>)
<1>1. Port(f).calls = calls /\ Port(f).logic = {}
      /\ Port(f).ports = {[key |-> EndpointKey(e), shown |-> e] : x \in {y \in {1} : keeps}}
  BY DEF Port, Effect
<1>2. e.kind = "port"
  BY FollowedIs DEF SameRecord
<1>3. AllVisits(CallsTo(f, Direct(f), f.cone))
  BY DirectCalls
<1>4. AllVisits(bridges.calls)
  <2>1. CASE f.edge.path \in Names(netlist)
    <3>1. IsList(targets) /\ ToSet(targets) \subseteq ToSet(Bridges(f))
      BY <2>1, DirectIs
    <3> HIDE DEF targets
    <3> QED
      BY <2>1, <3>1, BridgeCalls
  <2>2. CASE f.edge.path \notin Names(netlist)
    <3>1. bridges.calls = <<>>
      BY <2>2, NoBridge
    <3> QED
      BY <3>1, NoVisits
  <2> QED
    BY <2>1, <2>2
<1> HIDE DEF bridges
<1>5. AllVisits(calls)
  BY <1>3, <1>4, JoinIs DEF AllVisits
<1>6. \A c \in Port(f).ports : c.shown = e
  <2> HIDE DEF e, keeps
  <2> QED
    BY <1>1
<1> QED
  BY <1>1, <1>2, <1>5, <1>6

---------------------------------------------------------------------------
(* What an edge adds to the result.                                        *)
EntryFits(c) ==
  (c.shown.kind = "expr" /\ c.shown.site # "global") =>
    c.shown.site \in Sites(FALSE, TRUE) /\ (~c.shown.approx => c.shown.site \in Sites(FALSE, FALSE))

LEMMA ClipIs ==
    ASSUME NEW e, HasFields(e)
    PROVE  LET c == ClipRootMergedEndpointCopy(e) IN c.kind = e.kind /\ c.site = e.site /\ c.approx = e.approx
<1> DEFINE to(bits) == [e EXCEPT !.bits = bits]
<1>1. \A bits : to(bits).kind = e.kind /\ to(bits).site = e.site /\ to(bits).approx = e.approx
  BY DEF HasFields
<1>2. ClipRootMergedEndpointCopy(e) = e \/ \E bits : ClipRootMergedEndpointCopy(e) = to(bits)
  BY DEF ClipRootMergedEndpointCopy
<1> HIDE DEF to
<1> QED
  BY <1>1, <1>2

LEMMA AssignmentFits ==
    ASSUME TraceAsked, NEW f, Followed(f), f.edge.routes = <<>>, f.edge.kind # "port"
    PROVE  /\ AllVisits(Assignment(f).calls) /\ Assignment(f).ports = {}
           /\ \A c \in Assignment(f).logic : EntryFits(c)
<1> DEFINE e == Endpoint(f)
           shown == IF f.sig = opts.root /\ e.path = f.sig /\ f.own THEN ClipRootMergedEndpointCopy(e) ELSE e
<1>1. Assignment(f).logic = {[key |-> EndpointKey(e), shown |-> shown]} /\ Assignment(f).ports = {}
  BY DEF Assignment, Effect
<1>2. HasFields(e) /\ e.kind = f.edge.kind /\ e.site = f.edge.site /\ (~e.approx => ~Approximate(f))
  BY EndpointOf DEF Followed, EdgeFits, VisitFits, SameRecord
<1>3. shown.kind = e.kind /\ shown.site = e.site /\ shown.approx = e.approx
  <2> HIDE DEF e
  <2> QED
    BY <1>2, ClipIs
<1> HIDE DEF shown
<1>4. shown.kind = "expr" => /\ shown.site \in Sites(FALSE, TRUE)
                             /\ ~shown.approx => shown.site \in Sites(FALSE, FALSE)
  BY <1>2, <1>3, SiteFits DEF Followed
<1>5. EntryFits([key |-> EndpointKey(e), shown |-> shown])
  BY <1>4 DEF EntryFits
<1> QED
  BY <1>1, <1>5, AssignmentCalls

LEMMA EffectFits ==
    ASSUME TraceAsked, NEW f, EdgeFits(f)
    PROVE  /\ AllVisits(EdgeEffect(f).calls)
           /\ \A c \in EdgeEffect(f).logic : EntryFits(c)
           /\ \A c \in EdgeEffect(f).ports : c.shown.kind = "port"
<1> DEFINE e == Endpoint(f)
           isSettled == ~opts.drivers /\ Approximate(f) /\ e.kind = "expr" /\ LoadSiteKey(e) \in settled
           terminal == e.kind = "port" /\ e.cover # {} /\ ~Approximate(f)
           last == [Stop("port_boundary", e.path) EXCEPT
                      !.logic = {[key |-> EndpointKey(e), shown |-> e] : x \in {y \in {1} : Allowed(e)}}]
           Fine(x) == /\ AllVisits(x.calls) /\ \A c \in x.logic : EntryFits(c)
                      /\ \A c \in x.ports : c.shown.kind = "port"
<1>1. EdgeEffect(f) = IF isSettled THEN Effect
                      ELSE IF Outside(f) THEN Stop("bit_filter", e.path)
                      ELSE IF Marker(e) THEN Stop(IF e.constant THEN "constant_connection" ELSE "mapping-is-unproven", e.path)
                      ELSE IF e.routes # <<>> THEN CompactPort(f)
                      ELSE IF terminal THEN last
                      ELSE IF e.kind = "port" THEN Port(f)
                      ELSE IF ~Allowed(e) THEN Stop("filtered", e.path)
                      ELSE Assignment(f)
  BY DEF EdgeEffect, Outside
<1>2. SameRecord(f.edge, e) /\ e.cover = f.edge.cover
  BY EndpointOf DEF EdgeFits, VisitFits
<1>3. (Marker(e) <=> Marker(f.edge)) /\ e.routes = f.edge.routes /\ e.kind = f.edge.kind
  BY <1>2 DEF SameRecord, Marker
<1>4. Fine(Effect)
  BY NoVisits DEF Effect
<1>5. \A reason, name : Fine(Stop(reason, name))
  <2> SUFFICES ASSUME NEW reason, NEW name PROVE Fine(Stop(reason, name))
    OBVIOUS
  <2>1. Stop(reason, name).calls = <<>> /\ Stop(reason, name).logic = {} /\ Stop(reason, name).ports = {}
    BY DEF Stop, Effect
  <2> QED
    BY <2>1, NoVisits
<1>6. ASSUME Followed(f), e.routes # <<>> PROVE Fine(CompactPort(f))
  <2>1. CompactPort(f).logic = {} /\ CompactPort(f).ports = {}
    BY DEF CompactPort, Stop, Effect
  <2> QED
    BY <1>3, <1>6, <2>1, CompactCalls
<1>7. ASSUME terminal PROVE Fine(last)
  <2>1. /\ last.calls = <<>> /\ last.ports = {}
        /\ last.logic = {[key |-> EndpointKey(e), shown |-> e] : x \in {y \in {1} : Allowed(e)}}
    BY DEF Stop, Effect
  <2>2. \A c \in last.logic : c.shown = e
    <3> HIDE DEF e, last
    <3> QED
      BY <2>1
  <2>3. \A c \in last.logic : EntryFits(c)
    <3>1. e.kind = "port"
      BY <1>7
    <3> HIDE DEF e, last
    <3> QED
      BY <2>2, <3>1 DEF EntryFits
  <2> HIDE DEF last
  <2> QED
    BY <2>1, <2>3, NoVisits
<1>8. ASSUME Followed(f), ~(e.routes # <<>>), ~terminal, e.kind = "port" PROVE Fine(Port(f))
  <2>1. ~Approximate(f) => f.edge.cover = {}
    BY <1>2, <1>8
  <2>2. f.edge.routes = <<>> /\ f.edge.kind = "port"
    BY <1>3, <1>8
  <2>3. AllVisits(Port(f).calls) /\ (\A c \in Port(f).ports : c.shown.kind = "port") /\ Port(f).logic = {}
    <3>1. Followed(f)
      BY <1>8
    <3> HIDE DEF e
    <3> QED
      BY <2>1, <2>2, <3>1, PortCalls
  <2>4. \A c \in Port(f).logic : EntryFits(c)
    BY <2>3
  <2> QED
    BY <2>3, <2>4
<1>9. ASSUME Followed(f), ~(e.routes # <<>>), e.kind # "port" PROVE Fine(Assignment(f))
  <2>1. f.edge.routes = <<>> /\ f.edge.kind # "port"
    BY <1>3, <1>9
  <2> QED
    BY <1>9, <2>1, AssignmentFits
<1>10. ~Outside(f) /\ ~Marker(e) => Followed(f)
  BY <1>3 DEF Followed
<1>11. Fine(EdgeEffect(f))
  <2> HIDE DEF Fine, e, isSettled, terminal, last
  <2>1. CASE isSettled \/ Outside(f) \/ Marker(e)
    BY <1>1, <1>4, <1>5, <2>1
  <2>2. CASE ~(isSettled \/ Outside(f) \/ Marker(e)) /\ e.routes # <<>>
    BY <1>1, <1>6, <1>10, <2>2
  <2>3. CASE ~(isSettled \/ Outside(f) \/ Marker(e)) /\ ~(e.routes # <<>>) /\ terminal
    BY <1>1, <1>7, <2>3
  <2>4. CASE ~(isSettled \/ Outside(f) \/ Marker(e)) /\ ~(e.routes # <<>>) /\ ~terminal /\ e.kind = "port"
    BY <1>1, <1>8, <1>10, <2>4
  <2>5. CASE ~(isSettled \/ Outside(f) \/ Marker(e)) /\ ~(e.routes # <<>>) /\ ~terminal /\ e.kind # "port"
    BY <1>1, <1>5, <1>9, <1>10, <2>5
  <2> QED
    BY <2>1, <2>2, <2>3, <2>4, <2>5
<1> QED
  BY <1>11

---------------------------------------------------------------------------
(* The walk.                                                               *)
TaskFits(c) == (c.task = "visit" /\ VisitFits(c)) \/ (c.task = "edge" /\ EdgeFits(c))
TraceInv ==
  /\ IF tracePhase = "idle" THEN stack = <<>> /\ logic = {} /\ ports = {} ELSE TraceAsked
  /\ IsList(stack) /\ \A c \in ToSet(stack) : TaskFits(c)
  /\ \A c \in logic : EntryFits(c)
  /\ \A c \in ports : c.shown.kind = "port"

(* Nothing of this depends on what has been visited.                       *)
LEMMA SameAsked ==
    ASSUME netlist' = netlist, opts' = opts
    PROVE  /\ \A t : VisitFits(t)' <=> VisitFits(t)
           /\ \A t : EdgeFits(t)' <=> EdgeFits(t)
           /\ \A any : Sites(FALSE, any)' = Sites(FALSE, any)
           /\ TraceAsked' <=> TraceAsked
<1>1. ASSUME NEW t PROVE VisitFits(t)' <=> VisitFits(t)
  BY SMT DEF VisitFits, TaskBits, Steps, Further, InUse, Entered, Neighbours, Beyond, BridgeBits, Concerns, Edges, OfFallback,
             Recorded, Bits, Selected, RootDomain
<1>2. ASSUME NEW t PROVE EdgeFits(t)' <=> EdgeFits(t)
  BY SMT DEF EdgeFits, ExactlyOf, VisitFits, TaskBits, Steps, Further, InUse, Entered, Neighbours, Beyond, BridgeBits, Concerns,
             Edges, OfFallback, Recorded, Bits, Selected, RootDomain
<1>3. ASSUME NEW any PROVE Sites(FALSE, any)' = Sites(FALSE, any)
  BY SMT DEF Sites, Reached, Steps, Further, InUse, Entered, Neighbours, Beyond, BridgeBits, Concerns, Edges, OfFallback,
             Recorded, Bits, Selected, RootDomain
<1>4. TraceAsked' <=> TraceAsked
  BY DEF TraceAsked
<1> QED
  BY <1>1, <1>2, <1>3, <1>4

LEMMA SameTasks ==
    ASSUME netlist' = netlist, opts' = opts
    PROVE  /\ \A t : TaskFits(t)' <=> TaskFits(t)
           /\ \A c : EntryFits(c)' <=> EntryFits(c)
<1>1. ASSUME NEW t PROVE TaskFits(t)' <=> TaskFits(t)
  <2>1. (VisitFits(t)' <=> VisitFits(t)) /\ (EdgeFits(t)' <=> EdgeFits(t))
    BY SameAsked
  <2> QED
    BY <2>1 DEF TaskFits
<1>2. ASSUME NEW c PROVE EntryFits(c)' <=> EntryFits(c)
  <2>1. Sites(FALSE, TRUE)' = Sites(FALSE, TRUE) /\ Sites(FALSE, FALSE)' = Sites(FALSE, FALSE)
    BY SameAsked
  <2> QED
    BY <2>1 DEF EntryFits
<1> QED
  BY <1>1, <1>2

LEMMA FirstCall == TraceAsked => \A c : c = Call(opts.root, 0, 0, {}, FALSE) => VisitFits(c)
<1> SUFFICES ASSUME TraceAsked, NEW c, c = Call(opts.root, 0, 0, {}, FALSE) PROVE VisitFits(c)
  OBVIOUS
<1>1. c.sig = opts.root /\ c.depth = 0 /\ c.cone = 0 /\ c.domain = {} /\ c.approx = FALSE
  BY DEF Call
<1>2. opts.root \in Names(netlist) /\ opts.depth \in Nat
  BY TraceAskedIs
<1>3. Selected # {}
  <2>1. CASE opts.select = <<>>
    BY <1>2, <2>1, BitsAre DEF Selected
  <2>2. CASE opts.select # <<>>
    <3>1. opts.select \in Int \X Int
      BY <2>2, TraceAskedIs
    <3>2. \E i \in Int : i \in Span(opts.select)
      BY <3>1, RangeHas
    <3> QED
      BY <2>2, <3>2 DEF Selected
  <2> QED
    BY <2>1, <2>2
<1>4. TaskBits(c) = Selected
  BY <1>1 DEF TaskBits
<1>5. \A any : \A b \in Selected : <<c.sig, b, c.cone>> \in Steps(FALSE, any)[c.depth]
  <2> SUFFICES ASSUME NEW any, NEW b \in Selected PROVE <<c.sig, b, c.cone>> \in Steps(FALSE, any)[c.depth]
    OBVIOUS
  <2>1. Steps(FALSE, any)[0] = {<<opts.root, x, 0>> : x \in Selected}
    BY StepsAre
  <2> QED
    BY <1>1, <2>1
<1>6. \E b : <<c.sig, b, c.cone>> \in Steps(FALSE, TRUE)[c.depth]
  BY <1>3, <1>5
<1>7. \A b \in TaskBits(c) : <<c.sig, b, c.cone>> \in Steps(FALSE, FALSE)[c.depth]
  BY <1>4, <1>5
<1>8. c.depth \in Nat /\ c.depth <= opts.depth + 1 /\ c.cone \in Nat /\ c.approx \in BOOLEAN /\ c.sig \in Names(netlist)
  <2>1. c.approx \in BOOLEAN
    BY <1>1, Zenon
  <2>2. c.depth = 0 /\ c.cone = 0 /\ c.sig = opts.root
    BY <1>1
  <2>3. 0 \in Nat /\ 0 <= opts.depth + 1
    BY <1>2
  <2>4. c.depth \in Nat /\ c.depth <= opts.depth + 1 /\ c.cone \in Nat
    BY <2>2, <2>3, Zenon
  <2> QED
    BY <1>2, <2>1, <2>2, <2>4, Zenon
<1> QED
  BY <1>1, <1>6, <1>7, <1>8 DEF VisitFits

LEMMA TraceKeeps == ASSUME TraceInv, Trace PROVE TraceInv'
<1>1. stack = <<>> /\ logic = {} /\ ports = {}
  BY DEF TraceInv, Trace
<1>2. /\ TraceAsked' /\ ports' = ports /\ tracePhase' # "idle"
      /\ \/ stack' = <<>> /\ \A c \in logic' : c.shown.site = "global"
         \/ stack' = <<Call(opts'.root, 0, 0, {}, FALSE)>> /\ logic' = {}
  <2>1. PICK d \in Netlists, o \in TraceRequests :
       /\ o.root \in Names(d) /\ netlist' = d /\ opts' = o
       /\ \/ TryRunGlobalNetFastPath(d, o)
          \/ /\ o.drivers \/ o.root \notin DOMAIN d.globals
             /\ stack' = <<Call(o.root, 0, 0, {}, FALSE)>> /\ tracePhase' = "walk" /\ UNCHANGED <<logic, traceStops>>
    BY DEF Trace
  <2>2. TraceAsked' /\ ports' = ports
    BY <2>1 DEF Trace, TraceAsked
  <2>3. CASE TryRunGlobalNetFastPath(d, o)
    <3> DEFINE sinks == {Sink(p, o.select # <<>>) : p \in d.globals[o.root]}
    <3>1. /\ logic' = {[key |-> EndpointKey(e), shown |-> e] : e \in sinks}
          /\ tracePhase' = "done" /\ stack' = stack
      BY <2>3 DEF TryRunGlobalNetFastPath
    <3>2. \A e \in sinks : e.site = "global"
      <4>1. \A p, some : Sink(p, some).site = "global"
        BY DEF Sink
      <4> QED
        BY <4>1
    <3> HIDE DEF sinks
    <3>3. \A c \in logic' : c.shown.site = "global"
      BY <3>1, <3>2
    <3> QED
      BY <1>1, <2>2, <3>1, <3>3
  <2>4. CASE ~TryRunGlobalNetFastPath(d, o)
    BY <1>1, <2>1, <2>2, <2>4
  <2> QED
    BY <2>3, <2>4
<1>3. \A c : c = Call(opts'.root, 0, 0, {}, FALSE) => VisitFits(c)'
  <2>1. (TraceAsked => \A c : c = Call(opts.root, 0, 0, {}, FALSE) => VisitFits(c))'
    BY FirstCall, PTL
  <2> QED
    BY <1>2, <2>1
<1>4. \A c \in logic' : EntryFits(c)'
  BY <1>2 DEF EntryFits
<1>5. IsList(stack') /\ \A c \in ToSet(stack') : TaskFits(c)'
  <2>1. CASE stack' = <<>>
    BY <2>1 DEF IsList, ToSet
  <2>2. CASE stack' = <<Call(opts'.root, 0, 0, {}, FALSE)>>
    <3>1. PICK c : c = Call(opts'.root, 0, 0, {}, FALSE)
      OBVIOUS
    <3>2. VisitFits(c)' /\ c.task = "visit"
      BY <1>3, <3>1 DEF Call
    <3>3. IsList(stack') /\ ToSet(stack') = {c}
      <4>1. \A x : IsList(<<x>>) /\ ToSet(<<x>>) = {x}
        BY DEF IsList, ToSet
      <4>2. stack' = <<c>>
        BY <2>2, <3>1
      <4> QED
        BY <4>1, <4>2
    <3>4. TaskFits(c)'
      BY <3>2 DEF TaskFits
    <3> QED
      BY <3>3, <3>4
  <2> QED
    BY <1>2, <2>1, <2>2
<1> QED
  BY <1>1, <1>2, <1>4, <1>5 DEF TraceInv, IsList, ToSet

LEMMA HeadFits ==
    ASSUME TraceInv, tracePhase = "walk", stack # <<>>
    PROVE  /\ TraceAsked /\ TaskFits(Head(stack)) /\ IsList(Tail(stack)) /\ \A c \in ToSet(Tail(stack)) : TaskFits(c)
           /\ Head(stack).task = "visit" => VisitFits(Head(stack))
           /\ Head(stack).task = "edge" => EdgeFits(Head(stack))
<1>1. TraceAsked /\ IsList(stack) /\ \A c \in ToSet(stack) : TaskFits(c)
  BY DEF TraceInv
<1>2. TaskFits(Head(stack)) /\ IsList(Tail(stack)) /\ \A c \in ToSet(Tail(stack)) : TaskFits(c)
  BY <1>1, TailIs
<1> QED
  BY <1>1, <1>2 DEF TaskFits

(* A step of the walk keeps the invariant if what it adds fits.            *)
LEMMA WalkKeeps ==
    ASSUME TraceInv, tracePhase = "walk", tracePhase' = "walk" \/ tracePhase' = "done", netlist' = netlist, opts' = opts,
           IsList(stack'), \A c \in ToSet(stack') : TaskFits(c),
           \A c \in logic' : EntryFits(c), \A c \in ports' : c.shown.kind = "port"
    PROVE  TraceInv'
<1>1. TraceAsked'
  BY SameAsked DEF TraceInv
<1>2. (\A t : TaskFits(t)' <=> TaskFits(t)) /\ (\A c : EntryFits(c)' <=> EntryFits(c))
  BY SameTasks
<1>3. (\A c \in ToSet(stack') : TaskFits(c)') /\ (\A c \in logic' : EntryFits(c)')
  BY <1>2
<1> QED
  BY <1>1, <1>3 DEF TraceInv, IsList, ToSet

LEMMA RefuseKeeps == ASSUME TraceInv, RefuseVisit PROVE TraceInv'
<1>1. /\ tracePhase = "walk" /\ stack # <<>> /\ stack' = Tail(stack)
      /\ UNCHANGED <<tracePhase, netlist, opts, logic, ports>>
  BY DEF RefuseVisit, Visiting
<1>2. IsList(stack') /\ \A c \in ToSet(stack') : TaskFits(c)
  BY <1>1, HeadFits
<1>3. (\A c \in logic' : EntryFits(c)) /\ (\A c \in ports' : c.shown.kind = "port")
  BY <1>1 DEF TraceInv
<1> QED
  BY <1>1, <1>2, <1>3, WalkKeeps

LEMMA GlobalKeeps == ASSUME TraceInv, VisitGlobal PROVE TraceInv'
<1> DEFINE sinks == {Sink(p, FALSE) : p \in netlist.globals[Head(stack).sig]}
<1>1. /\ tracePhase = "walk" /\ stack # <<>> /\ stack' = Tail(stack)
      /\ UNCHANGED <<tracePhase, netlist, opts, ports>>
      /\ logic' = logic \cup {c \in {[key |-> EndpointKey(e), shown |-> e] : e \in sinks} :
                                Allowed(c.shown) /\ \A l \in logic : l.key # c.key}
  BY DEF VisitGlobal, Visiting
<1>2. IsList(stack') /\ \A c \in ToSet(stack') : TaskFits(c)
  BY <1>1, HeadFits
<1>3. \A e \in sinks : e.site = "global"
  <2>1. \A p, some : Sink(p, some).site = "global"
    BY DEF Sink
  <2> QED
    BY <2>1
<1> HIDE DEF sinks
<1>4. \A c \in logic' : c \in logic \/ c.shown.site = "global"
  BY <1>1, <1>3
<1>5. \A c \in logic' : EntryFits(c)
  BY <1>4 DEF TraceInv, EntryFits
<1>6. \A c \in ports' : c.shown.kind = "port"
  BY <1>1 DEF TraceInv
<1> QED
  BY <1>1, <1>2, <1>5, <1>6, WalkKeeps

LEMMA NotRefused ==
    ASSUME NEW w, VisitFits(w), TraceAsked, Refusal(w) = "none"
    PROVE  w.domain # {{}} /\ w.depth <= opts.depth /\ w.sig \notin opts.stopAt
<1>1. w.domain # {{}} /\ ~(w.depth > opts.depth) /\ w.sig \notin opts.stopAt
  BY DEF Refusal
<1>2. w.depth \in Nat /\ opts.depth \in Nat
  BY TraceAskedIs DEF VisitFits
<1> QED
  BY <1>1, <1>2

LEMMA VisitKeeps == ASSUME TraceInv, VisitSignal PROVE TraceInv'
<1> DEFINE w == Head(stack)
           frames == [i \in DOMAIN Active(w) |-> FrameOf(w, Active(w)[i])]
           n == Len(Active(w))
<1>1. /\ tracePhase = "walk" /\ stack # <<>> /\ w.task = "visit" /\ Refusal(w) = "none"
      /\ UNCHANGED <<tracePhase, netlist, opts, logic, ports>>
  BY DEF VisitSignal, Visiting
<1>2. stack' = frames \o Tail(stack)
  BY DEF VisitSignal, Active, Constrain, FrameOf, CallFailed
<1>3. TraceAsked /\ VisitFits(w) /\ IsList(Tail(stack)) /\ \A c \in ToSet(Tail(stack)) : TaskFits(c)
  BY <1>1, HeadFits
<1> HIDE DEF w
<1>4. IsList(Active(w)) /\ \A e \in ToSet(Active(w)) : EdgeFits(FrameOf(w, e))
  BY <1>1, <1>3, NotRefused, FramesFit
<1>5. n \in Nat /\ DOMAIN Active(w) = 1 .. n /\ \A i \in 1 .. n : Active(w)[i] \in ToSet(Active(w))
  BY <1>4, DomainIs DEF IsList, ToSet
<1>6. \A e \in ToSet(Active(w)) : TaskFits(FrameOf(w, e))
  BY <1>4 DEF TaskFits, FrameOf
<1>7. frames \in Seq({FrameOf(w, e) : e \in ToSet(Active(w))})
  <2> HIDE DEF n
  <2> QED
    BY <1>5
<1>8. IsList(frames) /\ \A c \in ToSet(frames) : TaskFits(c)
  <2> HIDE DEF frames
  <2> QED
    BY <1>6, <1>7, ListIs
<1> HIDE DEF frames
<1>9. IsList(stack') /\ \A c \in ToSet(stack') : TaskFits(c)
  BY <1>2, <1>3, <1>8, JoinIs
<1>10. (\A c \in logic' : EntryFits(c)) /\ (\A c \in ports' : c.shown.kind = "port")
  BY <1>1 DEF TraceInv
<1> QED
  BY <1>1, <1>9, <1>10, WalkKeeps

LEMMA EdgeKeeps == ASSUME TraceInv, Edge PROVE TraceInv'
<1> DEFINE f == Head(stack)
           effect == EdgeEffect(f)
<1>1. /\ tracePhase = "walk" /\ stack # <<>> /\ f.task = "edge" /\ UNCHANGED <<tracePhase, netlist, opts>>
      /\ logic' = New(logic, effect.logic) /\ ports' = New(ports, effect.ports) /\ stack' = effect.calls \o Tail(stack)
  BY DEF Edge
<1>2. TraceAsked /\ EdgeFits(f) /\ IsList(Tail(stack)) /\ \A c \in ToSet(Tail(stack)) : TaskFits(c)
  BY <1>1, HeadFits
<1>3. /\ AllVisits(effect.calls) /\ \A c \in effect.logic : EntryFits(c)
      /\ \A c \in effect.ports : c.shown.kind = "port"
  BY <1>2, EffectFits
<1> HIDE DEF effect
<1>4. IsList(stack') /\ \A c \in ToSet(stack') : TaskFits(c)
  <2>1. IsList(effect.calls) /\ \A c \in ToSet(effect.calls) : TaskFits(c)
    BY <1>3 DEF AllVisits, TaskFits
  <2> QED
    BY <1>1, <1>2, <2>1, JoinIs
<1>5. \A set, found : New(set, found) \subseteq set \cup found
  BY DEF New
<1>6. \A c \in logic' : EntryFits(c)
  BY <1>1, <1>3, <1>5 DEF TraceInv
<1>7. \A c \in ports' : c.shown.kind = "port"
  BY <1>1, <1>3, <1>5 DEF TraceInv
<1> QED
  BY <1>1, <1>4, <1>6, <1>7, WalkKeeps

LEMMA DoneKeeps == ASSUME TraceInv, TraceDone PROVE TraceInv'
<1>1. /\ tracePhase = "walk" /\ tracePhase' = "done" /\ UNCHANGED <<netlist, opts, stack, logic, ports>>
  BY DEF TraceDone
<1>2. IsList(stack') /\ \A c \in ToSet(stack') : TaskFits(c)
  BY <1>1 DEF TraceInv
<1>3. (\A c \in logic' : EntryFits(c)) /\ (\A c \in ports' : c.shown.kind = "port")
  BY <1>1 DEF TraceInv
<1> QED
  BY <1>1, <1>2, <1>3, WalkKeeps

LEMMA FitsIsConnected == ASSUME TraceInv PROVE NothingForeign
<1>1. SUFFICES ASSUME NEW e \in Shown
               PROVE  IF e.approx THEN e.site \in Sites(FALSE, TRUE) ELSE e.site \in Sites(FALSE, FALSE)
  BY DEF NothingForeign
<1>2. e \in TraceResult /\ e.kind = "expr" /\ e.site # "global"
  BY DEF Shown
<1>3. (\E c \in logic : e = c.shown) \/ \E c \in ports : e = c.shown
  BY <1>2 DEF TraceResult
<1>4. \E c \in logic : e = c.shown
  BY <1>2, <1>3 DEF TraceInv
<1> QED
  BY <1>2, <1>4 DEF TraceInv, EntryFits

TraceSpec == TraceInit /\ [][TraceNext]_traceVars

(* What a trace shows is connected: what is shown as exact, to the bits    *)
(* that are selected, over bits that the database records; what is shown   *)
(* as approximate, if the bits of a failed mapping are ignored.            *)
THEOREM NothingIsForeign == TraceSpec => []NothingForeign
<1>1. TraceInit => TraceInv
  <2>1. IsList(<<>>) /\ ToSet(<<>>) = {}
    BY DEF IsList, ToSet
  <2> QED
    BY <2>1 DEF TraceInit, TraceInv
<1>2. TraceInv /\ [TraceNext]_traceVars => TraceInv'
  <2> SUFFICES ASSUME TraceInv, [TraceNext]_traceVars PROVE TraceInv'
    OBVIOUS
  <2>1. CASE Trace
    BY <2>1, TraceKeeps
  <2>2. CASE RefuseVisit
    BY <2>2, RefuseKeeps
  <2>3. CASE VisitGlobal
    BY <2>3, GlobalKeeps
  <2>4. CASE VisitSignal
    BY <2>4, VisitKeeps
  <2>5. CASE Edge
    BY <2>5, EdgeKeeps
  <2>6. CASE TraceDone
    BY <2>6, DoneKeeps
  <2>7. CASE UNCHANGED traceVars
    <3>1. UNCHANGED <<tracePhase, netlist, opts, stack, logic, ports>>
      BY <2>7 DEF traceVars
    <3>2. (\A t : TaskFits(t)' <=> TaskFits(t)) /\ (\A c : EntryFits(c)' <=> EntryFits(c)) /\ (TraceAsked' <=> TraceAsked)
      BY <3>1, SameTasks, SameAsked
    <3> QED
      BY <3>1, <3>2 DEF TraceInv, IsList, ToSet
  <2> QED
    BY <2>1, <2>2, <2>3, <2>4, <2>5, <2>6, <2>7 DEF TraceNext
<1>3. TraceInv => NothingForeign
  BY FitsIsConnected
<1> QED
  BY <1>1, <1>2, <1>3, PTL DEF TraceSpec
=============================================================================
