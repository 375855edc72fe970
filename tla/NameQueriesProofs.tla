------------------------- MODULE NameQueriesProofs -------------------------
(***************************************************************************)
(* Proofs about the queries that need only the names of a graph, and about *)
(* the arguments of all of them.                                           *)
(*                                                                         *)
(* `find`, whatever the names, the request, the number of threads and the  *)
(* size of a chunk: the threads scan disjoint chunks, a search that fails  *)
(* answers nothing, and what is answered is what sorting all the names     *)
(* would give.  The parts: the table of the edit distance and its bounded  *)
(* computation; the run of characters that a pattern requires; the         *)
(* collectors of the least keys; the invariant of the threads; and what    *)
(* each of them was given and holds.                                       *)
(*                                                                         *)
(* `hier`, whatever the hierarchy and the limits: the tree has the nodes   *)
(* below the root, cut where it says so.  The arguments: what is accepted, *)
(* and that the order of options does not matter.                          *)
(***************************************************************************)
EXTENDS NameSearch, HierQueries, QueryArgs, FiniteInduction, SequenceTheorems

LEMMA MinIs ==
    ASSUME NEW S \in SUBSET Nat, S # {}
    PROVE  Min(S) \in S /\ \A x \in S : Min(S) <= x
<1>1. PICK k \in S : \A j \in S : k <= j
  BY LeastExists
<1> QED
  BY <1>1 DEF Min

LEMMA LesserIs == \A a, b \in Nat : Min({a, b}) = IF a <= b THEN a ELSE b
<1> SUFFICES ASSUME NEW a \in Nat, NEW b \in Nat PROVE Min({a, b}) = IF a <= b THEN a ELSE b
  OBVIOUS
<1> DEFINE T == {a, b}
           l == Min(T)
<1>1. T \in SUBSET Nat /\ T # {} /\ a \in T /\ b \in T
  OBVIOUS
<1>2. l \in T /\ l <= a /\ l <= b
  <2> HIDE DEF T
  <2> QED
    BY <1>1, MinIs
<1> HIDE DEF l
<1>3. l = IF a <= b THEN a ELSE b
  BY <1>2
<1> QED
  BY <1>3 DEF l

---------------------------------------------------------------------------
(* The table of the edit distance.                                         *)

Cost(a, b, i, j) == IF a[i] = b[j] THEN 0 ELSE 1
RowsOf(b) == [0 .. Len(b) -> Nat]

LEMMA NextRowIs ==
    ASSUME NEW a \in Strings, NEW b \in Strings, NEW i \in 1 .. Len(a), NEW prev \in RowsOf(b)
    PROVE  /\ NextRow(prev, a, b, i) \in RowsOf(b) /\ NextRow(prev, a, b, i)[0] = i
           /\ \A j \in 1 .. Len(b) :
                NextRow(prev, a, b, i)[j] = Min({prev[j] + 1, NextRow(prev, a, b, i)[j - 1] + 1, prev[j - 1] + Cost(a, b, i, j)})
<1> DEFINE N == Len(b)
           next1(j, x) == Min({prev[j] + 1, x + 1, prev[j - 1] + Cost(a, b, i, j)})
           J == [j \in 0 .. N |-> Nat]
           G == [x \in (1 .. N) \X Nat |-> next1(x[1], x[2])]
           cur == CHOOSE f : f = [j \in 0 .. N |-> IF j = 0 THEN i ELSE next1(j, f[j - 1])]
<1>1. N \in Nat /\ i \in Nat
  BY DEF Strings
<1>2. ASSUME NEW j \in 1 .. N, NEW x \in Nat
      PROVE  next1(j, x) \in Nat /\ G[<<j, x>>] = next1(j, x)
  <2>1. j \in 0 .. N /\ j - 1 \in 0 .. N
    BY <1>1
  <2>2. prev[j] \in Nat /\ prev[j - 1] \in Nat /\ Cost(a, b, i, j) \in Nat
    BY <2>1 DEF RowsOf, Cost
  <2> DEFINE S == {prev[j] + 1, x + 1, prev[j - 1] + Cost(a, b, i, j)}
  <2>3. S \in SUBSET Nat /\ S # {}
    BY <2>2
  <2> HIDE DEF S
  <2>4. Min(S) \in Nat
    BY <2>3, MinIs
  <2> QED
    BY <2>4 DEF S
<1> HIDE DEF next1, G
<1>3. PICK f : InSteps(f, N, i, G, J)
  <2>1. J \in [0 .. N -> SUBSET Nat] /\ i \in J[0]
    BY <1>1
  <2>2. \A j \in 1 .. N : \A s \in J[j - 1] : G[<<j, s>>] \in J[j]
    <3> SUFFICES ASSUME NEW j \in 1 .. N, NEW s \in J[j - 1] PROVE G[<<j, s>>] \in J[j]
      OBVIOUS
    <3>1. j - 1 \in 0 .. N /\ j \in 0 .. N
      BY <1>1
    <3> QED
      BY <1>2, <3>1
  <2> HIDE DEF J, N
  <2> QED
    BY <1>1, <2>1, <2>2, StepsInside
<1>4. f = [j \in 0 .. N |-> IF j = 0 THEN i ELSE next1(j, f[j - 1])]
  <2>1. ASSUME NEW j \in 0 .. N, j # 0
        PROVE  G[<<j, f[j - 1]>>] = next1(j, f[j - 1])
    <3>1. j - 1 \in 0 .. N /\ j \in 1 .. N
      BY <1>1, <2>1
    <3>2. f[j - 1] \in Nat
      BY <1>3, <3>1 DEF InSteps
    <3> QED
      BY <1>2, <3>1, <3>2
  <2> QED
    BY <1>3, <2>1 DEF InSteps
<1>5. cur = [j \in 0 .. N |-> IF j = 0 THEN i ELSE next1(j, cur[j - 1])]
  BY <1>4
<1>6. NextRow(prev, a, b, i) = cur
  BY DEF NextRow, next1, Cost
<1> HIDE DEF cur, N
<1>7. cur[0] = i /\ \A j \in 1 .. N : cur[j] = next1(j, cur[j - 1])
  <2>1. 0 \in 0 .. N /\ \A j \in 1 .. N : j \in 0 .. N /\ j # 0
    BY <1>1
  <2> QED
    BY <1>5, <2>1
<1>8. \A j \in 0 .. N : cur[j] \in J[j]
  <2>1. cur[0] \in J[0]
    BY <1>1, <1>7
  <2>2. ASSUME NEW j \in 1 .. N, cur[j - 1] \in J[j - 1] PROVE cur[j] \in J[j]
    <3>1. j - 1 \in 0 .. N /\ j \in 0 .. N
      BY <1>1
    <3> QED
      BY <1>2, <1>7, <2>2, <3>1
  <2> HIDE DEF J
  <2> QED
    BY <1>1, <2>1, <2>2, StepwiseIn
<1>9. cur \in [0 .. N -> Nat]
  BY <1>5, <1>8
<1> QED
  BY <1>6, <1>7, <1>9 DEF RowsOf, next1, N

LEMMA RowsAre ==
    ASSUME NEW a \in Strings, NEW b \in Strings
    PROVE  /\ \A i \in 0 .. Len(a) : Rows(a, b)[i] \in RowsOf(b)
           /\ \A j \in 0 .. Len(b) : Rows(a, b)[0][j] = j
           /\ \A i \in 1 .. Len(a) : Rows(a, b)[i] = NextRow(Rows(a, b)[i - 1], a, b, i)
<1> DEFINE M == Len(a)
           zero == [j \in 0 .. Len(b) |-> j]
           J == [i \in 0 .. M |-> RowsOf(b)]
           G == [x \in (1 .. M) \X RowsOf(b) |-> NextRow(x[2], a, b, x[1])]
           row == CHOOSE f : f = [i \in 0 .. M |-> IF i = 0 THEN zero ELSE NextRow(f[i - 1], a, b, i)]
<1>1. M \in Nat /\ Len(b) \in Nat
  BY DEF Strings
<1>2. zero \in RowsOf(b) /\ \A j \in 0 .. Len(b) : zero[j] = j
  BY <1>1 DEF RowsOf
<1>3. ASSUME NEW i \in 1 .. M, NEW r \in RowsOf(b)
      PROVE  NextRow(r, a, b, i) \in RowsOf(b) /\ G[<<i, r>>] = NextRow(r, a, b, i)
  BY NextRowIs
<1>6a. Rows(a, b) = row
  BY DEF Rows
<1> HIDE DEF G, zero
<1>4. PICK f : InSteps(f, M, zero, G, J)
  <2>1. J \in [0 .. M -> SUBSET RowsOf(b)] /\ zero \in J[0]
    BY <1>1, <1>2
  <2>2. \A i \in 1 .. M : \A s \in J[i - 1] : G[<<i, s>>] \in J[i]
    <3> SUFFICES ASSUME NEW i \in 1 .. M, NEW s \in J[i - 1] PROVE G[<<i, s>>] \in J[i]
      OBVIOUS
    <3>1. i - 1 \in 0 .. M /\ i \in 0 .. M
      BY <1>1
    <3> QED
      BY <1>3, <3>1
  <2> HIDE DEF J, M
  <2> QED
    BY <1>1, <2>1, <2>2, StepsInside
<1>5. f = [i \in 0 .. M |-> IF i = 0 THEN zero ELSE NextRow(f[i - 1], a, b, i)]
  <2>1. ASSUME NEW i \in 0 .. M, i # 0
        PROVE  G[<<i, f[i - 1]>>] = NextRow(f[i - 1], a, b, i)
    <3>1. i - 1 \in 0 .. M /\ i \in 1 .. M
      BY <1>1, <2>1
    <3>2. f[i - 1] \in RowsOf(b)
      BY <1>4, <3>1 DEF InSteps
    <3> QED
      BY <1>3, <3>1, <3>2
  <2> QED
    BY <1>4, <2>1 DEF InSteps
<1>6. row = [i \in 0 .. M |-> IF i = 0 THEN zero ELSE NextRow(row[i - 1], a, b, i)]
  BY <1>5
<1> HIDE DEF row, M
<1>7. row[0] = zero /\ \A i \in 1 .. M : row[i] = NextRow(row[i - 1], a, b, i)
  <2>1. 0 \in 0 .. M /\ \A i \in 1 .. M : i \in 0 .. M /\ i # 0
    BY <1>1
  <2> QED
    BY <1>6, <2>1
<1>8. \A i \in 0 .. M : row[i] \in J[i]
  <2>1. row[0] \in J[0]
    BY <1>1, <1>2, <1>7
  <2>2. ASSUME NEW i \in 1 .. M, row[i - 1] \in J[i - 1] PROVE row[i] \in J[i]
    <3>1. i - 1 \in 0 .. M /\ i \in 0 .. M
      BY <1>1
    <3> QED
      BY <1>3, <1>7, <2>2, <3>1
  <2> HIDE DEF J
  <2> QED
    BY <1>1, <2>1, <2>2, StepwiseIn
<1> QED
  BY <1>2, <1>6a, <1>7, <1>8 DEF M

LEMMA EntriesAre ==
    ASSUME NEW a \in Strings, NEW b \in Strings, NEW i \in 1 .. Len(a)
    PROVE  /\ Rows(a, b)[i][0] = i
           /\ \A j \in 1 .. Len(b) :
                /\ Rows(a, b)[i - 1][j] \in Nat /\ Rows(a, b)[i - 1][j - 1] \in Nat /\ Rows(a, b)[i][j - 1] \in Nat
                /\ Rows(a, b)[i][j] <= Rows(a, b)[i - 1][j] + 1
                /\ Rows(a, b)[i][j] \in {Rows(a, b)[i - 1][j] + 1, Rows(a, b)[i][j - 1] + 1,
                                         Rows(a, b)[i - 1][j - 1], Rows(a, b)[i - 1][j - 1] + 1}
<1> DEFINE prev == Rows(a, b)[i - 1]
           cur == Rows(a, b)[i]
<1>1. Len(a) \in Nat /\ Len(b) \in Nat /\ i \in 0 .. Len(a) /\ i - 1 \in 0 .. Len(a)
  BY DEF Strings
<1>2. prev \in RowsOf(b) /\ cur \in RowsOf(b) /\ cur = NextRow(prev, a, b, i)
  BY <1>1, RowsAre
<1> HIDE DEF prev, cur
<1>3. cur[0] = i /\ \A j \in 1 .. Len(b) : cur[j] = Min({prev[j] + 1, cur[j - 1] + 1, prev[j - 1] + Cost(a, b, i, j)})
  BY <1>2, NextRowIs
<1>4. ASSUME NEW j \in 1 .. Len(b)
      PROVE  /\ prev[j] \in Nat /\ prev[j - 1] \in Nat /\ cur[j - 1] \in Nat
             /\ cur[j] <= prev[j] + 1
             /\ cur[j] \in {prev[j] + 1, cur[j - 1] + 1, prev[j - 1], prev[j - 1] + 1}
  <2>1. j \in 0 .. Len(b) /\ j - 1 \in 0 .. Len(b)
    BY <1>1
  <2>2. prev[j] \in Nat /\ prev[j - 1] \in Nat /\ cur[j - 1] \in Nat /\ Cost(a, b, i, j) \in {0, 1}
    BY <1>2, <2>1 DEF RowsOf, Cost
  <2> DEFINE S == {prev[j] + 1, cur[j - 1] + 1, prev[j - 1] + Cost(a, b, i, j)}
  <2>3. S \in SUBSET Nat /\ S # {} /\ cur[j] = Min(S) /\ prev[j] + 1 \in S
    BY <1>3, <2>2
  <2>4. S \subseteq {prev[j] + 1, cur[j - 1] + 1, prev[j - 1], prev[j - 1] + 1}
    BY <2>2
  <2> HIDE DEF S
  <2>5. Min(S) \in S /\ Min(S) <= prev[j] + 1
    BY <2>3, MinIs
  <2> QED
    BY <2>2, <2>3, <2>4, <2>5
<1> QED
  BY <1>3, <1>4 DEF prev, cur

Between(i, j, d) == d \in Nat /\ i - j <= d /\ j - i <= d /\ d <= i + j

LEMMA BetweenStep ==
    \A x, y \in Nat : \A p, q, r, e :
      /\ Between(x, y - 1, q) /\ Between(x - 1, y, p) /\ Between(x - 1, y - 1, r)
      /\ e <= p + 1 /\ e \in {p + 1, q + 1, r, r + 1}
      => Between(x, y, e)
BY DEF Between

(* An entry is at least the difference of the lengths and at most their    *)
(* sum.                                                                    *)
LEMMA EntryBounds ==
    ASSUME NEW a \in Strings, NEW b \in Strings, NEW i \in 0 .. Len(a), NEW j \in 0 .. Len(b)
    PROVE  Between(i, j, Rows(a, b)[i][j])
<1> DEFINE M == Len(a)
           N == Len(b)
           d == Rows(a, b)
           J == [k \in 0 .. M |-> {r \in RowsOf(b) : \A l \in 0 .. N : Between(k, l, r[l])}]
<1>1. M \in Nat /\ N \in Nat
  BY DEF Strings
<1>2. d[0] \in J[0]
  <2>1. d[0] \in RowsOf(b) /\ \A l \in 0 .. N : d[0][l] = l
    BY <1>1, RowsAre
  <2>2. \A l \in 0 .. N : Between(0, l, d[0][l])
    BY <1>1, <2>1 DEF Between
  <2> HIDE DEF d
  <2> QED
    BY <1>1, <2>1, <2>2
<1>3. ASSUME NEW k \in 1 .. M, d[k - 1] \in J[k - 1]
      PROVE  d[k] \in J[k]
  <2>1. k \in 0 .. M /\ k - 1 \in 0 .. M /\ k \in Nat
    BY <1>1
  <2>2. d[k] \in RowsOf(b) /\ d[k][0] = k
    BY <2>1, RowsAre, EntriesAre
  <2>3. \A l \in 0 .. N : Between(k - 1, l, d[k - 1][l])
    BY <1>3, <2>1
  <2> DEFINE row == d[k]
             prev == d[k - 1]
             I == [l \in 0 .. N |-> {v \in Nat : Between(k, l, v)}]
  <2>4. \A l \in 1 .. N : /\ row[l] <= prev[l] + 1
                          /\ row[l] \in {prev[l] + 1, row[l - 1] + 1, prev[l - 1], prev[l - 1] + 1}
    BY EntriesAre
  <2> HIDE DEF d, row, prev
  <2>5. row[0] \in I[0]
    BY <1>1, <2>1, <2>2 DEF Between, row
  <2>6. ASSUME NEW l \in 1 .. N, row[l - 1] \in I[l - 1]
        PROVE  row[l] \in I[l]
    <3>1. l \in 0 .. N /\ l - 1 \in 0 .. N /\ l \in Nat
      BY <1>1
    <3>2. Between(k, l - 1, row[l - 1]) /\ Between(k - 1, l, prev[l]) /\ Between(k - 1, l - 1, prev[l - 1])
      BY <2>3, <2>6, <3>1 DEF prev
    <3>3. Between(k, l, row[l])
      BY <2>1, <2>4, <3>1, <3>2, BetweenStep
    <3> QED
      BY <3>1, <3>3 DEF Between
  <2>7. \A l \in 0 .. N : row[l] \in I[l]
    <3> HIDE DEF I
    <3> QED
      BY <1>1, <2>5, <2>6, StepwiseIn
  <2>8. \A l \in 0 .. N : Between(k, l, row[l])
    BY <2>7
  <2> QED
    BY <2>1, <2>2, <2>8 DEF row
<1>4. \A k \in 0 .. M : d[k] \in J[k]
  <2> HIDE DEF d, J, M
  <2> QED
    BY <1>1, <1>2, <1>3, StepwiseIn
<1> QED
  BY <1>4

LowFrom(a, b, v, i) == \A j \in 0 .. Len(b) : v <= Rows(a, b)[i][j]

(* "Values never decrease along an alignment path" (GraphDb.cc): the least *)
(* entry of a row is a bound of the rows below it.                         *)
LEMMA RowsGrow ==
    ASSUME NEW a \in Strings, NEW b \in Strings, NEW v \in Nat, NEW i \in 0 .. Len(a), LowFrom(a, b, v, i)
    PROVE  LowFrom(a, b, v, Len(a))
<1> DEFINE M == Len(a)
           N == Len(b)
           d == Rows(a, b)
           T == {k \in Nat : i + k <= M => LowFrom(a, b, v, i + k)}
<1>1. M \in Nat /\ N \in Nat /\ i \in Nat /\ i <= M
  BY DEF Strings
<1>2. 0 \in T
  BY <1>1
<1>3. ASSUME NEW k \in T PROVE k + 1 \in T
  <2> SUFFICES ASSUME i + (k + 1) <= M PROVE LowFrom(a, b, v, i + (k + 1))
    BY <1>3
  <2> DEFINE r == i + (k + 1)
             row == d[r]
             prev == d[r - 1]
             I == [l \in 0 .. N |-> {x \in Nat : v <= x}]
  <2>1. k \in Nat /\ r \in 1 .. M /\ r - 1 = i + k /\ r - 1 \in 0 .. M /\ r \in 0 .. M
    BY <1>1
  <2>2. LowFrom(a, b, v, r - 1)
    BY <1>1, <2>1
  <2> HIDE DEF r
  <2>3. prev \in RowsOf(b) /\ row \in RowsOf(b) /\ row[0] = r
    BY <2>1, RowsAre, EntriesAre
  <2>4. \A l \in 0 .. N : v <= prev[l] /\ prev[l] \in Nat
    BY <2>2, <2>3 DEF LowFrom, RowsOf
  <2>5. \A l \in 1 .. N : row[l] \in {prev[l] + 1, row[l - 1] + 1, prev[l - 1], prev[l - 1] + 1}
    BY <2>1, EntriesAre
  <2>6. v <= r
    <3>1. Between(r - 1, 0, prev[0]) /\ 0 \in 0 .. N
      BY <1>1, <2>1, EntryBounds
    <3>2. v <= prev[0] /\ prev[0] \in Nat
      BY <2>4, <3>1
    <3> HIDE DEF prev
    <3>3. Between(r - 1, 0, prev[0])
      BY <3>1 DEF prev
    <3> QED
      BY <2>1, <3>2, <3>3 DEF Between
  <2>9. LowFrom(a, b, v, r) = \A l \in 0 .. N : v <= row[l]
    BY DEF LowFrom
  <2> HIDE DEF d, row, prev
  <2>7. row[0] \in I[0]
    BY <1>1, <2>1, <2>3, <2>6
  <2>8. ASSUME NEW l \in 1 .. N, row[l - 1] \in I[l - 1] PROVE row[l] \in I[l]
    <3>1. l \in 0 .. N /\ l - 1 \in 0 .. N
      BY <1>1
    <3>2. row[l - 1] \in Nat /\ v <= row[l - 1] /\ prev[l] \in Nat /\ v <= prev[l] /\ prev[l - 1] \in Nat /\ v <= prev[l - 1]
      BY <2>4, <2>8, <3>1
    <3>3. \A p, q, x, e \in Nat : v <= p /\ v <= q /\ v <= x /\ e \in {p + 1, x + 1, q, q + 1} => v <= e
      OBVIOUS
    <3>4. row[l] \in Nat
      BY <2>3, <3>1 DEF RowsOf
    <3> QED
      BY <2>5, <3>1, <3>2, <3>3, <3>4
  <2>10. \A l \in 0 .. N : row[l] \in I[l]
    <3> HIDE DEF I
    <3> QED
      BY <1>1, <2>7, <2>8, StepwiseIn
  <2>11. LowFrom(a, b, v, r)
    BY <2>9, <2>10
  <2> QED
    BY <2>11 DEF r
<1>4. T = Nat
  <2> HIDE DEF T
  <2>1. T \in SUBSET Nat
    BY DEF T
  <2> QED
    BY <1>2, <1>3, <2>1, SetInduction
<1>5. M - i \in Nat /\ i + (M - i) = M
  BY <1>1
<1>6. M - i \in T
  <2> HIDE DEF T
  <2> QED
    BY <1>4, <1>5
<1> QED
  BY <1>5, <1>6

LEMMA DistanceIs ==
    ASSUME NEW a \in Strings, NEW b \in Strings
    PROVE  Between(Len(a), Len(b), EditDistance(a, b))
<1>1. Len(a) \in 0 .. Len(a) /\ Len(b) \in 0 .. Len(b)
  BY DEF Strings
<1> QED
  BY <1>1, EntryBounds DEF EditDistance

(* The bounded computation gives the distance if it is within the bound.   *)
LEMMA BoundedIs ==
    ASSUME NEW a \in Strings, NEW b \in Strings, NEW bound \in Nat
    PROVE  /\ BoundedEditDistance(a, b, bound) \in Nat
           /\ EditDistance(a, b) <= bound => BoundedEditDistance(a, b, bound) = EditDistance(a, b)
           /\ EditDistance(a, b) > bound => BoundedEditDistance(a, b, bound) > bound
<1> DEFINE M == Len(a)
           N == Len(b)
           d == EditDistance(a, b)
           diff == IF Len(a) > Len(b) THEN Len(a) - Len(b) ELSE Len(b) - Len(a)
           above == {i \in DOMAIN a : RowMin(Rows(a, b)[i]) > bound}
<1>1. M \in Nat /\ N \in Nat /\ DOMAIN a = 1 .. M
  BY DEF Strings
<1>2. d \in Nat /\ diff <= d
  BY <1>1, DistanceIs DEF Between
<1>3. ASSUME NEW i \in above PROVE d > bound /\ RowMin(Rows(a, b)[i]) \in Nat
  <2>1. i \in 0 .. M /\ Rows(a, b)[i] \in RowsOf(b)
    BY <1>1, RowsAre
  <2> DEFINE S == {Rows(a, b)[i][j] : j \in 0 .. N}
  <2>2. DOMAIN Rows(a, b)[i] = 0 .. N /\ S \in SUBSET Nat /\ S # {}
    BY <1>1, <2>1 DEF RowsOf
  <2>3. Min(S) > bound /\ RowMin(Rows(a, b)[i]) = Min(S)
    BY <2>2 DEF RowMin
  <2>4. Min(S) \in S /\ \A x \in S : Min(S) <= x
    <3> HIDE DEF S
    <3> QED
      BY <2>2, MinIs
  <2>5. LowFrom(a, b, bound + 1, i)
    <3>1. \A x \in S : bound + 1 <= x
      <4> SUFFICES ASSUME NEW x \in S PROVE bound + 1 <= x
        OBVIOUS
      <4> HIDE DEF S
      <4>1. x \in Nat /\ Min(S) \in Nat /\ Min(S) <= x /\ Min(S) > bound
        BY <2>2, <2>3, <2>4
      <4> QED
        BY <4>1
    <3> QED
      BY <3>1 DEF LowFrom
  <2>6. LowFrom(a, b, bound + 1, M)
    BY <2>1, <2>5, RowsGrow
  <2>7. bound + 1 <= d
    BY <1>1, <2>6 DEF LowFrom, EditDistance
  <2>8. RowMin(Rows(a, b)[i]) \in Nat
    <3> HIDE DEF S
    <3> QED
      BY <2>2, <2>3, <2>4
  <2> HIDE DEF d
  <2> QED
    BY <1>2, <2>7, <2>8
<1>4. BoundedEditDistance(a, b, bound) = IF diff > bound THEN diff
        ELSE IF above # {} THEN RowMin(Rows(a, b)[Min(above)]) ELSE d
  BY DEF BoundedEditDistance
<1>5. above # {} => RowMin(Rows(a, b)[Min(above)]) > bound /\ RowMin(Rows(a, b)[Min(above)]) \in Nat
  <2> SUFFICES ASSUME above # {}
               PROVE  RowMin(Rows(a, b)[Min(above)]) > bound /\ RowMin(Rows(a, b)[Min(above)]) \in Nat
    OBVIOUS
  <2>1. Min(above) \in above
    <3>1. above \in SUBSET Nat
      BY <1>1
    <3> HIDE DEF above
    <3> QED
      BY <3>1, MinIs
  <2> QED
    BY <1>3, <2>1
<1> HIDE DEF above, d, diff
<1>6. diff \in Nat
  BY <1>1 DEF diff
<1>7. CASE diff > bound
  BY <1>2, <1>4, <1>6, <1>7 DEF d
<1>8. CASE ~(diff > bound) /\ above # {}
  BY <1>2, <1>3, <1>4, <1>5, <1>8 DEF d
<1>9. CASE ~(diff > bound) /\ above = {}
  BY <1>2, <1>4, <1>9 DEF d
<1> QED
  BY <1>7, <1>8, <1>9

---------------------------------------------------------------------------
(* The run that a pattern requires.                                        *)

(* A run that ends at a place of a name is one that the name has.          *)
EndsAt(name, run, c) ==
  c \in 0 .. Len(name) /\ Len(run) <= c /\ \A k \in 1 .. Len(run) : name[c - Len(run) + k] = run[k]

LEMMA EndsAtHasRun ==
    ASSUME NEW name \in Strings, NEW run \in Strings, NEW c, EndsAt(name, run, c)
    PROVE  HasRun(name, run)
<1> DEFINE i == c - Len(run)
           s == SubSeq(name, i + 1, i + Len(run))
<1>1. /\ Len(name) \in Nat /\ Len(run) \in Nat /\ c \in Nat /\ c <= Len(name) /\ Len(run) <= c
      /\ DOMAIN run = 1 .. Len(run)
  BY DEF Strings, EndsAt
<1>2. i \in 0 .. Len(name) - Len(run) /\ i + Len(run) = c
  BY <1>1
<1>3. s \in Strings /\ Len(s) = Len(run) /\ \A k \in 1 .. Len(run) : s[k] = name[i + k]
  <2>1. name \in Seq(STRING) /\ i + 1 \in 1 .. Len(name) + 1 /\ i + Len(run) \in i .. Len(name)
    BY <1>1, <1>2 DEF Strings
  <2> HIDE DEF i
  <2>2. /\ s \in Seq(STRING) /\ Len(s) = (i + Len(run)) - (i + 1) + 1
        /\ \A k \in 1 .. (i + Len(run)) - (i + 1) + 1 : s[k] = name[(i + 1) + k - 1]
    <3>1. i \in Int /\ i + Len(run) \in Int /\ (i + 1 <= i + Len(run) \/ Len(run) = 0)
      BY <1>1, <1>2
    <3> QED
      BY <1>1, <1>2, <2>1, <3>1, SubSeqProperties
  <2>3. (i + Len(run)) - (i + 1) + 1 = Len(run) /\ \A k \in 1 .. Len(run) : (i + 1) + k - 1 = i + k
    BY <1>1, <1>2
  <2> QED
    BY <2>2, <2>3 DEF Strings
<1>4. \A k \in 1 .. Len(run) : s[k] = run[k]
  BY <1>3 DEF EndsAt
<1> HIDE DEF s
<1>5. s = run
  BY <1>1, <1>3, <1>4 DEF Strings
<1> QED
  BY <1>2, <1>5 DEF HasRun, s

LEMMA EndsAtNone ==
    ASSUME NEW name \in Strings, NEW c \in 0 .. Len(name)
    PROVE  EndsAt(name, <<>>, c) /\ HasRun(name, <<>>)
<1>1. Len(<<>>) = 0 /\ <<>> \in Strings /\ Len(name) \in Nat
  BY DEF Strings
<1>2. EndsAt(name, <<>>, c)
  BY <1>1 DEF EndsAt
<1> QED
  BY <1>1, <1>2, EndsAtHasRun

LEMMA EndsAtNext ==
    ASSUME NEW name \in Strings, NEW run \in Strings, NEW c \in 1 .. Len(name), EndsAt(name, run, c - 1)
    PROVE  EndsAt(name, Append(run, name[c]), c)
<1> DEFINE r == Append(run, name[c])
<1>1. Len(name) \in Nat /\ Len(run) \in Nat /\ c \in Nat
  BY DEF Strings
<1>2. Len(r) = Len(run) + 1 /\ r[Len(run) + 1] = name[c] /\ \A k \in 1 .. Len(run) : r[k] = run[k]
  BY <1>1 DEF Strings
<1> HIDE DEF r
<1>3. Len(run) <= c - 1 /\ \A k \in 1 .. Len(run) : name[c - 1 - Len(run) + k] = run[k]
  BY DEF EndsAt
<1>4. ASSUME NEW k \in 1 .. Len(r)
      PROVE  name[c - Len(r) + k] = r[k]
  <2>1. c - Len(r) + k = c - 1 - Len(run) + k
    BY <1>1, <1>2
  <2>2. CASE k = Len(run) + 1
    <3>1. c - Len(r) + k = c
      BY <1>1, <1>2, <2>2
    <3> QED
      BY <1>2, <2>2, <3>1
  <2>3. CASE k # Len(run) + 1
    <3>1. k \in 1 .. Len(run)
      BY <1>1, <1>2, <2>3
    <3> QED
      BY <1>2, <1>3, <2>1, <3>1
  <2> QED
    BY <2>2, <2>3
<1> QED
  BY <1>1, <1>2, <1>3, <1>4 DEF EndsAt, r

---------------------------------------------------------------------------
(* The analysis of a pattern, token by token.                              *)

Literals == [best : Strings, run : Strings, gaveUp : BOOLEAN]
NoLiteral == [best |-> <<>>, run |-> <<>>, gaveUp |-> FALSE]

LEMMA ReadTokenIs ==
    ASSUME NEW p \in Strings, NEW i \in 1 .. Len(p), NEW s \in Literals
    PROVE  ReadToken(p, s, i) \in Literals
<1>1. p[i] \in STRING /\ Append(s.run, p[i]) \in Strings /\ <<>> \in Strings /\ s.run \in Strings /\ s.best \in Strings
  BY DEF Strings, Literals
<1>2. \A run \in Strings : EndRun(s, run) \in Literals
  BY <1>1 DEF EndRun, Literals
<1>3. [s EXCEPT !.gaveUp = TRUE] \in Literals /\ [s EXCEPT !.run = Append(s.run, p[i])] \in Literals
  BY <1>1 DEF Literals
<1> QED
  BY <1>1, <1>2, <1>3 DEF ReadToken

Analysed(p, f) ==
  /\ f[0] = NoLiteral
  /\ \A i \in 0 .. Len(p) : f[i] \in Literals
  /\ \A i \in 1 .. Len(p) : f[i] = ReadToken(p, f[i - 1], i)
  /\ RequiredLiteral(p) = IF f[Len(p)].gaveUp THEN <<>> ELSE EndRun(f[Len(p)], f[Len(p)].run).best

LEMMA ChosenIs == \A x : (CHOOSE t \in {x} : TRUE) = x
OBVIOUS

LEMMA ReadingExists == ASSUME NEW p \in Strings PROVE \E f : Analysed(p, f)
<1> DEFINE N == Len(p)
           value(s, i) == CHOOSE t \in {ReadToken(p, r, i) : r \in {s}} : TRUE
           J == [i \in 0 .. N |-> Literals]
           G == [x \in (1 .. N) \X Literals |-> value(x[2], x[1])]
           read == CHOOSE f : f = [i \in 0 .. N |-> IF i = 0 THEN NoLiteral ELSE value(f[i - 1], i)]
<1>1. N \in Nat /\ NoLiteral \in Literals
  BY DEF Strings, NoLiteral, Literals
<1>2. ASSUME NEW i \in 1 .. N, NEW s \in Literals
      PROVE  /\ value(s, i) = ReadToken(p, s, i) /\ value(s, i) \in Literals
             /\ G[<<i, s>>] = value(s, i)
  <2>1. {ReadToken(p, r, i) : r \in {s}} = {ReadToken(p, s, i)}
    OBVIOUS
  <2>2. value(s, i) = ReadToken(p, s, i)
    BY <2>1, ChosenIs
  <2> HIDE DEF value
  <2> QED
    BY <2>2, ReadTokenIs
<1>3. RequiredLiteral(p) = IF read[N].gaveUp THEN <<>> ELSE EndRun(read[N], read[N].run).best
  BY DEF RequiredLiteral, NoLiteral
<1> HIDE DEF G, value
<1>4. PICK f : InSteps(f, N, NoLiteral, G, J)
  <2>1. J \in [0 .. N -> SUBSET Literals] /\ NoLiteral \in J[0]
    BY <1>1
  <2>2. \A i \in 1 .. N : \A s \in J[i - 1] : G[<<i, s>>] \in J[i]
    <3> SUFFICES ASSUME NEW i \in 1 .. N, NEW s \in J[i - 1] PROVE G[<<i, s>>] \in J[i]
      OBVIOUS
    <3>1. i - 1 \in 0 .. N /\ i \in 0 .. N
      BY <1>1
    <3> QED
      BY <1>2, <3>1
  <2> HIDE DEF J, N
  <2> QED
    BY <1>1, <2>1, <2>2, StepsInside
<1>5. f = [i \in 0 .. N |-> IF i = 0 THEN NoLiteral ELSE value(f[i - 1], i)]
  <2>1. ASSUME NEW i \in 0 .. N, i # 0
        PROVE  G[<<i, f[i - 1]>>] = value(f[i - 1], i)
    <3>1. i - 1 \in 0 .. N /\ i \in 1 .. N
      BY <1>1, <2>1
    <3>2. f[i - 1] \in Literals
      BY <1>4, <3>1 DEF InSteps
    <3> QED
      BY <1>2, <3>1, <3>2
  <2> QED
    BY <1>4, <2>1 DEF InSteps
<1>6. read = [i \in 0 .. N |-> IF i = 0 THEN NoLiteral ELSE value(read[i - 1], i)]
  BY <1>5
<1> HIDE DEF read, N
<1>7. read[0] = NoLiteral /\ \A i \in 1 .. N : read[i] = value(read[i - 1], i)
  <2>1. 0 \in 0 .. N /\ \A i \in 1 .. N : i \in 0 .. N /\ i # 0
    BY <1>1
  <2> QED
    BY <1>6, <2>1
<1>8. \A i \in 0 .. N : read[i] \in J[i]
  <2>1. read[0] \in J[0]
    BY <1>1, <1>7
  <2>2. ASSUME NEW i \in 1 .. N, read[i - 1] \in J[i - 1] PROVE read[i] \in J[i]
    <3>1. i - 1 \in 0 .. N /\ i \in 0 .. N
      BY <1>1
    <3> QED
      BY <1>2, <1>7, <2>2, <3>1
  <2> HIDE DEF J
  <2> QED
    BY <1>1, <2>1, <2>2, StepwiseIn
<1>9. \A i \in 0 .. N : read[i] \in Literals
  BY <1>8
<1>10. \A i \in 1 .. N : read[i] = ReadToken(p, read[i - 1], i)
  <2> SUFFICES ASSUME NEW i \in 1 .. N PROVE read[i] = ReadToken(p, read[i - 1], i)
    OBVIOUS
  <2>1. i - 1 \in 0 .. N
    BY <1>1
  <2> QED
    BY <1>2, <1>7, <1>9, <2>1
<1>11. Analysed(p, read)
  BY <1>3, <1>7, <1>9, <1>10 DEF Analysed, N
<1> QED
  BY <1>11

---------------------------------------------------------------------------
(* The places that a pattern reaches.                                      *)

Pairs(name) == Places(name) \X Places(name)
ComposedOf(x, r, s) == \E y \in r : \E z \in s : y[2] = z[1] /\ x = <<y[1], z[2]>>

LEMMA ComposeIs ==
    ASSUME NEW name, NEW r \in SUBSET Pairs(name), NEW s \in SUBSET Pairs(name)
    PROVE  /\ Compose(r, s) \in SUBSET Pairs(name)
           /\ \A x \in Compose(r, s) : ComposedOf(x, r, s)
<1> SUFFICES ASSUME NEW x \in Compose(r, s)
             PROVE  x \in Pairs(name) /\ ComposedOf(x, r, s)
  OBVIOUS
<1>1. PICK d \in r \X s : d[1][2] = d[2][1] /\ x = <<d[1][1], d[2][2]>>
  BY DEF Compose
<1>2. d[1] \in r /\ d[2] \in s
  BY <1>1
<1>3. d[1] \in Pairs(name) /\ d[2] \in Pairs(name)
  BY <1>2
<1>4. d[1][1] \in Places(name) /\ d[2][2] \in Places(name)
  BY <1>3 DEF Pairs
<1>5. x \in Pairs(name)
  BY <1>1, <1>4 DEF Pairs
<1> QED
  BY <1>1, <1>2, <1>5 DEF ComposedOf

(* A repetition begins with the first of its repeats.                      *)
From(name, r) == {c \in SUBSET Pairs(name) : \A x \in c : \E y \in r : y[1] = x[1]}

LEMMA ClosureIs ==
    ASSUME NEW name, NEW r \in SUBSET Pairs(name), NEW N \in Nat
    PROVE  Closure(r, N) \in From(name, r)
<1> DEFINE J == [i \in 0 .. N |-> From(name, r)]
           G == [x \in (1 .. N) \X From(name, r) |-> OnceMore(x[2], r)]
           upTo == CHOOSE f : f = [i \in 0 .. N |-> IF i = 0 THEN r ELSE OnceMore(f[i - 1], r)]
<1>1. r \in From(name, r)
  BY DEF From
<1>2. ASSUME NEW i \in 1 .. N, NEW c \in From(name, r)
      PROVE  OnceMore(c, r) \in From(name, r) /\ G[<<i, c>>] = OnceMore(c, r)
  <2>1. c \in SUBSET Pairs(name) /\ \A x \in c : \E y \in r : y[1] = x[1]
    BY DEF From
  <2>2. Compose(c, r) \in SUBSET Pairs(name) /\ \A x \in Compose(c, r) : \E y \in c : y[1] = x[1]
    BY <2>1, ComposeIs DEF ComposedOf
  <2>3. OnceMore(c, r) \in From(name, r)
    BY <2>1, <2>2 DEF OnceMore, From
  <2> QED
    BY <2>3
<1> HIDE DEF G
<1>4. PICK f : InSteps(f, N, r, G, J)
  <2>1. J \in [0 .. N -> SUBSET From(name, r)] /\ r \in J[0]
    BY <1>1
  <2>2. \A i \in 1 .. N : \A s \in J[i - 1] : G[<<i, s>>] \in J[i]
    <3> SUFFICES ASSUME NEW i \in 1 .. N, NEW s \in J[i - 1] PROVE G[<<i, s>>] \in J[i]
      OBVIOUS
    <3>1. i - 1 \in 0 .. N /\ i \in 0 .. N
      OBVIOUS
    <3> QED
      BY <1>2, <3>1
  <2> HIDE DEF J
  <2> QED
    BY <2>1, <2>2, StepsInside
<1>5. f = [i \in 0 .. N |-> IF i = 0 THEN r ELSE OnceMore(f[i - 1], r)]
  <2>1. ASSUME NEW i \in 0 .. N, i # 0
        PROVE  G[<<i, f[i - 1]>>] = OnceMore(f[i - 1], r)
    <3>1. i - 1 \in 0 .. N /\ i \in 1 .. N
      BY <2>1
    <3>2. f[i - 1] \in From(name, r)
      BY <1>4, <3>1 DEF InSteps
    <3> QED
      BY <1>2, <3>1, <3>2
  <2> QED
    BY <1>4, <2>1 DEF InSteps
<1>6. upTo = [i \in 0 .. N |-> IF i = 0 THEN r ELSE OnceMore(upTo[i - 1], r)]
  BY <1>5
<1>7. Closure(r, N) = upTo[N]
  BY DEF Closure
<1> HIDE DEF upTo
<1>8. upTo[0] = r /\ \A i \in 1 .. N : upTo[i] = OnceMore(upTo[i - 1], r)
  <2>1. 0 \in 0 .. N /\ \A i \in 1 .. N : i \in 0 .. N /\ i # 0
    OBVIOUS
  <2> QED
    BY <1>6, <2>1
<1>9. \A i \in 0 .. N : upTo[i] \in J[i]
  <2>1. upTo[0] \in J[0]
    BY <1>1, <1>8
  <2>2. ASSUME NEW i \in 1 .. N, upTo[i - 1] \in J[i - 1] PROVE upTo[i] \in J[i]
    <3>1. i - 1 \in 0 .. N /\ i \in 0 .. N
      OBVIOUS
    <3> QED
      BY <1>2, <1>8, <2>2, <3>1
  <2> HIDE DEF J
  <2> QED
    BY <2>1, <2>2, StepwiseIn
<1> QED
  BY <1>7, <1>9

Reaches(name) == [before : SUBSET Pairs(name), last : SUBSET Pairs(name)]

LEMMA StepIs ==
    ASSUME NEW name \in Strings, NEW c
    PROVE  /\ Step(name, c) \in SUBSET Pairs(name)
           /\ c \notin {".", "^", "$"} =>
                \A x \in Step(name, c) : x[2] \in 1 .. Len(name) /\ x[1] = x[2] - 1 /\ name[x[2]] = c
<1>1. Len(name) \in Nat /\ DOMAIN name = 1 .. Len(name)
  BY DEF Strings
<1>2. CASE c = "^"
  BY <1>1, <1>2 DEF Step, Pairs, Places
<1>3. CASE c = "$" /\ c # "^"
  BY <1>1, <1>3 DEF Step, Pairs, Places
<1>4. CASE c # "$" /\ c # "^"
  <2> DEFINE B == {b \in DOMAIN name : c = "." \/ name[b] = c}
  <2>1. Step(name, c) = {<<a - 1, a>> : a \in B}
    BY <1>4 DEF Step
  <2>2. ASSUME NEW a \in B PROVE a \in 1 .. Len(name) /\ a - 1 \in Places(name) /\ a \in Places(name) /\ (c # "." => name[a] = c)
    BY <1>1 DEF Places
  <2> HIDE DEF B
  <2> QED
    BY <2>1, <2>2 DEF Pairs
<1> QED
  BY <1>2, <1>3, <1>4

LEMMA SameIs == ASSUME NEW name PROVE Same(name) \in SUBSET Pairs(name)
BY DEF Same, Pairs

(* What a quantifier makes of the relation before it.                      *)
LEMMA RepeatedIs ==
    ASSUME NEW p, NEW name \in Strings, NEW s \in Reaches(name), NEW i
    PROVE  /\ Repeated(p, name, s, i) \in SUBSET Pairs(name)
           /\ p[i] = "+" => Repeated(p, name, s, i) \in From(name, s.last)
           /\ p[i] = "?" /\ At(p, i - 1) \in Quantifiers => Repeated(p, name, s, i) = s.last
<1>1. s.last \in SUBSET Pairs(name) /\ Len(name) \in Nat
  BY DEF Reaches, Strings
<1>2. Closure(s.last, Len(name)) \in From(name, s.last)
  BY <1>1, ClosureIs
<1>3. Closure(s.last, Len(name)) \in SUBSET Pairs(name)
  BY <1>2 DEF From
<1> QED
  BY <1>1, <1>2, <1>3, SameIs DEF Repeated

LEMMA MatchTokenIs ==
    ASSUME NEW p, NEW name \in Strings, NEW s \in Reaches(name), NEW i
    PROVE  MatchToken(p, name, s, i) \in Reaches(name)
<1>1. s.last \in SUBSET Pairs(name) /\ s.before \in SUBSET Pairs(name)
  BY DEF Reaches
<1>2. Compose(s.before, s.last) \in SUBSET Pairs(name)
  BY <1>1, ComposeIs
<1> QED
  BY <1>1, <1>2, RepeatedIs, StepIs DEF MatchToken, Reaches

AtStart(name) == [before |-> Same(name), last |-> Same(name)]
Matching(p, name, g) ==
  /\ g[0] = AtStart(name)
  /\ \A i \in 0 .. Len(p) : g[i] \in Reaches(name)
  /\ \A i \in 1 .. Len(p) : g[i] = MatchToken(p, name, g[i - 1], i)
  /\ MatchesPart(p, name) = (Compose(g[Len(p)].before, g[Len(p)].last) # {})

LEMMA MatchingExists ==
    ASSUME NEW p \in Strings, NEW name \in Strings PROVE \E g : Matching(p, name, g)
<1> DEFINE N == Len(p)
           R == Reaches(name)
           b == AtStart(name)
           value(s, i) == CHOOSE t \in {MatchToken(p, name, r, i) : r \in {s}} : TRUE
           J == [i \in 0 .. N |-> R]
           G == [x \in (1 .. N) \X R |-> value(x[2], x[1])]
           state == CHOOSE f : f = [i \in 0 .. N |-> IF i = 0 THEN b ELSE value(f[i - 1], i)]
<1>1. N \in Nat /\ b \in R
  BY SameIs DEF Strings, AtStart, Reaches
<1>2. ASSUME NEW i \in 1 .. N, NEW s \in R
      PROVE  /\ value(s, i) = MatchToken(p, name, s, i) /\ value(s, i) \in R
             /\ G[<<i, s>>] = value(s, i)
  <2>1. {MatchToken(p, name, r, i) : r \in {s}} = {MatchToken(p, name, s, i)}
    OBVIOUS
  <2>2. value(s, i) = MatchToken(p, name, s, i)
    BY <2>1, ChosenIs
  <2> HIDE DEF value
  <2> QED
    BY <2>2, MatchTokenIs
<1>3. MatchesPart(p, name) = (Compose(state[N].before, state[N].last) # {})
  BY DEF MatchesPart, AtStart
<1> HIDE DEF G, value, R, b
<1>4. PICK f : InSteps(f, N, b, G, J)
  <2>1. J \in [0 .. N -> SUBSET R] /\ b \in J[0]
    BY <1>1
  <2>2. \A i \in 1 .. N : \A s \in J[i - 1] : G[<<i, s>>] \in J[i]
    <3> SUFFICES ASSUME NEW i \in 1 .. N, NEW s \in J[i - 1] PROVE G[<<i, s>>] \in J[i]
      OBVIOUS
    <3>1. i - 1 \in 0 .. N /\ i \in 0 .. N
      BY <1>1
    <3> QED
      BY <1>2, <3>1
  <2> HIDE DEF J, N
  <2> QED
    BY <1>1, <2>1, <2>2, StepsInside
<1>5. f = [i \in 0 .. N |-> IF i = 0 THEN b ELSE value(f[i - 1], i)]
  <2>1. ASSUME NEW i \in 0 .. N, i # 0
        PROVE  G[<<i, f[i - 1]>>] = value(f[i - 1], i)
    <3>1. i - 1 \in 0 .. N /\ i \in 1 .. N
      BY <1>1, <2>1
    <3>2. f[i - 1] \in R
      BY <1>4, <3>1 DEF InSteps
    <3> QED
      BY <1>2, <3>1, <3>2
  <2> QED
    BY <1>4, <2>1 DEF InSteps
<1>6. state = [i \in 0 .. N |-> IF i = 0 THEN b ELSE value(state[i - 1], i)]
  BY <1>5
<1> HIDE DEF state, N
<1>7. state[0] = b /\ \A i \in 1 .. N : state[i] = value(state[i - 1], i)
  <2>1. 0 \in 0 .. N /\ \A i \in 1 .. N : i \in 0 .. N /\ i # 0
    BY <1>1
  <2> QED
    BY <1>6, <2>1
<1>8. \A i \in 0 .. N : state[i] \in J[i]
  <2>1. state[0] \in J[0]
    BY <1>1, <1>7
  <2>2. ASSUME NEW i \in 1 .. N, state[i - 1] \in J[i - 1] PROVE state[i] \in J[i]
    <3>1. i - 1 \in 0 .. N /\ i \in 0 .. N
      BY <1>1
    <3> QED
      BY <1>2, <1>7, <2>2, <3>1
  <2> HIDE DEF J
  <2> QED
    BY <1>1, <2>1, <2>2, StepwiseIn
<1>9. \A i \in 0 .. N : state[i] \in R
  BY <1>8
<1>10. \A i \in 1 .. N : state[i] = MatchToken(p, name, state[i - 1], i)
  <2> SUFFICES ASSUME NEW i \in 1 .. N PROVE state[i] = MatchToken(p, name, state[i - 1], i)
    OBVIOUS
  <2>1. i - 1 \in 0 .. N
    BY <1>1
  <2> QED
    BY <1>2, <1>7, <1>9, <2>1
<1>11. Matching(p, name, state)
  BY <1>3, <1>7, <1>9, <1>10 DEF Matching, N, R, b
<1> QED
  BY <1>11

---------------------------------------------------------------------------
(* What the analysis of a prefix has found is in every name that the       *)
(* prefix matches: the run it reads ends where the match does.             *)

ReachedAt(m, c) == \E x \in m.before : \E y \in m.last : x[2] = y[1] /\ c = y[2]
Fits(name, s, c) == HasRun(name, s.best) /\ EndsAt(name, s.run, c)

(* The character at i, with the quantifiers that follow, is matched at     *)
(* least once.                                                             *)
OnceOrMore(p, i) ==
  \/ At(p, i + 1) \notin Quantifiers
  \/ At(p, i + 1) = "?" /\ At(p, i) \in Quantifiers /\ At(p, i + 2) \notin Quantifiers
  \/ At(p, i + 1) = "+" /\ ~Stacked(p, i + 1)

Plain(p, name, s, m, i) == At(p, i + 1) \notin Quantifiers /\ \A c : ReachedAt(m, c) => Fits(name, s, c)
Optional(name, s, m) == s.run = <<>> /\ \A x \in m.before : HasRun(name, s.best)
RunRequired(p, name, s, m, i) ==
  s.run = <<>> /\ OnceOrMore(p, i) /\ \A c : ReachedAt(m, c) => HasRun(name, s.best)
Evident(p, name, s, m, i) ==
  ~s.gaveUp => Plain(p, name, s, m, i) \/ Optional(name, s, m) \/ RunRequired(p, name, s, m, i)

LEMMA ReachedFits ==
    ASSUME NEW p, NEW name \in Strings, NEW s \in Literals, NEW m \in Reaches(name), NEW i,
           Evident(p, name, s, m, i), ~s.gaveUp, NEW c, ReachedAt(m, c)
    PROVE  Fits(name, s, c)
<1>1. PICK x \in m.before : \E y \in m.last : x[2] = y[1] /\ c = y[2]
  BY DEF ReachedAt
<1>2. PICK y \in m.last : x[2] = y[1] /\ c = y[2]
  BY <1>1
<1>3. c \in 0 .. Len(name)
  <2>1. y \in Pairs(name)
    BY DEF Reaches
  <2> QED
    BY <1>2, <2>1 DEF Pairs, Places
<1>4. CASE Plain(p, name, s, m, i)
  BY <1>4 DEF Plain
<1>5. CASE Optional(name, s, m)
  BY <1>1, <1>3, <1>5, EndsAtNone DEF Optional, Fits
<1>6. CASE RunRequired(p, name, s, m, i)
  BY <1>3, <1>6, EndsAtNone DEF RunRequired, Fits
<1> QED
  BY <1>4, <1>5, <1>6 DEF Evident

LEMMA QuantifierEvident ==
    ASSUME NEW p \in Strings, NEW name \in Strings, NEW s \in Literals, NEW m \in Reaches(name),
           NEW i \in 1 .. Len(p), p[i] \in Quantifiers, Evident(p, name, s, m, i - 1)
    PROVE  Evident(p, name, ReadToken(p, s, i), MatchToken(p, name, m, i), i)
<1> DEFINE t == ReadToken(p, s, i)
           r == MatchToken(p, name, m, i)
<1>1. Len(p) \in Nat /\ DOMAIN p = 1 .. Len(p) /\ At(p, (i - 1) + 1) = p[i] /\ At(p, i) = p[i]
      /\ (i - 1) + 1 = i /\ (i - 1) + 2 = i + 1
  BY DEF Strings, At
<1>2. r = [before |-> m.before, last |-> Repeated(p, name, m, i)]
  BY DEF MatchToken
<1> SUFFICES ASSUME ~t.gaveUp PROVE Optional(name, t, r) \/ RunRequired(p, name, t, r, i)
  BY DEF Evident
<1>3. ~s.gaveUp /\ p[i] # "|" /\ t = EndRun(s, s.run)
  BY DEF ReadToken, NotLiteral, Literals
<1> HIDE DEF t, r
<1>4. t.run = <<>>
  BY <1>3 DEF EndRun
<1>5. ASSUME s.run = <<>> PROVE t.best = s.best
  <2>1. Len(s.best) \in Nat /\ Len(s.run) = 0
    BY <1>5 DEF Literals, Strings
  <2> QED
    BY <1>3, <2>1 DEF EndRun
<1>6. CASE Plain(p, name, s, m, i - 1)
  BY <1>1, <1>6 DEF Plain
<1>7. CASE Optional(name, s, m)
  BY <1>2, <1>4, <1>5, <1>7 DEF Optional
<1>8. CASE RunRequired(p, name, s, m, i - 1)
  <2>1. s.run = <<>> /\ t.best = s.best
    BY <1>5, <1>8 DEF RunRequired
  <2>2. \A c : ReachedAt(m, c) => HasRun(name, s.best)
    BY <1>8 DEF RunRequired
  <2>3. CASE p[i] = "?" /\ At(p, i - 1) \in Quantifiers /\ At(p, i + 1) \notin Quantifiers
    <3>1. r.before = m.before /\ r.last = m.last
      BY <1>2, <2>3, RepeatedIs
    <3>2. \A c : ReachedAt(r, c) => HasRun(name, t.best)
      BY <2>1, <2>2, <3>1 DEF ReachedAt
    <3> QED
      BY <1>4, <2>3, <3>2 DEF RunRequired, OnceOrMore
  <2>4. CASE p[i] = "+" /\ ~Stacked(p, i)
    <3>1. OnceOrMore(p, i)
      BY <1>1, <2>4 DEF Stacked, OnceOrMore, Quantifiers
    <3>2. r.before = m.before /\ \A y \in r.last : \E z \in m.last : z[1] = y[1]
      BY <1>2, <2>4, RepeatedIs DEF From
    <3>3. ASSUME NEW c, ReachedAt(r, c) PROVE HasRun(name, t.best)
      <4>1. PICK x \in r.before : \E y \in r.last : x[2] = y[1] /\ c = y[2]
        BY <3>3 DEF ReachedAt
      <4>2. PICK y \in r.last : x[2] = y[1]
        BY <4>1
      <4>3. PICK z \in m.last : z[1] = y[1]
        BY <3>2
      <4>4. ReachedAt(m, z[2])
        BY <3>2, <4>2, <4>3 DEF ReachedAt
      <4> QED
        BY <2>1, <2>2, <4>4
    <3> QED
      BY <1>4, <3>1, <3>3 DEF RunRequired
  <2>5. OnceOrMore(p, i - 1)
    BY <1>8 DEF RunRequired
  <2>6. ~(At(p, i) \notin Quantifiers) /\ (i - 1) + 1 = i /\ (i - 1) + 2 = i + 1
    BY <1>1
  <2> QED
    BY <1>1, <2>3, <2>4, <2>5, <2>6 DEF OnceOrMore
<1> QED
  BY <1>3, <1>6, <1>7, <1>8 DEF Evident

(* The longer of two runs that a name has is one that it has.              *)
LEMMA EndRunHas ==
    ASSUME NEW name, NEW s, NEW run, HasRun(name, s.best), HasRun(name, run)
    PROVE  HasRun(name, EndRun(s, run).best)
<1> DEFINE t == EndRun(s, run)
<1>1. t.best = IF Len(run) > Len(s.best) THEN run ELSE s.best
  BY DEF EndRun
<1> HIDE DEF t
<1>2. CASE Len(run) > Len(s.best)
  BY <1>1, <1>2 DEF t
<1>3. CASE ~(Len(run) > Len(s.best))
  BY <1>1, <1>3 DEF t
<1> QED
  BY <1>2, <1>3

LEMMA CharacterEvident ==
    ASSUME NEW p \in Strings, NEW name \in Strings, NEW s \in Literals, NEW m \in Reaches(name),
           NEW i \in 1 .. Len(p), p[i] \notin Quantifiers, Evident(p, name, s, m, i - 1)
    PROVE  Evident(p, name, ReadToken(p, s, i), MatchToken(p, name, m, i), i)
<1> DEFINE t == ReadToken(p, s, i)
           r == MatchToken(p, name, m, i)
           q == At(p, i + 1)
           longer == Append(s.run, p[i])
<1>1. r = [before |-> Compose(m.before, m.last), last |-> Step(name, p[i])]
  BY DEF MatchToken
<1> SUFFICES ASSUME ~t.gaveUp
             PROVE  Plain(p, name, t, r, i) \/ Optional(name, t, r) \/ RunRequired(p, name, t, r, i)
  BY DEF Evident
<1>2. ~s.gaveUp /\ p[i] # "|"
  BY DEF ReadToken, Literals
<1>3. \A c : ReachedAt(m, c) => Fits(name, s, c)
  BY <1>2, ReachedFits
<1>4. ASSUME NEW x \in r.before PROVE ReachedAt(m, x[2])
  <2>1. m.before \in SUBSET Pairs(name) /\ m.last \in SUBSET Pairs(name) /\ x \in Compose(m.before, m.last)
    BY <1>1 DEF Reaches
  <2>2. ComposedOf(x, m.before, m.last)
    BY <2>1, ComposeIs
  <2> QED
    BY <2>2 DEF ComposedOf, ReachedAt
<1>5. ASSUME NEW x \in r.before PROVE HasRun(name, s.best) /\ HasRun(name, s.run) /\ EndsAt(name, s.run, x[2])
  <2>1. Fits(name, s, x[2])
    BY <1>3, <1>4
  <2> QED
    BY <2>1, EndsAtHasRun DEF Fits, Literals
<1>6. CASE t = EndRun(s, s.run)
  <2>1. t.run = <<>>
    BY <1>6 DEF EndRun
  <2>2. \A x \in r.before : HasRun(name, t.best)
    BY <1>5, <1>6, EndRunHas
  <2> QED
    BY <2>1, <2>2 DEF Optional
<1>7. ASSUME p[i] \notin NotLiteral, NEW c, ReachedAt(r, c)
      PROVE  HasRun(name, s.best) /\ HasRun(name, longer) /\ EndsAt(name, longer, c)
  <2>1. PICK x \in r.before : \E y \in r.last : x[2] = y[1] /\ c = y[2]
    BY <1>7 DEF ReachedAt
  <2>2. PICK y \in r.last : x[2] = y[1] /\ c = y[2]
    BY <2>1
  <2>3. c \in 1 .. Len(name) /\ x[2] = c - 1 /\ name[c] = p[i]
    BY <1>1, <1>7, <2>2, StepIs DEF NotLiteral
  <2>4. EndsAt(name, longer, c)
    BY <1>5, <2>3, EndsAtNext DEF Literals
  <2>5. longer \in Strings
    BY DEF Literals, Strings
  <2> QED
    BY <1>5, <2>4, <2>5, EndsAtHasRun
<1>8. CASE p[i] \notin NotLiteral /\ q = "+" /\ ~Stacked(p, i + 1) /\ t = EndRun(s, longer)
  <2>1. t.run = <<>>
    BY <1>8 DEF EndRun
  <2>2. \A c : ReachedAt(r, c) => HasRun(name, t.best)
    BY <1>7, <1>8, EndRunHas
  <2> QED
    BY <1>8, <2>1, <2>2 DEF RunRequired, OnceOrMore
<1>9. CASE p[i] \notin NotLiteral /\ q \notin Quantifiers /\ t = [s EXCEPT !.run = longer]
  <2>1. t.run = longer /\ t.best = s.best
    BY <1>9 DEF Literals
  <2> QED
    BY <1>7, <1>9, <2>1 DEF Plain, Fits
<1>10. \/ t = EndRun(s, s.run)
       \/ p[i] \notin NotLiteral /\ q = "+" /\ ~Stacked(p, i + 1) /\ t = EndRun(s, longer)
       \/ p[i] \notin NotLiteral /\ q \notin Quantifiers /\ t = [s EXCEPT !.run = longer]
  <2>1. t # [s EXCEPT !.gaveUp = TRUE]
    <3>1. [s EXCEPT !.gaveUp = TRUE].gaveUp
      BY DEF Literals
    <3> HIDE DEF t
    <3> QED
      BY <3>1
  <2> QED
    BY <1>2, <2>1 DEF ReadToken, Quantifiers
<1> QED
  BY <1>6, <1>8, <1>9, <1>10

(* The analysis gives up at the first alternative.                         *)
LEMMA NoAlternatives ==
    ASSUME NEW p \in Strings, NEW f, Analysed(p, f), ~f[Len(p)].gaveUp
    PROVE  \A j \in 1 .. Len(p) : p[j] # "|"
<1> DEFINE N == Len(p)
           J == [i \in 0 .. N |-> {s \in Literals : ~s.gaveUp => \A j \in 1 .. i : p[j] # "|"}]
<1>1. N \in Nat
  BY DEF Strings
<1>2. f[0] \in J[0]
  BY <1>1 DEF Analysed
<1>3. ASSUME NEW i \in 1 .. N, f[i - 1] \in J[i - 1] PROVE f[i] \in J[i]
  <2>1. i \in 0 .. N /\ i - 1 \in 0 .. N
    BY <1>1
  <2>2. f[i] = ReadToken(p, f[i - 1], i) /\ f[i] \in Literals /\ f[i - 1] \in Literals
    BY <2>1 DEF Analysed
  <2>3. ~f[i].gaveUp => ~f[i - 1].gaveUp /\ p[i] # "|"
    BY <2>2 DEF ReadToken, Literals
  <2>4. ~f[i - 1].gaveUp => \A j \in 1 .. i - 1 : p[j] # "|"
    BY <1>3, <2>1
  <2>5. \A j \in 1 .. i : j = i \/ j \in 1 .. i - 1
    BY <2>1
  <2> QED
    BY <2>1, <2>2, <2>3, <2>4, <2>5
<1>4. \A i \in 0 .. N : f[i] \in J[i]
  <2> HIDE DEF J, N
  <2> QED
    BY <1>1, <1>2, <1>3, StepwiseIn
<1>5. N \in 0 .. N
  BY <1>1
<1> QED
  BY <1>4, <1>5

LEMMA AllEvident ==
    ASSUME NEW p \in Strings, NEW name \in Strings, NEW f, Analysed(p, f), NEW g, Matching(p, name, g)
    PROVE  Evident(p, name, f[Len(p)], g[Len(p)], Len(p))
<1> DEFINE N == Len(p)
           d == [i \in 0 .. N |-> <<f[i], g[i]>>]
           J == [i \in 0 .. N |-> {x \in Literals \X Reaches(name) : Evident(p, name, x[1], x[2], i)}]
<1>1. N \in Nat /\ DOMAIN p = 1 .. N
  BY DEF Strings
<1>2. \A i \in 0 .. N : f[i] \in Literals /\ g[i] \in Reaches(name) /\ d[i] = <<f[i], g[i]>>
  BY DEF Analysed, Matching
<1>3. d[0] \in J[0]
  <2>1. f[0] = NoLiteral /\ g[0] = AtStart(name) /\ 0 \in 0 .. N
    BY <1>1 DEF Analysed, Matching
  <2>2. \A x \in Same(name) : x[2] \in Places(name)
    BY DEF Same
  <2>3. Optional(name, f[0], g[0])
    <3>1. f[0].run = <<>> /\ f[0].best = <<>> /\ g[0].before = Same(name)
      BY <2>1 DEF NoLiteral, AtStart
    <3> QED
      BY <2>2, <3>1, EndsAtNone DEF Optional, Places
  <2>4. Evident(p, name, f[0], g[0], 0)
    BY <2>3 DEF Evident
  <2> QED
    BY <1>2, <2>1, <2>4
<1>4. ASSUME NEW i \in 1 .. N, d[i - 1] \in J[i - 1] PROVE d[i] \in J[i]
  <2>1. i \in 0 .. N /\ i - 1 \in 0 .. N
    BY <1>1
  <2>2. Evident(p, name, f[i - 1], g[i - 1], i - 1)
    BY <1>2, <1>4, <2>1
  <2>3. f[i] = ReadToken(p, f[i - 1], i) /\ g[i] = MatchToken(p, name, g[i - 1], i)
    BY DEF Analysed, Matching
  <2>4. f[i - 1] \in Literals /\ g[i - 1] \in Reaches(name)
    BY <1>2, <2>1
  <2>5. Evident(p, name, f[i], g[i], i)
    BY <2>2, <2>3, <2>4, CharacterEvident, QuantifierEvident
  <2> QED
    BY <1>2, <2>1, <2>5
<1>5. \A i \in 0 .. N : d[i] \in J[i]
  <2> HIDE DEF J, N, d
  <2> QED
    BY <1>1, <1>3, <1>4, StepwiseIn
<1>6. N \in 0 .. N
  BY <1>1
<1> QED
  BY <1>2, <1>5, <1>6

(* The run that a pattern requires is in every name that the pattern       *)
(* matches.                                                                *)
LEMMA LiteralIsRequired ==
    ASSUME NEW p \in Strings, NEW name \in Strings, regex_search(p, name)
    PROVE  HasRun(name, RequiredLiteral(p))
<1> DEFINE N == Len(p)
<1>1. N \in Nat /\ DOMAIN p = 1 .. N /\ Len(name) \in Nat
  BY DEF Strings
<1>2. PICK f : Analysed(p, f)
  BY ReadingExists
<1>3. CASE f[N].gaveUp
  <2>1. RequiredLiteral(p) = <<>>
    BY <1>2, <1>3 DEF Analysed
  <2>2. 0 \in 0 .. Len(name)
    BY <1>1
  <2> QED
    BY <2>1, <2>2, EndsAtNone
<1>4. CASE ~f[N].gaveUp
  <2>1. \A j \in 1 .. N : p[j] # "|"
    BY <1>2, <1>4, NoAlternatives
  <2>2. {0, N + 1} \cup {i \in DOMAIN p : p[i] = "|"} = {0, N + 1}
    BY <1>1, <2>1
  <2>3. PICK i, j \in {0, N + 1} : i < j /\ MatchesPart(SubSeq(p, i + 1, j - 1), name)
    BY <2>2 DEF regex_search
  <2>4. i = 0 /\ j = N + 1
    BY <1>1, <2>3
  <2>5. SubSeq(p, 1, N) = p
    <3>1. p \in Seq(STRING)
      BY DEF Strings
    <3> HIDE DEF N
    <3>2. SubSeq(p, 1, N) \in Seq(STRING) /\ Len(SubSeq(p, 1, N)) = N /\ \A k \in 1 .. N : SubSeq(p, 1, N)[k] = p[k]
      <4>1. 1 \in 1 .. N + 1 /\ N \in 1 - 1 .. N /\ N - 1 + 1 = N /\ \A k \in 1 .. N : 1 + k - 1 = k
        BY <1>1
      <4> QED
        BY <1>1, <3>1, <4>1, SubSeqProperties DEF N
    <3> QED
      BY <3>1, <3>2 DEF N
  <2>6. MatchesPart(p, name)
    <3>1. i + 1 = 1 /\ j - 1 = N
      BY <1>1, <2>4
    <3> QED
      BY <2>3, <2>5, <3>1
  <2>7. PICK g : Matching(p, name, g)
    BY MatchingExists
  <2> DEFINE s == f[N]
             m == g[N]
  <2>8. s \in Literals /\ m \in Reaches(name) /\ Compose(m.before, m.last) # {} /\ Evident(p, name, s, m, N)
    <3>1. N \in 0 .. N
      BY <1>1
    <3>2. s \in Literals /\ m \in Reaches(name)
      BY <1>2, <2>7, <3>1 DEF Analysed, Matching
    <3>3. Compose(m.before, m.last) # {}
      BY <2>6, <2>7 DEF Matching
    <3>4. Evident(p, name, s, m, N)
      BY <1>2, <2>7, AllEvident
    <3> QED
      BY <3>2, <3>3, <3>4
  <2>9. RequiredLiteral(p) = EndRun(s, s.run).best
    BY <1>2, <1>4 DEF Analysed
  <2> HIDE DEF s, m, N
  <2>10. PICK x \in Compose(m.before, m.last) : TRUE
    BY <2>8
  <2>11. ReachedAt(m, x[2])
    <3>1. ComposedOf(x, m.before, m.last)
      BY <2>8, <2>10, ComposeIs DEF Reaches
    <3> QED
      BY <3>1 DEF ComposedOf, ReachedAt
  <2>12. Fits(name, s, x[2])
    BY <1>4, <2>8, <2>11, ReachedFits DEF s
  <2>13. HasRun(name, s.best) /\ HasRun(name, s.run)
    BY <2>8, <2>12, EndsAtHasRun DEF Fits, Literals
  <2> QED
    BY <2>9, <2>13, EndRunHas
<1> QED
  BY <1>3, <1>4

---------------------------------------------------------------------------
(* The lists of the least keys.                                            *)

(* Pairs of a score and a rank, the lower first.                           *)
Keys == Nat \X Nat
LessIn(S) == {p \in S \X S : Less(p[1], p[2])}
Ranked(S) == InTurn(S, LessIn(S))
Before(S, x) == {y \in S : Less(y, x)}

LEMMA LessOrders ==
    /\ \A x \in Keys : ~Less(x, x)
    /\ \A x, y, z \in Keys : Less(x, y) /\ Less(y, z) => Less(x, z)
    /\ \A x, y \in Keys : x # y => Less(x, y) \/ Less(y, x)
BY DEF Keys, Less

LEMMA LessTotal == ASSUME NEW S \in SUBSET Keys PROVE TotalOn(LessIn(S), S)
<1>1. \A x, y \in S : <<x, y>> \in LessIn(S) <=> Less(x, y)
  BY DEF LessIn
<1> QED
  BY <1>1, LessOrders DEF TotalOn

(* In the list of a set, each element has all the lesser ones before it.   *)
LEMMA RankedIs ==
    ASSUME NEW S \in SUBSET Keys, IsFiniteSet(S)
    PROVE  /\ Ranked(S) \in Seq(S) /\ Len(Ranked(S)) = Cardinality(S) /\ Cardinality(S) \in Nat
           /\ \A x \in S : \E i \in 1 .. Cardinality(S) : x = Ranked(S)[i]
           /\ \A i \in 1 .. Cardinality(S) :
                Ranked(S)[i] \in S /\ Cardinality(Before(S, Ranked(S)[i])) = i - 1
<1> DEFINE s == Ranked(S)
           N == Cardinality(S)
<1>1. IsListed(s, S, LessIn(S)) /\ ToSet(s) = S /\ Len(s) = N
  BY LessTotal, InTurnLists DEF Ranked
<1>2. N \in Nat
  BY FS_CardinalityType
<1> HIDE DEF s, N
<1>3. s \in Seq(S) /\ DOMAIN s = 1 .. N
  BY <1>1 DEF IsListed
<1>4. \A i, j \in 1 .. N : i < j => Less(s[i], s[j])
  BY <1>1, <1>3 DEF IsListed, LessIn
<1>5. \A x \in S : \E i \in 1 .. N : x = s[i]
  BY <1>1, <1>3 DEF ToSet
<1>6. \A i \in 1 .. N : s[i] \in S /\ s[i] \in Keys
  <2>1. \A i \in 1 .. Len(s) : s[i] \in S
    BY <1>3, ElementOfSeq
  <2> QED
    BY <1>1, <2>1
<1>7. ASSUME NEW i \in 1 .. N
      PROVE  Cardinality(Before(S, s[i])) = i - 1
  <2> DEFINE B == Before(S, s[i])
             f == [j \in 1 .. i - 1 |-> s[j]]
  <2>1. \A j \in 1 .. N : s[j] \in B <=> j < i
    <3> SUFFICES ASSUME NEW j \in 1 .. N PROVE Less(s[j], s[i]) <=> j < i
      BY <1>6 DEF Before
    <3>1. j < i => Less(s[j], s[i])
      BY <1>4
    <3>2. i < j => ~Less(s[j], s[i])
      BY <1>4, <1>6, LessOrders
    <3>3. i = j => ~Less(s[j], s[i])
      BY <1>6, LessOrders
    <3>4. i \in Nat /\ j \in Nat
      BY <1>2
    <3> QED
      BY <3>1, <3>2, <3>3, <3>4
  <2>2. \A x \in B : \E j \in 1 .. N : x = s[j]
    BY <1>5 DEF Before
  <2> HIDE DEF B
  <2>3. \A j \in 1 .. i - 1 : j \in 1 .. N /\ j < i
    BY <1>2
  <2>4. \A j, k \in 1 .. i - 1 : j # k => s[j] # s[k]
    <3> SUFFICES ASSUME NEW j \in 1 .. i - 1, NEW k \in 1 .. i - 1, j < k PROVE s[j] # s[k]
      <4>1. \A j, k \in 1 .. i - 1 : j < k \/ j = k \/ k < j
        BY <1>2
      <4> QED
        BY <4>1
    <3> QED
      BY <1>4, <1>6, <2>3, LessOrders
  <2>5. f \in Bijection(1 .. i - 1, B)
    <3>1. f \in [1 .. i - 1 -> B]
      BY <2>1, <2>3
    <3>2. \A x \in B : \E j \in 1 .. i - 1 : f[j] = x
      <4> SUFFICES ASSUME NEW x \in B PROVE \E j \in 1 .. i - 1 : f[j] = x
        OBVIOUS
      <4>1. PICK j \in 1 .. N : x = s[j]
        BY <2>2
      <4>2. j \in 1 .. i - 1
        BY <1>2, <2>1, <4>1
      <4> QED
        BY <4>1, <4>2
    <3>3. \A j, k \in 1 .. i - 1 : f[j] = f[k] => j = k
      BY <2>4
    <3> HIDE DEF f
    <3> QED
      BY <3>1, <3>2, <3>3 DEF Bijection, Injection, Surjection, IsInjective
  <2>6. ExistsBijection(1 .. i - 1, B) /\ i - 1 \in Nat
    BY <1>2, <2>5 DEF ExistsBijection
  <2>7. Cardinality(B) = i - 1
    BY <2>6, FS_CountingElements
  <2> QED
    BY <2>7 DEF B
<1> QED
  BY <1>1, <1>2, <1>3, <1>5, <1>6, <1>7 DEF s, N

Crowded(U, x, k) == \E c \in SUBSET U : Cardinality(c) = k /\ \A y \in c : Less(y, x)

(* What at least k others come before is not among the first k.            *)
LEMMA FirstOfPart ==
    ASSUME NEW K \in SUBSET Keys, IsFiniteSet(K), NEW U \in SUBSET K, NEW k \in Nat,
           \A x \in K \ U : Crowded(U, x, k)
    PROVE  First(U, k) = First(K, k)
<1> DEFINE s == Ranked(K)
           u == Ranked(U)
           N == Cardinality(K)
           M == Cardinality(U)
<1>1. U \in SUBSET Keys /\ IsFiniteSet(U)
  BY FS_Subset
<1>2. /\ N \in Nat /\ Len(s) = N
      /\ \A x \in K : \E i \in 1 .. N : x = s[i]
      /\ \A i \in 1 .. N : s[i] \in K /\ Cardinality(Before(K, s[i])) = i - 1
  BY RankedIs
<1>3. /\ M \in Nat /\ Len(u) = M
      /\ \A x \in U : \E i \in 1 .. M : x = u[i]
      /\ \A i \in 1 .. M : u[i] \in U /\ Cardinality(Before(U, u[i])) = i - 1
  BY <1>1, RankedIs
<1>3a. First(U, k) = [i \in 1 .. Min({k, M}) |-> u[i][2]] /\ First(K, k) = [i \in 1 .. Min({k, N}) |-> s[i][2]]
  BY <1>2, <1>3 DEF First, Ranked, LessIn
<1> HIDE DEF s, u, N, M
<1>4. ASSUME NEW i \in 1 .. M, i <= k
      PROVE  i <= N /\ u[i] = s[i]
  <2>1. u[i] \in U /\ u[i] \in K /\ u[i] \in Keys
    BY <1>1, <1>3
  <2>2. PICK j \in 1 .. N : u[i] = s[j]
    BY <1>2, <2>1
  <2>3. ASSUME NEW y \in K \ U, Less(y, u[i]) PROVE FALSE
    <3>1. PICK c \in SUBSET U : Cardinality(c) = k /\ \A z \in c : Less(z, y)
      BY DEF Crowded
    <3>2. c \subseteq Before(U, u[i])
      BY <2>1, <2>3, <3>1, LessOrders DEF Before
    <3>3. IsFiniteSet(Before(U, u[i]))
      BY <1>1, FS_Subset DEF Before
    <3>4. Cardinality(c) <= Cardinality(Before(U, u[i]))
      BY <3>2, <3>3, FS_Subset
    <3> QED
      BY <1>3, <1>4, <3>1, <3>4
  <2>4. Before(K, u[i]) = Before(U, u[i])
    BY <2>3 DEF Before
  <2>5. j - 1 = i - 1
    BY <1>2, <1>3, <2>2, <2>4
  <2>6. j = i /\ i <= N
    BY <1>2, <1>3, <2>5
  <2> QED
    BY <2>2, <2>6
<1>5. Min({k, M}) = Min({k, N})
  <2>1. CASE K = U
    BY <2>1 DEF N, M
  <2>2. CASE K # U
    <3>1. PICK x \in K \ U : TRUE
      BY <2>2
    <3>2. PICK c \in SUBSET U : Cardinality(c) = k
      BY <3>1 DEF Crowded
    <3>3. k <= M /\ M <= N
      BY <1>1, <3>2, FS_Subset DEF M, N
    <3>4. \A m \in Nat : k <= m => Min({k, m}) = k
      BY LesserIs
    <3>5. k <= N
      BY <1>2, <1>3, <3>3
    <3> QED
      BY <1>2, <1>3, <3>3, <3>4, <3>5
  <2> QED
    BY <2>1, <2>2
<1>6. \A i \in 1 .. Min({k, M}) : i \in 1 .. M /\ i <= k
  <2>1. Min({k, M}) = IF k <= M THEN k ELSE M
    BY <1>3, LesserIs
  <2> QED
    BY <1>3, <2>1
<1> QED
  BY <1>3a, <1>4, <1>5, <1>6

---------------------------------------------------------------------------
(* The collectors.                                                         *)

(* What a collector holds of the keys it was given: the least k, or all.   *)
Holds(c, U, k) ==
  /\ c \in SUBSET U /\ Cardinality(c) <= k
  /\ \A x \in U \ c : Cardinality(c) = k /\ \A y \in c : Less(y, x)

LEMMA WorstIs ==
    ASSUME NEW c \in SUBSET Keys, IsFiniteSet(c), c # {}
    PROVE  Worst(c) \in c /\ \A y \in c \ {Worst(c)} : Less(y, Worst(c))
<1>1. PICK g \in c : \A x \in c \ {g} : <<x, g>> \in LessIn(c)
  BY LessTotal, LastExists DEF HasLast
<1>2. \A x \in c \ {g} : Less(x, g)
  BY <1>1 DEF LessIn
<1>3. \A l \in c : ~Less(g, l)
  BY <1>2, LessOrders
<1>4. Worst(c) \in c /\ \A l \in c : ~Less(Worst(c), l)
  BY <1>3 DEF Worst
<1> QED
  BY <1>4, LessOrders

LEMMA PushHolds ==
    ASSUME NEW U \in SUBSET Keys, IsFiniteSet(U), NEW c, limit \in Nat, Holds(c, U, limit), NEW key \in Keys \ U
    PROVE  Holds(Push(c, key), U \cup {key}, limit)
<1> DEFINE V == U \cup {key}
           k == limit
           w == Worst(c)
           m == Cardinality(c)
<1>1. c \in SUBSET U /\ IsFiniteSet(c) /\ m \in Nat /\ m <= k /\ c \in SUBSET Keys /\ key \notin c /\ k \in Nat
  BY FS_Subset, FS_CardinalityType DEF Holds
<1>2. \A x \in U \ c : m = k /\ \A y \in c : Less(y, x)
  BY DEF Holds
<1>3. Push(c, key) = IF k = 0 THEN c ELSE IF m < k THEN c \cup {key}
                     ELSE IF Less(key, w) THEN (c \ {w}) \cup {key} ELSE c
  BY DEF Push
<1>4. k # 0 /\ ~(m < k) => w \in c /\ m = k /\ \A y \in c \ {w} : Less(y, w)
  <2> SUFFICES ASSUME k # 0, ~(m < k) PROVE w \in c /\ m = k /\ \A y \in c \ {w} : Less(y, w)
    OBVIOUS
  <2>1. m = k /\ c # {}
    BY <1>1, FS_EmptySet
  <2> QED
    BY <1>1, <2>1, WorstIs
<1> HIDE DEF w, k
<1>5. CASE k = 0
  <2>1. c = {} /\ m = 0
    BY <1>1, <1>5, FS_EmptySet
  <2> QED
    BY <1>3, <1>5, <2>1 DEF Holds, k
<1>6. CASE k # 0 /\ m < k
  <2>1. Cardinality(c \cup {key}) = m + 1
    BY <1>1, FS_AddElement
  <2>2. V \ (c \cup {key}) = {}
    BY <1>1, <1>2, <1>6
  <2> HIDE DEF m
  <2>3. Push(c, key) = c \cup {key} /\ c \cup {key} \in SUBSET V /\ Cardinality(c \cup {key}) <= k
    BY <1>1, <1>3, <1>6, <2>1
  <2> QED
    BY <2>2, <2>3 DEF Holds, k
<1>7. CASE k # 0 /\ ~(m < k) /\ Less(key, w)
  <2> DEFINE d == (c \ {w}) \cup {key}
  <2>1. w \in c /\ m = k /\ \A y \in c \ {w} : Less(y, w)
    BY <1>4, <1>7
  <2>2. Cardinality(c \ {w}) = m - 1 /\ IsFiniteSet(c \ {w}) /\ key \notin c \ {w}
    BY <1>1, <2>1, FS_RemoveElement
  <2>3. Cardinality(d) = k
    <3>1. Cardinality(d) = Cardinality(c \ {w}) + 1
      BY <2>2, FS_AddElement
    <3> HIDE DEF d, m
    <3> QED
      BY <1>1, <2>1, <2>2, <3>1
  <2>4. \A y \in d : Less(y, w)
    BY <1>7, <2>1
  <2>5. ASSUME NEW x \in V \ d PROVE \A y \in d : Less(y, x)
    <3>1. x = w \/ x \in U \ c
      BY <2>5
    <3>2. CASE x = w
      BY <2>4, <3>2
    <3>3. CASE x \in U \ c
      <4>1. Less(w, x) /\ w \in Keys /\ x \in Keys /\ d \subseteq Keys
        BY <1>1, <1>2, <2>1, <3>3
      <4> HIDE DEF d
      <4> QED
        BY <2>4, <4>1, LessOrders
    <3> QED
      BY <3>1, <3>2, <3>3
  <2>6. Push(c, key) = d /\ d \in SUBSET V
    BY <1>1, <1>3, <1>7
  <2> HIDE DEF d
  <2>7. Cardinality(d) <= k
    BY <1>1, <2>3
  <2> QED
    BY <2>3, <2>5, <2>6, <2>7 DEF Holds, k
<1>8. CASE k # 0 /\ ~(m < k) /\ ~Less(key, w)
  <2>1. w \in c /\ m = k /\ \A y \in c \ {w} : Less(y, w)
    BY <1>4, <1>8
  <2>2. Less(w, key)
    BY <1>1, <1>8, <2>1, LessOrders
  <2>3. \A y \in c : Less(y, key)
    BY <1>1, <2>1, <2>2, LessOrders
  <2>4. \A x \in V \ c : m = k /\ \A y \in c : Less(y, x)
    BY <1>2, <2>1, <2>3
  <2>5. Push(c, key) = c /\ c \in SUBSET V
    BY <1>1, <1>3, <1>8
  <2> QED
    BY <1>1, <2>4, <2>5 DEF Holds, k
<1> QED
  BY <1>5, <1>6, <1>7, <1>8

---------------------------------------------------------------------------
(* What is asked of a name, and the key that it has if it is wanted.       *)

Hit(r) == IF request.regex THEN regex_search(request.query, Text[r]) ELSE HasRun(Text[r], request.query)
Wanted(r) == phase = "suggest" \/ Hit(r)
Key(r) == <<IF phase = "suggest" THEN EditDistance(Text[r], request.query) ELSE 0, r>>
KeysOf(I) == {Key(order[i]) : i \in {j \in I : Wanted(order[j])}}
Asked == Searching /\ request \in Requests /\ order \in Orders

LEMMA AskedIs ==
    ASSUME Asked
    PROVE  /\ n \in Nat /\ limit \in Nat /\ request.limit \in Nat /\ request.query \in Strings /\ request.regex \in BOOLEAN
           /\ phase \in {"find", "suggest"} /\ (phase = "suggest" => limit >= 1)
           /\ \A i \in 1 .. n : order[i] \in DOMAIN Text /\ \A j \in 1 .. n : order[i] = order[j] => i = j
           /\ DOMAIN order = 1 .. n
<1>1. order \in Seq(DOMAIN Text) /\ \A i, j \in DOMAIN order : order[i] = order[j] => i = j
  BY SearchAssumption DEF Asked
<1>2. request.query \in Strings /\ request.regex \in BOOLEAN /\ request.limit \in Nat
  BY SearchAssumption DEF Asked
<1>3. n \in Nat /\ DOMAIN order = 1 .. n /\ \A i \in 1 .. n : order[i] \in DOMAIN Text
  BY <1>1, ElementOfSeq DEF n
<1>4. phase \in {"find", "suggest"}
  BY DEF Asked, Searching
<1>5. limit \in Nat /\ (phase = "suggest" => limit >= 1)
  BY <1>2, <1>4 DEF limit, AtLeastOne
<1> QED
  BY <1>1, <1>2, <1>3, <1>4, <1>5

LEMMA KeyIs ==
    ASSUME Asked, NEW r \in DOMAIN Text
    PROVE  /\ Text[r] \in Strings /\ r \in Nat /\ Key(r) \in Keys /\ Key(r)[2] = r
           /\ EditDistance(Text[r], request.query) \in Nat /\ EditDistance(Text[r], request.query) <= Unbounded
           /\ Unbounded \in Nat
<1>1. Text[r] \in Strings /\ r \in Nat /\ Unbounded \in Nat /\ request.query \in Strings
      /\ Len(Text[r]) + Len(request.query) <= Unbounded
  BY SearchAssumption DEF Asked
<1> DEFINE d == EditDistance(Text[r], request.query)
<1>2. Between(Len(Text[r]), Len(request.query), d)
  BY <1>1, DistanceIs
<1> HIDE DEF d
<1>3. Len(Text[r]) \in Nat /\ Len(request.query) \in Nat
  BY <1>1 DEF Strings
<1>4. d \in Nat /\ d <= Unbounded
  BY <1>1, <1>2, <1>3 DEF Between
<1>5. Key(r) = <<IF phase = "suggest" THEN d ELSE 0, r>>
  BY DEF Key, d
<1> QED
  BY <1>1, <1>4, <1>5 DEF Keys, d

(* Different names have different keys.                                    *)
LEMMA KeysAre ==
    ASSUME Asked, NEW I \in SUBSET (1 .. n)
    PROVE  /\ KeysOf(I) \in SUBSET Keys /\ IsFiniteSet(KeysOf(I))
           /\ \A i \in (1 .. n) \ I : Key(order[i]) \notin KeysOf(I)
<1>1. \A i \in 1 .. n : order[i] \in DOMAIN Text /\ Key(order[i]) \in Keys /\ Key(order[i])[2] = order[i]
  BY AskedIs, KeyIs
<1>2. KeysOf(I) \in SUBSET Keys
  BY <1>1 DEF KeysOf
<1>3. IsFiniteSet(KeysOf(I))
  <2> DEFINE W == {j \in I : Wanted(order[j])}
             f == [j \in W |-> Key(order[j])]
  <2>1. IsFiniteSet(W)
    <3>1. W \in SUBSET (1 .. n)
      OBVIOUS
    <3> HIDE DEF W
    <3>2. n \in Int /\ 1 \in Int
      BY AskedIs
    <3> QED
      BY <3>1, <3>2, FS_Interval, FS_Subset
  <2>2. f \in Surjection(W, KeysOf(I))
    <3>1. f \in [W -> KeysOf(I)] /\ \A x \in KeysOf(I) : \E j \in W : f[j] = x
      BY DEF KeysOf
    <3> QED
      BY <3>1 DEF Surjection
  <2> HIDE DEF W, f
  <2> QED
    BY <2>1, <2>2, FS_Surjection
<1>4. ASSUME NEW i \in (1 .. n) \ I PROVE Key(order[i]) \notin KeysOf(I)
  <2> SUFFICES ASSUME NEW j \in I, Key(order[i]) = Key(order[j]) PROVE FALSE
    BY DEF KeysOf
  <2>1. order[i] = order[j]
    BY <1>1
  <2> QED
    BY <2>1, AskedIs
<1> QED
  BY <1>2, <1>3, <1>4

(* A pattern's required run rules out no name that the pattern matches.    *)
LEMMA MatchesIs == ASSUME Asked, NEW r \in DOMAIN Text PROVE Matches(Text[r]) = Hit(r)
<1>1. Text[r] \in Strings /\ request.query \in Strings /\ request.regex \in BOOLEAN
  BY KeyIs, AskedIs
<1>2. regex_search(request.query, Text[r]) => HasRun(Text[r], RequiredLiteral(request.query))
  BY <1>1, LiteralIsRequired
<1>3. regex_search(request.query, Text[r]) \in BOOLEAN
  BY DEF regex_search
<1> QED
  BY <1>1, <1>2, <1>3 DEF Matches, Hit

(* The bound of the distance loses no suggestion.                          *)
LEMMA SuggestIs ==
    ASSUME Asked, phase = "suggest", NEW c \in SUBSET Keys, IsFiniteSet(c), NEW r \in DOMAIN Text
    PROVE  Suggest(c, r) = Push(c, Key(r))
<1> DEFINE D == EditDistance(Text[r], request.query)
           B == Bound(c)
           d == BoundedEditDistance(Text[r], request.query, B)
           m == Cardinality(c)
           w == Worst(c)
<1>1. /\ Text[r] \in Strings /\ request.query \in Strings /\ r \in Nat
      /\ D \in Nat /\ D <= Unbounded /\ Unbounded \in Nat
  BY KeyIs, AskedIs
<1>2. limit \in Nat /\ limit >= 1 /\ m \in Nat
  BY AskedIs, FS_CardinalityType
<1>3. m >= limit => w \in Keys
  BY <1>2, FS_EmptySet, WorstIs
<1>4. B = IF m >= limit THEN w[1] ELSE Unbounded
  BY DEF Bound
<1>5. Key(r) = <<D, r>>
  BY DEF Key
<1>6. /\ Suggest(c, r) = IF d <= B THEN Push(c, <<d, r>>) ELSE c
      /\ Push(c, Key(r)) = IF limit = 0 THEN c ELSE IF m < limit THEN c \cup {Key(r)}
                           ELSE IF Less(Key(r), w) THEN (c \ {w}) \cup {Key(r)} ELSE c
  BY DEF Suggest, Push
<1> HIDE DEF D, B, m, w
<1>7. B \in Nat
  BY <1>1, <1>3, <1>4 DEF Keys
<1>8. d \in Nat /\ (D <= B => d = D) /\ (D > B => d > B)
  BY <1>1, <1>7, BoundedIs DEF D
<1> HIDE DEF d
<1>9. CASE D <= B
  <2>1. d = D /\ d <= B
    BY <1>8, <1>9
  <2> QED
    BY <1>5, <1>6, <2>1
<1>10. CASE ~(D <= B)
  <2>1. D > B /\ d > B
    BY <1>1, <1>7, <1>8, <1>10
  <2>2. ~(d <= B)
    BY <1>7, <1>8, <2>1
  <2>3. m >= limit
    BY <1>1, <1>4, <1>10
  <2>4. ~(m < limit) /\ limit # 0
    BY <1>2, <2>3
  <2>5. ~Less(Key(r), w)
    <3>1. B = w[1] /\ w[1] \in Nat /\ Key(r)[1] = D
      BY <1>3, <1>4, <1>5, <2>3 DEF Keys
    <3> QED
      BY <1>1, <2>1, <3>1 DEF Less
  <2> QED
    BY <1>6, <2>2, <2>4, <2>5
<1> QED
  BY <1>9, <1>10

LEMMA ScanNameIs ==
    ASSUME Asked, NEW c \in SUBSET Keys, IsFiniteSet(c), NEW r \in DOMAIN Text
    PROVE  ScanName(c, r) = IF Wanted(r) THEN Push(c, Key(r)) ELSE c
<1>1. CASE phase = "suggest"
  BY <1>1, SuggestIs DEF ScanName, Wanted
<1>2. CASE phase # "suggest"
  <2>1. Key(r) = <<0, r>> /\ Matches(Text[r]) = Hit(r)
    BY <1>2, MatchesIs DEF Key
  <2> QED
    BY <1>2, <2>1 DEF ScanName, Wanted
<1> QED
  BY <1>1, <1>2

(* Of the names seen a collector holds the best.                           *)
LEMMA ScanNameHolds ==
    ASSUME Asked, NEW I \in SUBSET (1 .. n), NEW i \in (1 .. n) \ I, NEW c, Holds(c, KeysOf(I), limit)
    PROVE  Holds(ScanName(c, order[i]), KeysOf(I \cup {i}), limit)
<1> DEFINE r == order[i]
           U == KeysOf(I)
<1>1. r \in DOMAIN Text /\ limit \in Nat
  BY AskedIs
<1>2. U \in SUBSET Keys /\ IsFiniteSet(U) /\ Key(r) \in Keys \ U
  BY <1>1, KeysAre, KeyIs
<1>3. c \in SUBSET U /\ c \in SUBSET Keys /\ IsFiniteSet(c)
  BY <1>2, FS_Subset DEF Holds
<1>4. ScanName(c, r) = IF Wanted(r) THEN Push(c, Key(r)) ELSE c
  BY <1>1, <1>3, ScanNameIs
<1>5. KeysOf(I \cup {i}) = IF Wanted(r) THEN U \cup {Key(r)} ELSE U
  BY DEF KeysOf
<1> HIDE DEF U, r
<1>6. CASE Wanted(r)
  <2>1. Holds(Push(c, Key(r)), U \cup {Key(r)}, limit)
    BY <1>1, <1>2, PushHolds DEF U
  <2> QED
    BY <1>4, <1>5, <1>6, <2>1 DEF r
<1>7. CASE ~Wanted(r)
  BY <1>4, <1>5, <1>7 DEF r, U
<1> QED
  BY <1>6, <1>7

LEMMA ScanHolds ==
    ASSUME Asked, NEW from \in Nat, NEW to \in Nat, from <= to, to <= n,
           NEW I \in SUBSET (1 .. n), I \cap (from + 1 .. to) = {}, NEW c, Holds(c, KeysOf(I), limit)
    PROVE  Holds(Scan(c, from, to), KeysOf(I \cup (from + 1 .. to)), limit)
<1> DEFINE m == to - from
           R == SUBSET Keys
           upTo(i) == I \cup (from + 1 .. from + i)
           held(i) == {d \in R : Holds(d, KeysOf(upTo(i)), limit)}
           J == [i \in 0 .. m |-> held(i)]
           G == [x \in (1 .. m) \X R |-> ScanName(x[2], order[from + x[1]])]
           after == CHOOSE f : f = [i \in 0 .. m |-> IF i = 0 THEN c ELSE ScanName(f[i - 1], order[from + i])]
<1>1. m \in Nat /\ n \in Nat /\ from + m = to
  BY AskedIs
<1>2. ASSUME NEW i \in 0 .. m PROVE upTo(i) \in SUBSET (1 .. n)
  <2>1. from + i <= n
    BY <1>1
  <2> QED
    BY <1>1, <2>1
<1>3. \A i \in 0 .. m : \A d : Holds(d, KeysOf(upTo(i)), limit) => d \in R
  <2> SUFFICES ASSUME NEW i \in 0 .. m, NEW d, Holds(d, KeysOf(upTo(i)), limit) PROVE d \in R
    OBVIOUS
  <2>1. KeysOf(upTo(i)) \in SUBSET Keys
    <3> HIDE DEF upTo
    <3> QED
      BY <1>2, KeysAre
  <2> QED
    BY <2>1 DEF Holds
<1>4. upTo(0) = I
  BY <1>1
<1>5. c \in held(0)
  <2>1. 0 \in 0 .. m
    BY <1>1
  <2> HIDE DEF upTo
  <2> QED
    BY <1>3, <1>4, <2>1
<1>6. ASSUME NEW i \in 1 .. m, NEW d \in held(i - 1)
      PROVE  ScanName(d, order[from + i]) \in held(i) /\ G[<<i, d>>] = ScanName(d, order[from + i])
  <2>1. i - 1 \in 0 .. m /\ i \in 0 .. m /\ from + i \in from + 1 .. to /\ from + i \in 1 .. n
    BY <1>1
  <2>2. upTo(i) = upTo(i - 1) \cup {from + i}
    BY <1>1
  <2>3. from + i \notin upTo(i - 1)
    <3>1. from + i \notin I
      BY <2>1
    <3>2. ~(from + i <= from + (i - 1))
      BY <1>1
    <3> QED
      BY <3>1, <3>2
  <2>4. upTo(i - 1) \in SUBSET (1 .. n)
    BY <1>2, <2>1
  <2> HIDE DEF upTo
  <2>5. Holds(ScanName(d, order[from + i]), KeysOf(upTo(i)), limit)
    BY <2>1, <2>2, <2>3, <2>4, ScanNameHolds
  <2> QED
    BY <1>3, <2>1, <2>5
<1>7. Scan(c, from, to) = after[m]
  BY DEF Scan
<1> HIDE DEF upTo, held, G
<1>8. \A i \in 0 .. m : held(i) \in SUBSET R
  BY DEF held
<1>9. PICK f : InSteps(f, m, c, G, J)
  <2>1. J \in [0 .. m -> SUBSET R] /\ c \in J[0]
    BY <1>1, <1>5, <1>8
  <2>2. \A i \in 1 .. m : \A s \in J[i - 1] : G[<<i, s>>] \in J[i]
    <3> SUFFICES ASSUME NEW i \in 1 .. m, NEW s \in J[i - 1] PROVE G[<<i, s>>] \in J[i]
      OBVIOUS
    <3>1. i - 1 \in 0 .. m /\ i \in 0 .. m
      BY <1>1
    <3> QED
      BY <1>6, <3>1
  <2> HIDE DEF J, m
  <2> QED
    BY <1>1, <2>1, <2>2, StepsInside
<1>10. f = [i \in 0 .. m |-> IF i = 0 THEN c ELSE ScanName(f[i - 1], order[from + i])]
  <2>1. ASSUME NEW i \in 0 .. m, i # 0
        PROVE  G[<<i, f[i - 1]>>] = ScanName(f[i - 1], order[from + i])
    <3>1. i - 1 \in 0 .. m /\ i \in 1 .. m
      BY <1>1, <2>1
    <3>2. f[i - 1] \in held(i - 1)
      BY <1>9, <3>1 DEF InSteps
    <3> QED
      BY <1>6, <3>1, <3>2
  <2> QED
    BY <1>9, <2>1 DEF InSteps
<1>11. after = [i \in 0 .. m |-> IF i = 0 THEN c ELSE ScanName(after[i - 1], order[from + i])]
  BY <1>10
<1> HIDE DEF after, m
<1>12. after[0] = c /\ \A i \in 1 .. m : after[i] = ScanName(after[i - 1], order[from + i])
  <2>1. 0 \in 0 .. m /\ \A i \in 1 .. m : i \in 0 .. m /\ i # 0
    BY <1>1
  <2> QED
    BY <1>11, <2>1
<1>13. \A i \in 0 .. m : after[i] \in J[i]
  <2>1. after[0] \in J[0]
    BY <1>1, <1>5, <1>12
  <2>2. ASSUME NEW i \in 1 .. m, after[i - 1] \in J[i - 1] PROVE after[i] \in J[i]
    <3>1. i - 1 \in 0 .. m /\ i \in 0 .. m
      BY <1>1
    <3> QED
      BY <1>6, <1>12, <2>2, <3>1
  <2> HIDE DEF J
  <2> QED
    BY <1>1, <2>1, <2>2, StepwiseIn
<1>14. after[m] \in held(m)
  BY <1>1, <1>13
<1>15. upTo(m) = I \cup (from + 1 .. to)
  BY <1>1 DEF upTo
<1> QED
  BY <1>7, <1>14, <1>15 DEF held

---------------------------------------------------------------------------
(* The threads and what they claim.                                        *)

SearchSpec == SearchInit /\ [][SearchNext]_searchVars

Steps == {"off", "ready", "scan", "joined"}
SearchTypes ==
  /\ phase \in {"idle", "find", "suggest", "done", "failed"}
  /\ pc \in [Workers -> Steps]
  /\ begin \in [Workers -> Nat] /\ next \in Nat /\ starting \in Nat
  /\ n \in Nat /\ error \in BOOLEAN

(* Threads run only while something is searched, and one that has not been *)
(* started yet is off.                                                     *)
Running ==
  /\ ~Searching => starting = 0 /\ \A t \in Workers : pc[t] \in {"off", "joined"}
  /\ starting > 0 => \A t \in Workers : t = 0 \/ t >= starting => pc[t] = "off"

(* A failed scan is remembered by a thread that has ended, and nothing has *)
(* been answered.                                                          *)
Failing ==
  /\ error => phase \in {"find", "suggest", "failed"}
  /\ error /\ Searching => \E t \in Workers : pc[t] = "joined"
  /\ phase # "done" => suggestions = <<>>

(* A chunk that is scanned begins at a name, and lies before the chunks    *)
(* that can still be claimed, if any.                                      *)
Claimed ==
  \A t \in Workers : pc[t] = "scan" => begin[t] < n /\ (next < n => begin[t] + Chunk <= next)

Disjoint(t, u) == begin[t] + Chunk <= begin[u] \/ begin[u] + Chunk <= begin[t]
ChunksDisjoint == \A t, u \in Workers : t # u /\ pc[t] = "scan" /\ pc[u] = "scan" => Disjoint(t, u)

SearchInv == SearchTypes /\ Running /\ Failing /\ Claimed /\ ChunksDisjoint

LEMMA SearchConstants == Workers \subseteq Nat /\ 0 \in Workers /\ Chunk \in Nat \ {0}
BY SearchAssumption

LEMMA OrderIsSeq == \A o \in Orders : Len(o) \in Nat
BY SearchAssumption

-----------------------------------------------------------------------------
(* The steps, by what they change.                                         *)

LEMMA AskKeeps == ASSUME SearchInv, Ask PROVE SearchInv'
<1>1. /\ phase = "idle" /\ phase' = "find" /\ order' \in Orders
      /\ UNCHANGED <<pc, starting, next, begin, error, suggestions>>
  BY DEF Ask
<1>2. n' \in Nat
  BY <1>1, OrderIsSeq DEF n
<1>3. starting = 0 /\ \A t \in Workers : pc[t] \in {"off", "joined"}
  BY <1>1 DEF SearchInv, Running, Searching
<1>4. ~error
  BY <1>1 DEF SearchInv, Failing
<1>5. SearchTypes'
  BY <1>1, <1>2 DEF SearchInv, SearchTypes
<1>6. Running' /\ Failing'
  BY <1>1, <1>3, <1>4 DEF SearchInv, Running, Failing
<1>7. Claimed' /\ ChunksDisjoint'
  BY <1>1, <1>3 DEF Claimed, ChunksDisjoint
<1> QED
  BY <1>5, <1>6, <1>7 DEF SearchInv

(* An answer comes when no thread runs, and none of them has failed.       *)
LEMMA ReturnKeeps ==
  ASSUME SearchInv, NEW names, Return(names), UNCHANGED <<order, error>>, ~error, Searching
  PROVE  SearchInv'
<1>1. /\ pc' = [t \in Workers |-> "off"] /\ starting' = 0 /\ next' = 0
      /\ begin' = [t \in Workers |-> 0]
  BY DEF Return, Idle
<1>2. phase' \in {"suggest", "done"} /\ (phase' = "suggest" => suggestions' = <<>>)
  BY DEF Return, Searching
<1>3. n' = n
  BY DEF n
<1>4. SearchTypes'
  BY <1>1, <1>2, <1>3 DEF SearchInv, SearchTypes, Steps
<1>5. Running' /\ Failing' /\ Claimed' /\ ChunksDisjoint'
  BY <1>1, <1>2 DEF Running, Failing, Claimed, ChunksDisjoint
<1> QED
  BY <1>4, <1>5 DEF SearchInv

LEMMA AnswerKeeps == ASSUME SearchInv, SearchInline \/ Merge PROVE SearchInv'
<1>1. CASE SearchInline
  <2>1. ~error
    BY <1>1 DEF SearchInv, Failing, SearchInline, Quiet
  <2> QED
    BY <1>1, <2>1, ReturnKeeps DEF SearchInline, Quiet
<1>2. CASE Merge
  BY <1>2, ReturnKeeps DEF Merge
<1> QED
  BY <1>1, <1>2

LEMMA FailKeeps == ASSUME SearchInv, InlineThrows \/ Rethrow PROVE SearchInv'
<1>1. /\ Searching /\ phase' = "failed" /\ error' \in BOOLEAN /\ n' = n
      /\ UNCHANGED <<pc, starting, next, begin, suggestions>>
  BY DEF InlineThrows, Rethrow, Quiet, n, SearchInv, SearchTypes
<1>2. \A t \in Workers : pc[t] \in {"off", "joined"}
  BY DEF InlineThrows, Rethrow, Quiet, Joined
<1>3. starting = 0
  BY SearchConstants DEF InlineThrows, Rethrow, Joined, SearchInv, Running, SearchTypes
<1>4. SearchTypes'
  BY <1>1 DEF SearchInv, SearchTypes
<1>5. Running' /\ Failing' /\ Claimed' /\ ChunksDisjoint'
  BY <1>1, <1>2, <1>3 DEF SearchInv, Running, Failing, Claimed, ChunksDisjoint, Searching
<1> QED
  BY <1>4, <1>5 DEF SearchInv

(* A thread that is started was off.                                       *)
LEMMA StartKeeps ==
  ASSUME SearchInv, StartPool \/ StartThread \/ ThreadFailsToStart
  PROVE  SearchInv'
<1>1. /\ Searching /\ n' = n
      /\ UNCHANGED <<phase, next, begin, error, suggestions>>
  BY DEF StartPool, StartThread, ThreadFailsToStart, Quiet, n
<1>2. SearchTypes /\ Running /\ Failing /\ Claimed /\ ChunksDisjoint
  BY DEF SearchInv
<1>3. CASE StartPool
  <2>1. starting' = 1 /\ pc' = pc /\ \A t \in Workers : pc[t] = "off"
    BY <1>3 DEF StartPool, Quiet
  <2> QED
    BY <1>1, <1>2, <2>1 DEF SearchInv, SearchTypes, Running, Failing, Claimed, ChunksDisjoint, Searching
<1>4. ASSUME NEW k \in {0, starting}, pc' = [pc EXCEPT ![k] = "ready"], starting > 0,
             starting' = 0 \/ (starting' = starting + 1 /\ k = starting)
      PROVE  SearchInv'
  <2>1. k \in Workers => pc[k] = "off"
    BY <1>2, <1>4 DEF Running, SearchTypes
  <2>2. SearchTypes'
    <3>1. starting' \in Nat
      BY <1>2, <1>4 DEF SearchTypes
    <3>2. pc' \in [Workers -> Steps]
      BY <1>2, <1>4 DEF SearchTypes, Steps
    <3> QED
      BY <1>1, <1>2, <3>1, <3>2 DEF SearchTypes
  <2>3. Running'
    <3>1. Searching'
      BY <1>1 DEF Searching
    <3>2. ASSUME starting' > 0, NEW t \in Workers, t = 0 \/ t >= starting'
          PROVE  pc'[t] = "off"
      <4>1. starting' = starting + 1 /\ k = starting /\ starting \in Nat /\ t \in Nat
        BY <1>2, <1>4, <3>2, SearchConstants DEF SearchTypes
      <4>2. t # k /\ (t = 0 \/ t >= starting)
        BY <1>4, <3>2, <4>1
      <4> QED
        BY <1>2, <1>4, <4>2 DEF SearchTypes, Running
    <3> QED
      BY <3>1, <3>2 DEF Running
  <2>4. \A t \in Workers : /\ pc'[t] = "scan" => pc[t] = "scan"
                           /\ pc[t] = "joined" => pc'[t] = "joined"
    BY <1>2, <1>4, <2>1 DEF SearchTypes
  <2>5. Failing'
    BY <1>1, <1>2, <2>4 DEF Failing, Searching
  <2>6. Claimed' /\ ChunksDisjoint'
    BY <1>1, <1>2, <2>4 DEF Claimed, ChunksDisjoint, Disjoint
  <2> QED
    BY <2>2, <2>3, <2>5, <2>6 DEF SearchInv
<1> QED
  BY <1>3, <1>4 DEF StartThread, ThreadFailsToStart

(* A chunk is claimed once: the next one begins where it ends.             *)
LEMMA ClaimKeeps == ASSUME SearchInv, NEW t \in Workers, Claim(t) PROVE SearchInv'
<1>1. SearchTypes /\ Running /\ Failing /\ Claimed /\ ChunksDisjoint /\ Chunk \in Nat \ {0}
  BY SearchConstants DEF SearchInv
<1>2. /\ pc[t] = "ready" /\ n' = n /\ next' = next + Chunk
      /\ begin' = [begin EXCEPT ![t] = next]
      /\ pc' = [pc EXCEPT ![t] = IF next >= n THEN "joined" ELSE "scan"]
      /\ UNCHANGED <<phase, starting, error, suggestions>>
  BY DEF Claim, n
<1>3. pc'[t] \in {"scan", "joined"} /\ (pc'[t] = "scan" => next < n) /\ begin'[t] = next
  BY <1>1, <1>2 DEF SearchTypes
<1>4. \A u \in Workers \ {t} : pc'[u] = pc[u] /\ begin'[u] = begin[u]
  BY <1>1, <1>2 DEF SearchTypes
<1>5. Searching
  BY <1>1, <1>2 DEF Running
<1>6. SearchTypes'
  BY <1>1, <1>2 DEF SearchTypes, Steps
<1>7. Running' /\ Failing'
  <2>1. starting > 0 => ~(t = 0 \/ t >= starting)
    BY <1>1, <1>2 DEF Running
  <2>2. Running'
    BY <1>1, <1>2, <1>4, <1>5, <2>1 DEF Running, Searching
  <2> QED
    BY <1>1, <1>2, <1>4, <2>2 DEF Failing, Searching
<1>8. Claimed'
  <2> SUFFICES ASSUME NEW u \in Workers, pc'[u] = "scan"
               PROVE  begin'[u] < n /\ (next' < n => begin'[u] + Chunk <= next')
    BY <1>2 DEF Claimed
  <2>1. CASE u = t
    BY <1>1, <1>2, <1>3, <2>1 DEF SearchTypes
  <2>2. CASE u # t
    <3>1. begin[u] < n /\ (next < n => begin[u] + Chunk <= next)
      BY <1>1, <1>4, <2>2 DEF Claimed
    <3> QED
      BY <1>1, <1>2, <1>4, <2>2, <3>1 DEF SearchTypes
  <2> QED
    BY <2>1, <2>2
<1>9. ChunksDisjoint'
  <2> SUFFICES ASSUME NEW u \in Workers, NEW v \in Workers, u # v, pc'[u] = "scan", pc'[v] = "scan"
               PROVE  Disjoint(u, v)'
    BY DEF ChunksDisjoint
  <2>1. ASSUME NEW w \in Workers \ {t}, pc'[w] = "scan", pc'[t] = "scan"
        PROVE  begin'[w] + Chunk <= begin'[t]
    BY <1>1, <1>3, <1>4, <2>1 DEF Claimed
  <2>2. CASE u # t /\ v # t
    BY <1>1, <1>4, <2>2 DEF ChunksDisjoint, Disjoint
  <2> QED
    BY <2>1, <2>2 DEF Disjoint
<1> QED
  BY <1>6, <1>7, <1>8, <1>9 DEF SearchInv

(* A scan ends, with its names collected or by an exception.               *)
LEMMA ScanKeeps == ASSUME SearchInv, NEW t \in Workers, ScanChunk(t) \/ ScanThrows(t) PROVE SearchInv'
<1>1. SearchTypes /\ Running /\ Failing /\ Claimed /\ ChunksDisjoint
  BY DEF SearchInv
<1>2. /\ pc[t] = "scan" /\ n' = n
      /\ \/ pc' = [pc EXCEPT ![t] = "ready"] /\ next' = next /\ error' = error
         \/ pc' = [pc EXCEPT ![t] = "joined"] /\ next' = n /\ error' = TRUE
      /\ UNCHANGED <<phase, starting, begin, suggestions>>
  BY DEF ScanChunk, ScanThrows, n
<1>3. Searching /\ Searching'
  BY <1>1, <1>2 DEF Running, Searching
<1>4. \A u \in Workers \ {t} : pc'[u] = pc[u]
  BY <1>1, <1>2 DEF SearchTypes
<1>5. pc'[t] \in {"ready", "joined"} /\ (error' => error \/ pc'[t] = "joined")
  BY <1>1, <1>2 DEF SearchTypes
<1>6. SearchTypes'
  BY <1>1, <1>2 DEF SearchTypes, Steps
<1>7. Running'
  <2>1. starting > 0 => ~(t = 0 \/ t >= starting)
    BY <1>1, <1>2 DEF Running
  <2> QED
    BY <1>1, <1>2, <1>3, <1>4, <2>1 DEF Running
<1>8. Failing'
  BY <1>1, <1>2, <1>3, <1>4, <1>5 DEF Failing, Searching
<1>9. Claimed'
  <2> SUFFICES ASSUME NEW u \in Workers \ {t}, pc'[u] = "scan"
               PROVE  begin'[u] < n /\ (next' < n => begin'[u] + Chunk <= next')
    BY <1>2, <1>5 DEF Claimed
  <2> QED
    BY <1>1, <1>2, <1>4 DEF Claimed, SearchTypes
<1>10. ChunksDisjoint'
  BY <1>1, <1>2, <1>4, <1>5 DEF ChunksDisjoint, Disjoint
<1> QED
  BY <1>6, <1>7, <1>8, <1>9, <1>10 DEF SearchInv

-----------------------------------------------------------------------------

LEMMA SearchStepKeeps == SearchInv /\ [SearchNext]_searchVars => SearchInv'
<1> SUFFICES ASSUME SearchInv, [SearchNext]_searchVars PROVE SearchInv'
  OBVIOUS
<1>1. CASE UNCHANGED searchVars
  BY <1>1 DEF SearchInv, SearchTypes, Running, Failing, Claimed, ChunksDisjoint, Disjoint, Searching, n, searchVars
<1>2. CASE SearchNext
  BY <1>2, AskKeeps, AnswerKeeps, FailKeeps, StartKeeps, ClaimKeeps, ScanKeeps
     DEF SearchNext, SearchStep, SearchFault
<1> QED
  BY <1>1, <1>2

(* The inductive invariant holds in every reachable state.                 *)
THEOREM SearchInvariant == SearchSpec => []SearchInv
<1>1. SearchInit => SearchInv
  <2> SUFFICES ASSUME SearchInit PROVE SearchInv
    OBVIOUS
  <2>1. n = 0
    BY DEF SearchInit, n
  <2> QED
    BY <2>1 DEF SearchInit, SearchInv, SearchTypes, Steps, Running, Failing, Claimed, ChunksDisjoint, Searching
<1> QED
  BY <1>1, SearchStepKeeps, PTL DEF SearchSpec

(* Threads that scan at the same time scan disjoint chunks of the names:   *)
(* the counter of ParallelTopK gives each out once, also when a scan       *)
(* throws and stores the end in it.                                        *)
THEOREM ThreadsScanDisjointChunks == SearchSpec => []ChunksDisjoint
BY SearchInvariant, PTL DEF SearchInv

(* An exception of a scan fails the whole search, after every thread has   *)
(* ended: nothing that is incomplete is answered.                          *)
THEOREM NothingPartialIsAnswered == SearchSpec => []NothingPartial
<1>1. SearchInv => NothingPartial
  BY DEF SearchInv, Running, Failing, Searching, NothingPartial
<1> QED
  BY <1>1, SearchInvariant, PTL

---------------------------------------------------------------------------
(* What the threads were given and hold.                                   *)

(* The places in `order` of the chunk that a thread scans.                 *)
ChunkOf(t) == begin[t] + 1 .. Min({n, begin[t] + Chunk})

(* seen: the places of the names that each thread was given and has        *)
(* scanned.  It holds the best of them, no name is given twice, and unless *)
(* a scan has thrown every name that was claimed is seen or being scanned. *)
WereGiven(seen) ==
  /\ seen \in [Workers -> SUBSET (1 .. n)] /\ best \in [Workers -> SUBSET Keys]
  /\ \A t \in Workers : Holds(best[t], KeysOf(seen[t]), limit) /\ \A i \in seen[t] : i <= next
  /\ \A t, u \in Workers : t # u => seen[t] \cap seen[u] = {}
  /\ \A t, u \in Workers : pc[u] = "scan" => seen[t] \cap ChunkOf(u) = {}
  /\ ~error => \A i \in 1 .. n : i <= next =>
       \E t \in Workers : i \in seen[t] \/ (pc[t] = "scan" /\ i \in ChunkOf(t))
AllClaimed == ~error => \A t \in Workers : pc[t] = "joined" => n <= next

HitKeys == {<<0, r>> : r \in {q \in ToSet(order) : Hit(q)}}
NearKeys == {<<EditDistance(Text[r], request.query), r>> : r \in ToSet(order)}
NothingCollected == best = [t \in Workers |-> {}] /\ next = 0 /\ ~error
ThreadsOff == \A t \in Workers : pc[t] = "off"
Collecting ==
  /\ phase = "idle" => NothingCollected /\ ThreadsOff
  /\ Searching => Asked /\ AllClaimed /\ \E seen : WereGiven(seen)
  /\ phase = "suggest" => found = <<>> /\ First(HitKeys, request.limit) = <<>>

ExactInv == SearchInv /\ Collecting /\ TopIsExact /\ CollectedOnce

LEMMA ChunkIs ==
    ASSUME SearchInv, NEW t \in Workers, pc[t] = "scan"
    PROVE  /\ n \in Nat /\ begin[t] \in Nat /\ Min({n, begin[t] + Chunk}) \in Nat
           /\ begin[t] <= Min({n, begin[t] + Chunk}) /\ Min({n, begin[t] + Chunk}) <= n
           /\ Min({n, begin[t] + Chunk}) <= begin[t] + Chunk
           /\ ChunkOf(t) \in SUBSET (1 .. n)
           /\ \A i \in ChunkOf(t) : next < n => i <= next
<1> DEFINE b == begin[t]
           e == Min({n, b + Chunk})
<1>1. n \in Nat /\ b \in Nat /\ Chunk \in Nat \ {0} /\ next \in Nat /\ b < n /\ (next < n => b + Chunk <= next)
  BY SearchConstants DEF SearchInv, SearchTypes, Claimed
<1> HIDE DEF b
<1>2. e = IF n <= b + Chunk THEN n ELSE b + Chunk
  BY <1>1, LesserIs
<1> HIDE DEF e
<1>3. e \in Nat /\ b <= e /\ e <= n /\ e <= b + Chunk /\ (next < n => e <= next)
  BY <1>1, <1>2
<1>4. ChunkOf(t) = b + 1 .. e
  BY DEF ChunkOf, b, e
<1>5. ChunkOf(t) \in SUBSET (1 .. n) /\ \A i \in ChunkOf(t) : next < n => i <= next
  BY <1>1, <1>3, <1>4
<1> QED
  BY <1>1, <1>3, <1>5 DEF b, e

LEMMA ChunksApart ==
    ASSUME SearchInv, NEW t \in Workers, NEW u \in Workers, t # u, pc[t] = "scan", pc[u] = "scan"
    PROVE  ChunkOf(t) \cap ChunkOf(u) = {}
<1> SUFFICES ASSUME NEW i \in ChunkOf(t), i \in ChunkOf(u) PROVE FALSE
  OBVIOUS
<1> DEFINE b == begin[t]
           c == begin[u]
           e == Min({n, b + Chunk})
           f == Min({n, c + Chunk})
<1>1. b \in Nat /\ c \in Nat /\ Chunk \in Nat /\ (b + Chunk <= c \/ c + Chunk <= b)
  BY SearchConstants DEF SearchInv, SearchTypes, ChunksDisjoint, Disjoint
<1>2. e \in Nat /\ f \in Nat /\ e <= b + Chunk /\ f <= c + Chunk
  BY ChunkIs
<1>3. i \in b + 1 .. e /\ i \in c + 1 .. f
  BY DEF ChunkOf
<1> HIDE DEF b, c, e, f
<1> QED
  BY <1>1, <1>2, <1>3

LEMMA KeysOfAll ==
    ASSUME Asked
    PROVE  KeysOf(1 .. n) = IF phase = "find" THEN HitKeys ELSE NearKeys
<1>1. ToSet(order) = {order[i] : i \in 1 .. n}
  BY AskedIs DEF ToSet
<1>2. KeysOf(1 .. n) = {Key(r) : r \in {q \in ToSet(order) : Wanted(q)}}
  BY <1>1 DEF KeysOf
<1>3. CASE phase = "find"
  <2>1. \A r : Key(r) = <<0, r>> /\ (Wanted(r) <=> Hit(r))
    BY <1>3 DEF Key, Wanted
  <2> QED
    BY <1>2, <1>3, <2>1 DEF HitKeys
<1>4. CASE phase = "suggest"
  <2>1. \A r : Key(r) = <<EditDistance(Text[r], request.query), r>> /\ Wanted(r)
    BY <1>4 DEF Key, Wanted
  <2> QED
    BY <1>2, <1>4, <2>1 DEF NearKeys
<1> QED
  BY <1>3, <1>4, AskedIs

Sought == IF phase = "find" THEN HitKeys ELSE NearKeys

LEMMA HeldTop ==
    ASSUME Asked, NEW c, Holds(c, KeysOf(1 .. n), limit)
    PROVE  Top(c) = First(Sought, limit)
<1> DEFINE K == KeysOf(1 .. n)
<1>1. K \in SUBSET Keys /\ IsFiniteSet(K) /\ limit \in Nat
  BY KeysAre, AskedIs
<1>2. c \in SUBSET K /\ \A x \in K \ c : Crowded(c, x, limit)
  BY DEF Holds, Crowded
<1>3. K = Sought
  BY KeysOfAll DEF Sought
<1> HIDE DEF K
<1>4. First(c, limit) = First(K, limit)
  BY <1>1, <1>2, FirstOfPart
<1> QED
  BY <1>3, <1>4 DEF Top

(* Of what the threads hold the first are the first of all.                *)
LEMMA MergedTop ==
    ASSUME SearchInv, Asked, NEW seen, WereGiven(seen), AllClaimed, ~error, Joined
    PROVE  Top(UNION {best[t] : t \in Workers}) = First(Sought, limit)
<1> DEFINE K == KeysOf(1 .. n)
           U == UNION {best[t] : t \in Workers}
<1>1. K \in SUBSET Keys /\ IsFiniteSet(K) /\ limit \in Nat
  BY KeysAre, AskedIs
<1>2. K = Sought
  BY KeysOfAll DEF Sought
<1>3. \A t \in Workers : seen[t] \in SUBSET (1 .. n) /\ Holds(best[t], KeysOf(seen[t]), limit)
  BY DEF WereGiven
<1>4. U \in SUBSET K
  <2>1. \A t \in Workers : best[t] \subseteq KeysOf(seen[t])
    BY <1>3 DEF Holds
  <2>2. \A t \in Workers : KeysOf(seen[t]) \subseteq K
    BY <1>3 DEF KeysOf
  <2> HIDE DEF K
  <2> QED
    BY <2>1, <2>2
<1>5. \A i \in 1 .. n : \E t \in Workers : i \in seen[t]
  <2>1. n <= next
    BY SearchConstants DEF AllClaimed, Joined
  <2>2. \A t \in Workers : pc[t] # "scan"
    BY DEF Joined
  <2>3. n \in Nat /\ next \in Nat
    BY DEF SearchInv, SearchTypes
  <2>4. \A i \in 1 .. n : i <= next => \E t \in Workers : i \in seen[t]
    BY <2>2 DEF WereGiven
  <2> QED
    BY <2>1, <2>3, <2>4
<1>6. ASSUME NEW x \in K \ U PROVE Crowded(U, x, limit)
  <2>1. PICK i \in 1 .. n : Wanted(order[i]) /\ x = Key(order[i])
    BY DEF KeysOf
  <2>2. PICK t \in Workers : i \in seen[t]
    BY <1>5
  <2>3. x \in KeysOf(seen[t]) /\ x \notin best[t]
    BY <2>1, <2>2 DEF KeysOf
  <2>4. Cardinality(best[t]) = limit /\ \A y \in best[t] : Less(y, x)
    BY <1>3, <2>3 DEF Holds
  <2>5. best[t] \in SUBSET U
    OBVIOUS
  <2> HIDE DEF U
  <2> QED
    BY <2>4, <2>5 DEF Crowded
<1> HIDE DEF K, U
<1>7. First(U, limit) = First(K, limit)
  BY <1>1, <1>4, <1>6, FirstOfPart
<1> QED
  BY <1>2, <1>7 DEF Top, U

(* What two threads hold is apart.                                         *)
LEMMA KeysApart ==
    ASSUME Asked, NEW I \in SUBSET (1 .. n), NEW J \in SUBSET (1 .. n), I \cap J = {}
    PROVE  KeysOf(I) \cap KeysOf(J) = {}
<1> SUFFICES ASSUME NEW x \in KeysOf(I), x \in KeysOf(J) PROVE FALSE
  OBVIOUS
<1>1. PICK i \in I : x = Key(order[i])
  BY DEF KeysOf
<1>2. i \in (1 .. n) \ J
  OBVIOUS
<1> QED
  BY <1>1, <1>2, KeysAre

LEMMA NothingGiven ==
    ASSUME best' = [t \in Workers |-> {}], next' = 0, n' \in Nat, limit' \in Nat, \A t \in Workers : pc'[t] # "scan"
    PROVE  \E seen : WereGiven(seen)'
<1> DEFINE seen == [t \in Workers |-> {}]
<1>1. KeysOf({})' = {}
  BY DEF KeysOf
<1>2. Holds({}, {}, limit')
  BY FS_EmptySet DEF Holds
<1>3. seen \in [Workers -> SUBSET (1 .. n')] /\ best' \in [Workers -> SUBSET Keys]
  OBVIOUS
<1>4. \A t \in Workers : Holds(best[t], KeysOf(seen[t]), limit)' /\ \A i \in seen[t] : i <= next'
  BY <1>1, <1>2
<1>5. /\ \A t, u \in Workers : t # u => seen[t] \cap seen[u] = {}
      /\ \A t, u \in Workers : pc'[u] = "scan" => seen[t] \cap ChunkOf(u)' = {}
  OBVIOUS
<1>6. \A i \in 1 .. n' : ~(i <= next')
  OBVIOUS
<1>7. PICK s : s = seen
  OBVIOUS
<1> HIDE DEF seen
<1>8. WereGiven(s)'
  BY <1>3, <1>4, <1>5, <1>6, <1>7 DEF WereGiven
<1> QED
  BY <1>8

LEMMA AskCollects == ASSUME ExactInv, Ask PROVE Collecting' /\ TopIsExact' /\ CollectedOnce'
<1>1. /\ phase = "idle" /\ phase' = "find" /\ request' \in Requests /\ order' \in Orders
      /\ UNCHANGED <<pc, next, best, error>>
  BY DEF Ask
<1>2. NothingCollected /\ ThreadsOff
  BY <1>1 DEF ExactInv, Collecting
<1>3. n' \in Nat /\ limit' \in Nat
  BY <1>1, SearchAssumption DEF n, limit
<1>4. best' = [t \in Workers |-> {}] /\ next' = 0 /\ \A t \in Workers : pc'[t] = "off"
  BY <1>1, <1>2 DEF NothingCollected, ThreadsOff
<1>5. \E seen : WereGiven(seen)'
  BY <1>3, <1>4, NothingGiven
<1>6. Asked' /\ AllClaimed'
  BY <1>1, <1>4 DEF Asked, Searching, AllClaimed
<1>7. Collecting'
  BY <1>1, <1>5, <1>6 DEF Collecting
<1> QED
  BY <1>1, <1>4, <1>7 DEF TopIsExact, CollectedOnce

(* The first of what is sought is what is found, or what is suggested.     *)
LEMMA ReturnCollects ==
    ASSUME ExactInv, Searching, ~error, Return(First(Sought, limit)), UNCHANGED <<request, order, error>>
    PROVE  Collecting' /\ TopIsExact' /\ CollectedOnce'
<1>1. /\ pc' = [t \in Workers |-> "off"] /\ next' = 0 /\ best' = [t \in Workers |-> {}]
      /\ request' = request /\ order' = order /\ error' = error
  BY DEF Return, Idle
<1>2. Asked /\ (phase = "suggest" => found = <<>> /\ First(HitKeys, request.limit) = <<>>)
  BY DEF ExactInv, Collecting
<1>3. HitKeys' = HitKeys /\ NearKeys' = NearKeys /\ n' = n
  BY <1>1 DEF HitKeys, NearKeys, Hit, n
<1>4. n \in Nat /\ request.limit \in Nat /\ phase \in {"find", "suggest"}
  BY <1>2, AskedIs
<1>5. limit' \in Nat
  BY <1>1, <1>4 DEF limit, AtLeastOne
<1>6. \E seen : WereGiven(seen)'
  BY <1>1, <1>3, <1>4, <1>5, NothingGiven
<1>7. AllClaimed' /\ CollectedOnce'
  BY <1>1 DEF AllClaimed, CollectedOnce
<1>8. TopIsExact = (phase = "done" => /\ found = First(HitKeys, request.limit)
                                      /\ suggestions = IF found = <<>> THEN First(NearKeys, AtLeastOne(request.limit)) ELSE <<>>)
  BY DEF TopIsExact, HitKeys, NearKeys, Hit
<1>9. TopIsExact' = (phase' = "done" =>
                       /\ found' = First(HitKeys', request'.limit)
                       /\ suggestions' = IF found' = <<>> THEN First(NearKeys', AtLeastOne(request'.limit)) ELSE <<>>)
  BY DEF TopIsExact, HitKeys, NearKeys, Hit
<1>10. CASE phase = "find"
  <2>1. First(Sought, limit) = First(HitKeys, request.limit)
    BY <1>10 DEF Sought, limit
  <2>2. /\ found' = First(HitKeys, request.limit) /\ suggestions' = <<>>
        /\ phase' = IF First(HitKeys, request.limit) = <<>> THEN "suggest" ELSE "done"
    BY <1>10, <2>1 DEF Return
  <2>3. TopIsExact'
    BY <1>1, <1>3, <1>9, <2>2
  <2>4. phase' \in {"suggest", "done"} /\ (phase' = "suggest" => found' = <<>> /\ First(HitKeys', request'.limit) = <<>>)
    BY <1>1, <1>3, <2>2
  <2>5. Asked' \/ phase' = "done"
    BY <1>1, <1>2, <2>4 DEF Asked, Searching
  <2>6. Collecting'
    BY <1>6, <1>7, <2>4, <2>5 DEF Collecting, Searching
  <2> QED
    BY <1>7, <2>3, <2>6
<1>11. CASE phase = "suggest"
  <2>1. First(Sought, limit) = First(NearKeys, AtLeastOne(request.limit))
    BY <1>11 DEF Sought, limit
  <2>2. found' = found /\ suggestions' = First(NearKeys, AtLeastOne(request.limit)) /\ phase' = "done"
    BY <1>11, <2>1 DEF Return
  <2>3. TopIsExact'
    BY <1>1, <1>2, <1>3, <1>9, <1>11, <2>2
  <2>4. Collecting'
    BY <2>2 DEF Collecting, Searching
  <2> QED
    BY <1>7, <2>3, <2>4
<1> QED
  BY <1>4, <1>10, <1>11

LEMMA NoKeys == KeysOf({}) = {}
BY DEF KeysOf

LEMMA AnswerCollects == ASSUME ExactInv, SearchInline \/ Merge PROVE Collecting' /\ TopIsExact' /\ CollectedOnce'
<1>1. Searching /\ Asked /\ SearchInv
  BY DEF ExactInv, Collecting, SearchInline, Merge, Quiet
<1>2. CASE SearchInline
  <2> DEFINE c == IF limit = 0 THEN {} ELSE Scan({}, 0, n)
  <2>1. ~error
    BY <1>1, <1>2 DEF SearchInv, Failing, SearchInline, Quiet
  <2>2. n \in Nat /\ limit \in Nat
    BY <1>1, AskedIs
  <2>3. Holds({}, {}, limit)
    BY <2>2, FS_EmptySet DEF Holds
  <2>4. Holds(Scan({}, 0, n), KeysOf(1 .. n), limit)
    <3>1. /\ 0 <= n /\ n <= n /\ {} \in SUBSET (1 .. n) /\ {} \cap (0 + 1 .. n) = {}
          /\ {} \cup (0 + 1 .. n) = 1 .. n /\ 0 \in Nat
      BY <2>2
    <3>2. Holds(Scan({}, 0, n), KeysOf({} \cup (0 + 1 .. n)), limit)
      BY <1>1, <2>2, <2>3, <3>1, NoKeys, ScanHolds
    <3> QED
      BY <3>1, <3>2
  <2>5. limit = 0 => Holds({}, KeysOf(1 .. n), limit)
    BY FS_EmptySet DEF Holds
  <2>6. Holds(c, KeysOf(1 .. n), limit)
    BY <2>4, <2>5
  <2>7. Return(Top(c)) /\ UNCHANGED <<request, order, error>>
    BY <1>2 DEF SearchInline
  <2> HIDE DEF c
  <2>8. Top(c) = First(Sought, limit)
    BY <1>1, <2>6, HeldTop
  <2> QED
    BY <1>1, <2>1, <2>7, <2>8, ReturnCollects
<1>3. CASE Merge
  <2>1. /\ Joined /\ ~error /\ UNCHANGED <<request, order, error>>
        /\ Return(Top(UNION {best[t] : t \in Workers}))
    BY <1>3 DEF Merge
  <2>2. AllClaimed /\ \E seen : WereGiven(seen)
    BY <1>1 DEF ExactInv, Collecting
  <2>3. PICK seen : WereGiven(seen)
    BY <2>2
  <2>4. Top(UNION {best[t] : t \in Workers}) = First(Sought, limit)
    BY <1>1, <2>1, <2>2, <2>3, MergedTop
  <2> QED
    BY <1>1, <2>1, <2>4, ReturnCollects
<1> QED
  BY <1>2, <1>3

LEMMA FailCollects == ASSUME ExactInv, InlineThrows \/ Rethrow PROVE Collecting' /\ TopIsExact' /\ CollectedOnce'
<1>1. phase' = "failed" /\ best' = best
  BY DEF InlineThrows, Rethrow
<1> QED
  BY <1>1 DEF ExactInv, Collecting, Searching, TopIsExact, CollectedOnce

(* The steps of the threads: what is asked and answered stays.             *)
Working == Searching /\ UNCHANGED <<request, order, phase, found, suggestions>>

LEMMA WorkingIs ==
    ASSUME ExactInv, Working
    PROVE  Asked /\ Asked' /\ n' = n /\ limit' = limit /\ \A I : KeysOf(I)' = KeysOf(I)
<1>1. Asked /\ UNCHANGED <<request, order, phase>>
  BY DEF ExactInv, Collecting, Working
<1>2. Asked' /\ n' = n /\ limit' = limit
  BY <1>1 DEF Asked, Searching, n, limit, AtLeastOne
<1>3. \A I : KeysOf(I)' = KeysOf(I)
  BY <1>1 DEF KeysOf, Wanted, Key, Hit
<1> QED
  BY <1>1, <1>2, <1>3

LEMMA WorkingCollects ==
    ASSUME ExactInv, Working, AllClaimed', \E seen : WereGiven(seen)', CollectedOnce'
    PROVE  Collecting' /\ TopIsExact' /\ CollectedOnce'
<1>1. Asked' /\ UNCHANGED <<request, order, phase, found, suggestions>> /\ Searching
  BY WorkingIs DEF Working
<1>2. phase' # "idle" /\ phase' # "done"
  BY <1>1 DEF Searching
<1>3. HitKeys' = HitKeys
  BY <1>1 DEF HitKeys, Hit
<1>4. phase' = "suggest" => found' = <<>> /\ First(HitKeys', request'.limit) = <<>>
  BY <1>1, <1>3 DEF ExactInv, Collecting
<1>5. Collecting'
  BY <1>1, <1>2, <1>4 DEF Collecting
<1> QED
  BY <1>2, <1>5 DEF TopIsExact

LEMMA StartCollects ==
    ASSUME ExactInv, StartPool \/ StartThread \/ ThreadFailsToStart
    PROVE  Collecting' /\ TopIsExact' /\ CollectedOnce'
<1>1. Working /\ UNCHANGED <<next, begin, best, error>>
  BY DEF StartPool, StartThread, ThreadFailsToStart, Quiet, Working
<1>2. SearchTypes /\ Running
  BY DEF ExactInv, SearchInv
<1>3. \A t \in Workers : (pc'[t] = "scan" <=> pc[t] = "scan") /\ (pc'[t] = "joined" => pc[t] = "joined")
  <2>1. CASE StartPool
    BY <2>1 DEF StartPool
  <2>2. ASSUME NEW k \in {0, starting}, pc' = [pc EXCEPT ![k] = "ready"], starting > 0
        PROVE  \A t \in Workers : (pc'[t] = "scan" <=> pc[t] = "scan") /\ (pc'[t] = "joined" => pc[t] = "joined")
    <3>1. k \in Workers => pc[k] = "off"
      BY <1>2, <2>2 DEF Running, SearchTypes
    <3> QED
      BY <1>2, <2>2, <3>1 DEF SearchTypes
  <2> QED
    BY <2>1, <2>2 DEF StartThread, ThreadFailsToStart
<1>4. Asked' /\ n' = n /\ limit' = limit /\ \A I : KeysOf(I)' = KeysOf(I)
  BY <1>1, WorkingIs
<1>5. AllClaimed /\ (\E seen : WereGiven(seen)) /\ CollectedOnce
  BY <1>1 DEF ExactInv, Collecting, Working
<1>6. AllClaimed'
  BY <1>1, <1>3, <1>4, <1>5 DEF AllClaimed
<1>7. CollectedOnce'
  BY <1>1, <1>5 DEF CollectedOnce
<1>8. PICK seen : WereGiven(seen)
  BY <1>5
<1>9. \A t \in Workers : ChunkOf(t)' = ChunkOf(t)
  BY <1>1, <1>4 DEF ChunkOf
<1>10. WereGiven(seen)'
  BY <1>1, <1>3, <1>4, <1>8, <1>9 DEF WereGiven
<1> QED
  BY <1>1, <1>6, <1>7, <1>10, WorkingCollects

LEMMA ClaimCollects ==
    ASSUME ExactInv, SearchInv', NEW t \in Workers, Claim(t)
    PROVE  Collecting' /\ TopIsExact' /\ CollectedOnce'
<1>1. /\ pc[t] = "ready" /\ next' = next + Chunk /\ begin' = [begin EXCEPT ![t] = next]
      /\ pc' = [pc EXCEPT ![t] = IF next >= n THEN "joined" ELSE "scan"]
      /\ UNCHANGED <<request, order, phase, best, error, found, suggestions>>
  BY DEF Claim
<1>2. SearchTypes /\ Running /\ SearchInv
  BY DEF ExactInv, SearchInv
<1>3. Working
  BY <1>1, <1>2 DEF Working, Running
<1>4. Asked' /\ n' = n /\ limit' = limit /\ \A I : KeysOf(I)' = KeysOf(I)
  BY <1>3, WorkingIs
<1>5. AllClaimed /\ (\E seen : WereGiven(seen)) /\ CollectedOnce
  BY <1>3 DEF ExactInv, Collecting, Working
<1>6. n \in Nat /\ next \in Nat /\ Chunk \in Nat \ {0} /\ pc \in [Workers -> Steps] /\ begin \in [Workers -> Nat]
  BY <1>2, SearchConstants DEF SearchTypes
<1>7. pc'[t] = IF next >= n THEN "joined" ELSE "scan"
  BY <1>1, <1>6
<1>8. \A u \in Workers \ {t} : pc'[u] = pc[u] /\ ChunkOf(u)' = ChunkOf(u)
  BY <1>1, <1>4, <1>6 DEF ChunkOf
<1>9. AllClaimed'
  <2> SUFFICES ASSUME ~error', NEW u \in Workers, pc'[u] = "joined" PROVE n <= next + Chunk
    BY <1>1, <1>4 DEF AllClaimed
  <2>1. n <= next
    <3>1. CASE u = t
      BY <1>6, <1>7, <3>1
    <3>2. CASE u # t
      BY <1>1, <1>5, <1>8, <3>2 DEF AllClaimed
    <3> QED
      BY <3>1, <3>2
  <2> QED
    BY <1>6, <2>1
<1>10. CollectedOnce'
  BY <1>1, <1>5 DEF CollectedOnce
<1>11. PICK seen : WereGiven(seen)
  BY <1>5
<1> DEFINE e == Min({n, next + Chunk})
<1>12. next < n => e \in Nat /\ e <= n /\ (e = n \/ e = next + Chunk) /\ ChunkOf(t)' = next + 1 .. e
  <2>1. e = IF n <= next + Chunk THEN n ELSE next + Chunk
    BY <1>6, LesserIs
  <2>2. begin'[t] = next
    BY <1>1, <1>6
  <2>3. ChunkOf(t)' = next + 1 .. e
    BY <1>4, <2>2 DEF ChunkOf
  <2> HIDE DEF e
  <2> QED
    BY <1>6, <2>1, <2>3
<1> HIDE DEF e
<1>13. \A u \in Workers : seen[u] \in SUBSET (1 .. n) /\ \A i \in seen[u] : i <= next /\ i \in Nat
  BY <1>6, <1>11 DEF WereGiven
<1>14. ASSUME NEW u \in Workers, NEW v \in Workers, pc'[v] = "scan"
       PROVE  seen[u] \cap ChunkOf(v)' = {}
  <2>1. CASE v = t
    <3>1. ChunkOf(v)' = next + 1 .. e /\ e \in Nat
      BY <1>6, <1>7, <1>12, <1>14, <2>1
    <3> QED
      BY <1>6, <1>13, <3>1
  <2>2. CASE v # t
    BY <1>8, <1>11, <1>14, <2>2 DEF WereGiven
  <2> QED
    BY <2>1, <2>2
<1>15. ASSUME ~error, NEW i \in 1 .. n, i <= next + Chunk
       PROVE  \E u \in Workers : i \in seen[u] \/ (pc'[u] = "scan" /\ i \in ChunkOf(u)')
  <2>1. CASE i <= next
    <3>1. PICK u \in Workers : i \in seen[u] \/ (pc[u] = "scan" /\ i \in ChunkOf(u))
      BY <1>11, <1>15, <2>1 DEF WereGiven
    <3>2. pc[u] = "scan" => u # t
      BY <1>1
    <3> QED
      BY <1>8, <3>1, <3>2
  <2>2. CASE ~(i <= next)
    <3>1. next < n /\ i \in next + 1 .. e
      BY <1>6, <1>12, <1>15, <2>2
    <3> QED
      BY <1>6, <1>7, <1>12, <3>1
  <2> QED
    BY <2>1, <2>2
<1>16. \A u \in Workers : Holds(best'[u], KeysOf(seen[u])', limit') /\ \A i \in seen[u] : i <= next'
  <2>1. \A u \in Workers : Holds(best'[u], KeysOf(seen[u])', limit')
    BY <1>1, <1>4, <1>11 DEF WereGiven
  <2>2. \A u \in Workers : \A i \in seen[u] : i <= next + Chunk
    BY <1>6, <1>13
  <2> QED
    BY <1>1, <2>1, <2>2
<1>17. /\ seen \in [Workers -> SUBSET (1 .. n)] /\ best \in [Workers -> SUBSET Keys]
       /\ \A u, v \in Workers : u # v => seen[u] \cap seen[v] = {}
  BY <1>11 DEF WereGiven
<1>18. WereGiven(seen)'
  BY <1>1, <1>4, <1>14, <1>15, <1>16, <1>17 DEF WereGiven
<1> QED
  BY <1>3, <1>9, <1>10, <1>18, WorkingCollects

LEMMA ScanCollects ==
    ASSUME ExactInv, NEW t \in Workers, ScanChunk(t)
    PROVE  Collecting' /\ TopIsExact' /\ CollectedOnce'
<1> DEFINE e == Min({n, begin[t] + Chunk})
           new == Scan(best[t], begin[t], e)
<1>1. /\ pc[t] = "scan" /\ pc' = [pc EXCEPT ![t] = "ready"]
      /\ best' = [best EXCEPT ![t] = new]
      /\ UNCHANGED <<request, order, phase, next, begin, error, found, suggestions>>
  BY DEF ScanChunk
<1>2. SearchTypes /\ Running /\ SearchInv
  BY DEF ExactInv, SearchInv
<1>3. Working
  BY <1>1, <1>2 DEF Working, Running
<1>4. Asked /\ Asked' /\ n' = n /\ limit' = limit /\ \A I : KeysOf(I)' = KeysOf(I)
  BY <1>3, WorkingIs
<1>5. AllClaimed /\ \E seen : WereGiven(seen)
  BY <1>3 DEF ExactInv, Collecting, Working
<1>6. PICK seen : WereGiven(seen)
  BY <1>5
<1>7. /\ seen \in [Workers -> SUBSET (1 .. n)] /\ best \in [Workers -> SUBSET Keys]
      /\ \A u \in Workers : Holds(best[u], KeysOf(seen[u]), limit) /\ \A i \in seen[u] : i <= next
      /\ \A u, v \in Workers : u # v => seen[u] \cap seen[v] = {}
      /\ \A u, v \in Workers : pc[v] = "scan" => seen[u] \cap ChunkOf(v) = {}
      /\ ~error => \A i \in 1 .. n : i <= next =>
           \E u \in Workers : i \in seen[u] \/ (pc[u] = "scan" /\ i \in ChunkOf(u))
  BY <1>6 DEF WereGiven
<1> DEFINE more == ChunkOf(t)
<1>8. PICK now : now = [seen EXCEPT ![t] = seen[t] \cup more]
  OBVIOUS
<1>9. more \in SUBSET (1 .. n) /\ seen[t] \cap more = {} /\ seen[t] \in SUBSET (1 .. n)
  BY <1>1, <1>2, <1>7, ChunkIs
<1>10. Holds(new, KeysOf(seen[t] \cup more), limit)
  <2>1. begin[t] \in Nat /\ e \in Nat /\ begin[t] <= e /\ e <= n
    BY <1>1, <1>2, ChunkIs
  <2>2. Holds(best[t], KeysOf(seen[t]), limit)
    BY <1>7
  <2>3. more = begin[t] + 1 .. e
    BY DEF ChunkOf
  <2> HIDE DEF e, more
  <2>4. Holds(Scan(best[t], begin[t], e), KeysOf(seen[t] \cup (begin[t] + 1 .. e)), limit)
    BY <1>4, <1>9, <2>1, <2>2, <2>3, ScanHolds
  <2> QED
    BY <2>3, <2>4
<1>11. now \in [Workers -> SUBSET (1 .. n)] /\ now[t] = seen[t] \cup more /\ \A u \in Workers \ {t} : now[u] = seen[u]
  <2> HIDE DEF more
  <2> QED
    BY <1>7, <1>8, <1>9
<1>12. best'[t] = new /\ \A u \in Workers \ {t} : best'[u] = best[u]
  <2> HIDE DEF new
  <2> QED
    BY <1>1, <1>7
<1>13. pc'[t] = "ready" /\ \A u \in Workers \ {t} : pc'[u] = pc[u]
  BY <1>1, <1>2 DEF SearchTypes
<1>14. \A u \in Workers : ChunkOf(u)' = ChunkOf(u)
  BY <1>1, <1>4 DEF ChunkOf
<1> HIDE DEF new, e
<1>15. \A u \in Workers : Holds(best'[u], KeysOf(now[u]), limit)
  <2> HIDE DEF more
  <2> QED
    BY <1>7, <1>10, <1>11, <1>12
<1>16. \A u \in Workers : \A i \in now[u] : next < n => i <= next
  <2>1. \A i \in more : next < n => i <= next
    BY <1>1, <1>2, ChunkIs
  <2> HIDE DEF more
  <2> QED
    BY <1>7, <1>11, <2>1
<1>17. n \in Nat /\ next \in Nat
  BY <1>2 DEF SearchTypes
<1>18. \A u \in Workers : \A i \in now[u] : i <= next
  <2> SUFFICES ASSUME NEW u \in Workers, NEW i \in now[u] PROVE i <= next
    OBVIOUS
  <2>1. i \in Nat /\ i <= n
    BY <1>11, <1>17
  <2>2. CASE next < n
    BY <1>16, <2>2
  <2>3. CASE ~(next < n)
    BY <1>17, <2>1, <2>3
  <2> QED
    BY <2>2, <2>3
<1>19. \A u, v \in Workers : u # v => now[u] \cap now[v] = {}
  <2>1. \A u \in Workers : seen[u] \cap more = {}
    BY <1>1, <1>7
  <2> HIDE DEF more
  <2> QED
    BY <1>7, <1>11, <2>1
<1>20. \A u, v \in Workers : pc'[v] = "scan" => now[u] \cap ChunkOf(v)' = {}
  <2> SUFFICES ASSUME NEW u \in Workers, NEW v \in Workers, pc'[v] = "scan"
               PROVE  now[u] \cap ChunkOf(v) = {}
    BY <1>14
  <2>1. v # t /\ pc[v] = "scan"
    BY <1>13
  <2>2. seen[u] \cap ChunkOf(v) = {}
    BY <1>7, <2>1
  <2>3. more \cap ChunkOf(v) = {}
    BY <1>1, <1>2, <2>1, ChunksApart
  <2> HIDE DEF more
  <2> QED
    BY <1>11, <2>2, <2>3
<1>21. ~error => \A i \in 1 .. n : i <= next =>
         \E u \in Workers : i \in now[u] \/ (pc'[u] = "scan" /\ i \in ChunkOf(u)')
  <2> SUFFICES ASSUME ~error, NEW i \in 1 .. n, i <= next
               PROVE  \E u \in Workers : i \in now[u] \/ (pc'[u] = "scan" /\ i \in ChunkOf(u))
    BY <1>14
  <2>1. PICK u \in Workers : i \in seen[u] \/ (pc[u] = "scan" /\ i \in ChunkOf(u))
    BY <1>7
  <2>2. CASE u = t
    BY <1>11, <2>1, <2>2
  <2>3. CASE u # t
    BY <1>11, <1>13, <2>1, <2>3
  <2> QED
    BY <2>2, <2>3
<1> HIDE DEF more
<1>22. \A u \in Workers : best'[u] \in SUBSET Keys
  <2>1. \A u \in Workers : KeysOf(now[u]) \in SUBSET Keys
    BY <1>4, <1>11, KeysAre
  <2> QED
    BY <1>15, <2>1 DEF Holds
<1>23. best' \in [Workers -> SUBSET Keys]
  BY <1>1, <1>7, <1>12, <1>22
<1>24. \A u \in Workers : Holds(best'[u], KeysOf(now[u])', limit')
  BY <1>4, <1>15
<1>25. WereGiven(now)'
  BY <1>1, <1>4, <1>11, <1>18, <1>19, <1>20, <1>21, <1>23, <1>24 DEF WereGiven
<1>26. CollectedOnce'
  <2> SUFFICES ASSUME NEW u \in Workers, NEW v \in Workers, u # v PROVE best'[u] \cap best'[v] = {}
    BY DEF CollectedOnce
  <2>1. KeysOf(now[u]) \cap KeysOf(now[v]) = {}
    BY <1>4, <1>11, <1>19, KeysApart
  <2>2. best'[u] \subseteq KeysOf(now[u]) /\ best'[v] \subseteq KeysOf(now[v])
    BY <1>15 DEF Holds
  <2> QED
    BY <2>1, <2>2
<1>27. AllClaimed'
  BY <1>1, <1>4, <1>5, <1>13 DEF AllClaimed
<1> QED
  BY <1>3, <1>25, <1>26, <1>27, WorkingCollects

LEMMA ThrowCollects ==
    ASSUME ExactInv, NEW t \in Workers, ScanThrows(t)
    PROVE  Collecting' /\ TopIsExact' /\ CollectedOnce'
<1>1. /\ pc[t] = "scan" /\ pc' = [pc EXCEPT ![t] = "joined"] /\ error' = TRUE /\ next' = n
      /\ UNCHANGED <<request, order, phase, begin, best, found, suggestions>>
  BY DEF ScanThrows
<1>2. SearchTypes /\ Running
  BY DEF ExactInv, SearchInv
<1>3. Working
  BY <1>1, <1>2 DEF Working, Running
<1>4. Asked /\ Asked' /\ n' = n /\ limit' = limit /\ \A I : KeysOf(I)' = KeysOf(I)
  BY <1>3, WorkingIs
<1>5. (\E seen : WereGiven(seen)) /\ CollectedOnce
  BY <1>3 DEF ExactInv, Collecting, Working
<1>6. PICK seen : WereGiven(seen)
  BY <1>5
<1>7. \A u \in Workers : seen[u] \in SUBSET (1 .. n) /\ \A i \in seen[u] : i <= n
  BY <1>2, <1>6 DEF WereGiven, SearchTypes
<1>8. \A u \in Workers : (pc'[u] = "scan" => pc[u] = "scan") /\ ChunkOf(u)' = ChunkOf(u)
  BY <1>1, <1>2, <1>4 DEF SearchTypes, ChunkOf
<1>9. WereGiven(seen)'
  BY <1>1, <1>4, <1>6, <1>7, <1>8 DEF WereGiven
<1>10. AllClaimed' /\ CollectedOnce'
  BY <1>1, <1>5 DEF AllClaimed, CollectedOnce
<1> QED
  BY <1>3, <1>9, <1>10, WorkingCollects

LEMMA ExactStep == ExactInv /\ [SearchNext]_searchVars => ExactInv'
<1> SUFFICES ASSUME ExactInv, [SearchNext]_searchVars PROVE ExactInv'
  OBVIOUS
<1>1. SearchInv'
  BY SearchStepKeeps DEF ExactInv
<1>2. CASE UNCHANGED searchVars
  <2>1. /\ n' = n /\ limit' = limit /\ (\A I : KeysOf(I)' = KeysOf(I)) /\ \A t : ChunkOf(t)' = ChunkOf(t)
    BY <1>2 DEF searchVars, n, limit, AtLeastOne, KeysOf, Wanted, Key, Hit, ChunkOf
  <2>2. \A seen : WereGiven(seen)' = WereGiven(seen)
    BY <1>2, <2>1 DEF searchVars, WereGiven
  <2>3. HitKeys' = HitKeys
    BY <1>2 DEF searchVars, HitKeys, Hit
  <2>4. (\E seen : WereGiven(seen)) => \E seen : WereGiven(seen)'
    BY <2>2
  <2>5. Collecting'
    BY <1>2, <2>1, <2>3, <2>4
       DEF ExactInv, Collecting, searchVars, NothingCollected, ThreadsOff, Searching, Asked, AllClaimed
  <2>6. TopIsExact' /\ CollectedOnce'
    BY <1>2 DEF ExactInv, searchVars, TopIsExact, CollectedOnce
  <2> QED
    BY <1>1, <2>5, <2>6 DEF ExactInv
<1>3. CASE SearchNext
  <2>1. Collecting' /\ TopIsExact' /\ CollectedOnce'
    BY <1>1, <1>3, AskCollects, AnswerCollects, FailCollects, StartCollects, ClaimCollects, ScanCollects, ThrowCollects
       DEF SearchNext, SearchStep, SearchFault
  <2> QED
    BY <1>1, <2>1 DEF ExactInv
<1> QED
  BY <1>2, <1>3

(* Every answer of a search is the one that sorting all the names would    *)
(* give: with the threads of ParallelTopK, the bounded collectors, the     *)
(* required run of a pattern and the bounded distance.  No name is         *)
(* collected twice, and a scan that throws leaves no answer.               *)
THEOREM SearchesAreExact == SearchSpec => []SearchExact
<1>1. SearchInit => ExactInv
  <2> SUFFICES ASSUME SearchInit PROVE ExactInv
    OBVIOUS
  <2>1. n = 0
    BY DEF SearchInit, n
  <2>2. SearchInv
    BY <2>1 DEF SearchInit, SearchInv, SearchTypes, Steps, Running, Failing, Claimed, ChunksDisjoint, Searching
  <2>3. Collecting
    BY DEF SearchInit, Collecting, Searching, NothingCollected, ThreadsOff
  <2>4. TopIsExact /\ CollectedOnce
    BY DEF SearchInit, TopIsExact, CollectedOnce
  <2> QED
    BY <2>2, <2>3, <2>4 DEF ExactInv
<1>2. ExactInv /\ NothingPartial => SearchExact
  BY DEF ExactInv, SearchExact
<1> QED
  BY <1>1, <1>2, ExactStep, NothingPartialIsAnswered, PTL DEF SearchSpec

---------------------------------------------------------------------------
(* The hierarchy: paths and their order.                                   *)

Paths == Seq(Nat) \ {<<>>}

(* p is the path q, or of a scope around it.                               *)
Around(p, q) == Len(p) <= Len(q) /\ \A i \in 1 .. Len(p) : p[i] = q[i]

LEMMA PathsEqual ==
    ASSUME NEW p \in Paths, NEW q \in Paths, Len(p) = Len(q), \A i \in 1 .. Len(p) : p[i] = q[i]
    PROVE  p = q
<1>1. p \in Seq(Nat) /\ q \in Seq(Nat)
  BY DEF Paths
<1>2. p = [i \in 1 .. Len(p) |-> p[i]] /\ q = [i \in 1 .. Len(q) |-> q[i]]
  BY <1>1
<1> QED
  BY <1>2

LEMMA CutPath ==
    ASSUME NEW p \in Paths, NEW k \in 1 .. Len(p)
    PROVE  /\ SubSeq(p, 1, k) \in Paths /\ Len(SubSeq(p, 1, k)) = k
           /\ \A i \in 1 .. k : SubSeq(p, 1, k)[i] = p[i]
           /\ Around(SubSeq(p, 1, k), p)
<1>1. /\ SubSeq(p, 1, k) \in Seq(Nat) /\ Len(SubSeq(p, 1, k)) = k
      /\ \A i \in 1 .. k : SubSeq(p, 1, k)[i] = p[i]
  BY DEF Paths
<1> QED
  BY <1>1 DEF Paths, Around

LEMMA AroundIsCut ==
    ASSUME NEW p \in Paths, NEW q \in Paths, Around(p, q)
    PROVE  Len(p) \in 1 .. Len(q) /\ SubSeq(q, 1, Len(p)) = p
<1>1. Len(p) \in 1 .. Len(q)
  BY DEF Around, Paths
<1>2. SubSeq(q, 1, Len(p)) \in Paths /\ Len(SubSeq(q, 1, Len(p))) = Len(p)
      /\ \A i \in 1 .. Len(p) : SubSeq(q, 1, Len(p))[i] = q[i]
  BY <1>1, CutPath
<1> QED
  BY <1>1, <1>2, PathsEqual DEF Around

(* A path with a parent, and its parent.                                   *)
LEMMA ParentIs ==
    ASSUME NEW q \in Paths, HasParent(q)
    PROVE  /\ ParentPath(q) \in Paths /\ Len(ParentPath(q)) = Len(q) - 1
           /\ ParentPath(q) = SubSeq(q, 1, Len(q) - 1) /\ Around(ParentPath(q), q)
           /\ \A i \in 1 .. Len(q) - 1 : ParentPath(q)[i] = q[i]
<1>1. Len(q) - 1 \in 1 .. Len(q)
  BY DEF HasParent, Paths
<1> QED
  BY <1>1, CutPath DEF ParentPath, Front

-----------------------------------------------------------------------------
(* The order.                                                              *)

LEMMA OrderIrreflexive ==
    ASSUME NEW p \in Paths
    PROVE  ~InOrder(p, p)
BY LexIrreflexive DEF InOrder, Paths

LEMMA OrderTransitive ==
    ASSUME NEW p \in Paths, NEW q \in Paths, NEW r \in Paths, InOrder(p, q), InOrder(q, r)
    PROVE  InOrder(p, r)
BY LexTransitive DEF InOrder, Paths

LEMMA OrderTotal ==
    ASSUME NEW p \in Paths, NEW q \in Paths, p # q
    PROVE  InOrder(p, q) \/ InOrder(q, p)
BY LexTotal DEF InOrder, Paths

(* A path comes after the paths around it ...                              *)
LEMMA ParentFirst ==
    ASSUME NEW q \in Paths, HasParent(q)
    PROVE  InOrder(ParentPath(q), q)
<1>1. Len(q) \in 1 .. Len(q) /\ Len(ParentPath(q)) = Len(q) - 1 /\ Len(q) \in Nat
  BY ParentIs DEF Paths
<1>2. \A j \in 1 .. Len(q) - 1 : j <= Len(ParentPath(q)) /\ ParentPath(q)[j] = q[j]
  BY <1>1, ParentIs
<1> QED
  BY <1>1, <1>2 DEF InOrder, Lexicographic

(* ... and is before what they are before, unless that is deeper.          *)
LEMMA ChildBefore ==
    ASSUME NEW q \in Paths, HasParent(q), NEW r \in Paths, InOrder(ParentPath(q), r),
           Len(r) < Len(q)
    PROVE  InOrder(q, r)
<1> DEFINE p == ParentPath(q)
<1>1. PICK k \in 1 .. Len(r) : /\ \A j \in 1 .. k - 1 : j <= Len(p) /\ p[j] = r[j]
                               /\ Len(p) < k \/ p[k] < r[k]
  BY DEF InOrder, Lexicographic
<1>2. Len(q) \in Nat /\ Len(r) \in Nat /\ Len(p) = Len(q) - 1 /\ \A i \in 1 .. Len(q) - 1 : p[i] = q[i]
  BY SMTT(30), ParentIs DEF Paths
<1> HIDE DEF p
<1>3. k <= Len(p) /\ k \in 1 .. Len(q) - 1
  BY <1>1, <1>2
<1>4. q[k] < r[k]
  BY <1>1, <1>2, <1>3
<1>5. \A j \in 1 .. k - 1 : j <= Len(q) /\ q[j] = r[j]
  BY <1>1, <1>2, <1>3
<1> QED
  BY <1>1, <1>4, <1>5 DEF InOrder, Lexicographic

(* s has the paths of S, each once and in their order.                     *)
IsInTurn(s, S) ==
    /\ s \in Seq(S) /\ S \subseteq ToSet(s)
    /\ \A i, j \in DOMAIN s : i < j => InOrder(s[i], s[j])

LEMMA PathsInOrder ==
    ASSUME NEW S \in SUBSET Paths
    PROVE  TotalOn({x \in S \X S : InOrder(x[1], x[2])}, S)
BY OrderIrreflexive, OrderTransitive, OrderTotal DEF TotalOn

LEMMA PathsSorted ==
    ASSUME NEW S \in SUBSET Paths, IsFiniteSet(S)
    PROVE  IsInTurn(Sorted(S), S) /\ ToSet(Sorted(S)) = S
<1> DEFINE before == {x \in S \X S : InOrder(x[1], x[2])}
<1>1. IsListed(InTurn(S, before), S, before) /\ ToSet(InTurn(S, before)) = S
  BY PathsInOrder, InTurnLists
<1>2. IsListed(Sorted(S), S, before) /\ ToSet(Sorted(S)) = S
  BY <1>1 DEF Sorted
<1>3. \A x, y : <<x, y>> \in before => InOrder(x, y)
  OBVIOUS
<1> QED
  BY <1>2, <1>3 DEF IsListed, IsInTurn

(* What is below a path.                                                   *)
LEMMA ChildrenAre ==
    ASSUME NEW h \in SUBSET Paths, IsFiniteSet(h), NEW p \in Paths
    PROVE  /\ Children(h, p) \in Seq(h)
           /\ ToSet(Children(h, p)) = {q \in h : HasParent(q) /\ ParentPath(q) = p}
           /\ \A i, j \in DOMAIN Children(h, p) :
                i < j => InOrder(Children(h, p)[i], Children(h, p)[j])
<1> DEFINE S == {q \in h : HasParent(q) /\ ParentPath(q) = p}
<1>1. S \in SUBSET Paths /\ IsFiniteSet(S) /\ S \subseteq h
  BY FS_Subset
<1>2. IsInTurn(Sorted(S), S) /\ ToSet(Sorted(S)) = S
  BY <1>1, PathsSorted
<1>3. Sorted(S) \in Seq(h)
  BY <1>1, <1>2 DEF IsInTurn
<1> QED
  BY <1>2, <1>3 DEF IsInTurn, Children

LEMMA RootsAre ==
    ASSUME NEW h \in SUBSET Paths, IsFiniteSet(h)
    PROVE  ToSet(HierRoots(h)) = {p \in h : ~HasParent(p) \/ ParentPath(p) \notin h}
<1>1. {p \in h : ~HasParent(p) \/ ParentPath(p) \notin h} \in SUBSET Paths
      /\ IsFiniteSet({p \in h : ~HasParent(p) \/ ParentPath(p) \notin h})
  BY FS_Subset
<1> QED
  BY <1>1, PathsSorted DEF HierRoots

LEMMA BelowItself ==
    ASSUME NEW h \in SUBSET Paths, NEW p \in h
    PROVE  p \in Below(h, p)
<1>1. p \in Paths /\ Around(p, p) /\ Len(p) \in 1 .. Len(p) /\ Len(p) \in Nat
  BY DEF Paths, Around
<1>2. SubSeq(p, 1, Len(p)) = p
  BY <1>1, AroundIsCut
<1>3. \A j \in Len(p) .. Len(p) : j = Len(p)
  BY <1>1
<1> QED
  BY <1>1, <1>2, <1>3 DEF Below

LEMMA BelowChild ==
    ASSUME NEW h \in SUBSET Paths, NEW r, NEW q \in h, HasParent(q), ParentPath(q) \in Below(h, r)
    PROVE  q \in Below(h, r)
<1> DEFINE p == ParentPath(q)
<1>1. PICK k \in 1 .. Len(p) : SubSeq(p, 1, k) = r /\ \A j \in k .. Len(p) : SubSeq(p, 1, j) \in h
  BY DEF Below
<1>2. q \in Paths /\ p \in Paths /\ Len(p) = Len(q) - 1 /\ Len(q) \in Nat /\ Len(p) \in Nat
  BY ParentIs DEF Paths
<1>3. ASSUME NEW j \in 1 .. Len(p)
      PROVE  SubSeq(q, 1, j) = SubSeq(p, 1, j)
  <2>1. j \in 1 .. Len(q)
    BY <1>2
  <2>2. \A i \in 1 .. j : i \in 1 .. Len(q) - 1
    BY <1>2
  <2>3. \A i \in 1 .. j : p[i] = q[i]
    BY <1>2, <2>2, ParentIs
  <2>4. /\ SubSeq(p, 1, j) \in Paths /\ Len(SubSeq(p, 1, j)) = j
        /\ \A i \in 1 .. j : SubSeq(p, 1, j)[i] = p[i]
    BY <1>2, CutPath
  <2>5. /\ SubSeq(q, 1, j) \in Paths /\ Len(SubSeq(q, 1, j)) = j
        /\ \A i \in 1 .. j : SubSeq(q, 1, j)[i] = q[i]
    BY <1>2, <2>1, CutPath
  <2> QED
    BY <2>3, <2>4, <2>5, PathsEqual
<1>4. SubSeq(q, 1, Len(q)) = q
  <2>1. Around(q, q)
    BY <1>2 DEF Around
  <2> QED
    BY <1>2, <2>1, AroundIsCut
<1> HIDE DEF p
<1>5. k \in 1 .. Len(q) /\ SubSeq(q, 1, k) = r
  BY <1>1, <1>2, <1>3
<1>6. ASSUME NEW j \in k .. Len(q)
      PROVE  SubSeq(q, 1, j) \in h
  <2>1. CASE j = Len(q)
    BY <1>4, <2>1
  <2>2. CASE j # Len(q)
    <3>1. j \in Nat /\ k \in Nat /\ k >= 1 /\ k <= j /\ j <= Len(q)
      BY <1>1, <1>2
    <3>2. j <= Len(p)
      BY <1>2, <2>2, <3>1
    <3>3. j \in 1 .. Len(p) /\ j \in k .. Len(p)
      BY <1>2, <3>1, <3>2
    <3> QED
      BY <1>1, <1>3, <3>3
  <2> QED
    BY <2>1, <2>2
<1> QED
  BY <1>5, <1>6 DEF Below

LEMMA CutCut ==
    ASSUME NEW p \in Paths, NEW k \in 1 .. Len(p), NEW j \in 1 .. k
    PROVE  SubSeq(SubSeq(p, 1, k), 1, j) = SubSeq(p, 1, j)
<1>1. j \in 1 .. Len(p) /\ \A i \in 1 .. j : i \in 1 .. k
  BY DEF Paths
<1>2. /\ SubSeq(p, 1, k) \in Paths /\ Len(SubSeq(p, 1, k)) = k
      /\ \A i \in 1 .. k : SubSeq(p, 1, k)[i] = p[i]
  BY CutPath
<1>3. /\ SubSeq(p, 1, j) \in Paths /\ Len(SubSeq(p, 1, j)) = j
      /\ \A i \in 1 .. j : SubSeq(p, 1, j)[i] = p[i]
  BY <1>1, CutPath
<1> DEFINE c == SubSeq(p, 1, k)
<1> HIDE DEF c
<1>4. /\ SubSeq(c, 1, j) \in Paths /\ Len(SubSeq(c, 1, j)) = j
      /\ \A i \in 1 .. j : SubSeq(c, 1, j)[i] = c[i]
  BY <1>2, CutPath DEF c
<1> QED
  BY <1>1, <1>2, <1>3, <1>4, PathsEqual DEF c

LEMMA CutParent ==
    ASSUME NEW p \in Paths, NEW k \in 1 .. Len(p)
    PROVE  /\ HasParent(SubSeq(p, 1, k)) <=> k > 1
           /\ k > 1 => ParentPath(SubSeq(p, 1, k)) = SubSeq(p, 1, k - 1)
<1>1. SubSeq(p, 1, k) \in Paths /\ Len(SubSeq(p, 1, k)) = k
  BY CutPath
<1>2. k > 1 => k - 1 \in 1 .. k
  OBVIOUS
<1> QED
  BY <1>1, <1>2, CutCut DEF HasParent, ParentPath, Front

LEMMA RootsCoverAll ==
    ASSUME hierarchy \in SUBSET Paths, IsFiniteSet(hierarchy)
    PROVE  RootsCover
<1> SUFFICES ASSUME NEW p \in hierarchy
             PROVE  Cardinality({r \in ToSet(HierRoots(hierarchy)) : p \in Below(hierarchy, r)}) = 1
  BY DEF RootsCover
<1> DEFINE K == {k \in 1 .. Len(p) : \A j \in k .. Len(p) : SubSeq(p, 1, j) \in hierarchy}
<1>1. p \in Paths /\ Len(p) \in Nat /\ Len(p) \in 1 .. Len(p)
  BY DEF Paths
<1>2. SubSeq(p, 1, Len(p)) = p
  BY <1>1, AroundIsCut DEF Around
<1>3. \A j \in Len(p) .. Len(p) : j = Len(p)
  BY <1>1
<1>4. Len(p) \in K
  BY <1>1, <1>2, <1>3
<1>5. PICK k \in K : \A j \in K : k <= j
  <2>1. K \in SUBSET Nat /\ K # {}
    BY <1>1, <1>4
  <2> HIDE DEF K
  <2> QED
    BY <2>1, LeastExists
<1>6. k \in 1 .. Len(p) /\ k \in k .. Len(p)
  BY <1>1, <1>5
<1> DEFINE r == SubSeq(p, 1, k)
<1>7. r \in hierarchy /\ p \in Below(hierarchy, r)
  BY <1>5, <1>6 DEF Below
<1>8. ~HasParent(r) \/ ParentPath(r) \notin hierarchy
  <2> SUFFICES ASSUME k > 1, SubSeq(p, 1, k - 1) \in hierarchy
               PROVE  FALSE
    BY <1>1, <1>6, CutParent
  <2>1. k - 1 \in 1 .. Len(p) /\ ~(k <= k - 1)
    BY <1>1, <1>6
  <2>2. ASSUME NEW j \in (k - 1) .. Len(p)
        PROVE  SubSeq(p, 1, j) \in hierarchy
    <3>1. j = k - 1 \/ j \in k .. Len(p)
      BY <1>1, <1>6
    <3> QED
      BY <1>5, <3>1
  <2>3. k - 1 \in K
    BY <2>1, <2>2
  <2> QED
    BY <1>5, <2>1, <2>3
<1>9. ASSUME NEW q \in hierarchy, ~HasParent(q) \/ ParentPath(q) \notin hierarchy,
             p \in Below(hierarchy, q)
      PROVE  q = r
  <2>1. PICK l \in 1 .. Len(p) : /\ SubSeq(p, 1, l) = q
                                 /\ \A j \in l .. Len(p) : SubSeq(p, 1, j) \in hierarchy
    BY <1>9 DEF Below
  <2>2. k <= l
    BY <1>5, <2>1
  <2>3. CASE l = k
    BY <2>1, <2>3
  <2>4. CASE l # k
    <3>1. l > 1 /\ l - 1 \in k .. Len(p)
      BY <1>1, <1>6, <2>1, <2>2, <2>4
    <3>2. SubSeq(p, 1, l - 1) \in hierarchy
      BY <1>5, <3>1
    <3> QED
      BY <1>1, <1>9, <2>1, <3>1, <3>2, CutParent
  <2> QED
    BY <2>3, <2>4
<1> HIDE DEF r, K
<1>10. {q \in ToSet(HierRoots(hierarchy)) : p \in Below(hierarchy, q)} = {r}
  BY <1>7, <1>8, <1>9, RootsAre
<1> QED
  BY <1>10, FS_Singleton

HierSpec == HierInit /\ [][HierNext]_hierVars

Frames == [path : hierarchy, rest : Seq(hierarchy)]
ShownPaths == ToSet(hierTree)
Told == {s[2] : s \in hierStops}
All == Below(hierarchy, hierOpts.root)
Deepest == Len(hierOpts.root) + hierOpts.depth

HierTypes ==
  /\ hierPhase \in {"idle", "start", "build", "done", "refused"}
  /\ hierarchy \in SUBSET Paths /\ IsFiniteSet(hierarchy)
  /\ hierPhase \in {"start", "build", "done"} =>
       hierOpts.root \in hierarchy /\ hierOpts.depth \in Nat /\ hierOpts.max \in Nat
  /\ hierStack \in Seq(Frames) /\ hierTree \in Seq(hierarchy) /\ truncated \in BOOLEAN
  /\ \A s \in hierStops : s[2] \in hierarchy

(* Nothing has been built before the root is.                              *)
Unbuilt == hierStack = <<>> /\ hierTree = <<>> /\ hierStops = {} /\ truncated = FALSE

(* The calls of build are a path down from the root, and what is to come   *)
(* of each are children of its node, in order.                             *)
FrameFits(i, f) ==
  /\ i <= hierOpts.depth /\ f.path \in ShownPaths /\ Len(f.path) = Len(hierOpts.root) + i - 1
  /\ \A j \in 1 .. Len(f.rest) : HasParent(f.rest[j]) /\ ParentPath(f.rest[j]) = f.path
  /\ \A j, k \in 1 .. Len(f.rest) : j < k => InOrder(f.rest[j], f.rest[k])
StackFits(s) == \A i \in 1 .. Len(s) : FrameFits(i, s[i])

TreeFits ==
  /\ ShownPaths \subseteq All /\ Len(hierTree) <= hierOpts.max
  /\ \A i, j \in DOMAIN hierTree : i < j => InOrder(hierTree[i], hierTree[j])
  /\ \A p \in ShownPaths : Len(p) <= Deepest

(* What is to come follows all that there is, and covers, with what has    *)
(* been told, all that is missing.                                         *)
ToCome(s) == {q \in hierarchy : \E i \in 1 .. Len(s) : \E j \in 1 .. Len(s[i].rest) : q = s[i].rest[j]}
Ahead(s) == \A t \in ShownPaths : \A q \in ToCome(s) : InOrder(t, q)
Covered(more) ==
  \A p \in All : p \in ShownPaths \/ Ancestors(p) \cap Told # {} \/ \E q \in more : Around(q, p)

(* Nodes are left out for their number exactly if the tree is full and one *)
(* that is not too deep is missing; until then, only depth is told.        *)
CutFits ==
  /\ truncated => Len(hierTree) >= hierOpts.max /\ \E p \in All \ ShownPaths : Len(p) <= Deepest
  /\ ~truncated => hierTree # <<>> /\ \A q \in Told : Len(q) = Deepest

Built == StackFits(hierStack) /\ TreeFits /\ Ahead(hierStack) /\ CutFits
         /\ (hierTree = <<>> \/ Covered(ToCome(hierStack)))
HierInv ==
  /\ HierTypes
  /\ hierPhase \in {"idle", "start", "refused"} => Unbuilt
  /\ hierPhase \in {"build", "done"} => Built
  /\ hierPhase = "done" => hierStack = <<>>

LEMMA AllArePaths == HierTypes => All \subseteq hierarchy /\ All \subseteq Paths
BY DEF HierTypes, All, Below

(* What the invariant says at the end.                                     *)
LEMMA TreeIsExact == HierInv => HierExact
<1> SUFFICES ASSUME HierInv, hierPhase = "done"
             PROVE  /\ ShownPaths \subseteq All /\ Len(hierTree) = Cardinality(ShownPaths) /\ Len(hierTree) <= hierOpts.max
                    /\ \A i, j \in DOMAIN hierTree : i < j => InOrder(hierTree[i], hierTree[j])
                    /\ \A p \in ShownPaths : Len(p) <= Deepest
                    /\ \A p \in All \ ShownPaths : hierTree = <<>> \/ Ancestors(p) \cap Told # {}
                    /\ truncated <=> \E p \in All \ ShownPaths : Len(p) <= Deepest
  BY DEF HierExact, ShownPaths, All, Told, Deepest
<1>1. HierTypes /\ Built /\ hierStack = <<>>
  BY DEF HierInv
<1>2. hierTree \in Seq(hierarchy) /\ hierarchy \subseteq Paths /\ Len(hierTree) \in Nat
      /\ DOMAIN hierTree = 1 .. Len(hierTree)
  BY <1>1 DEF HierTypes
<1>3. Len(hierTree) = Cardinality(ShownPaths)
  <2>1. \A i, j \in 1 .. Len(hierTree) : i # j => hierTree[i] # hierTree[j]
    <3> SUFFICES ASSUME NEW i \in 1 .. Len(hierTree), NEW j \in 1 .. Len(hierTree), i < j
                 PROVE  hierTree[i] # hierTree[j]
      OBVIOUS
    <3>1. InOrder(hierTree[i], hierTree[j]) /\ hierTree[j] \in Paths
      BY <1>1, <1>2 DEF Built, TreeFits
    <3> QED
      BY <3>1, OrderIrreflexive
  <2>2. hierTree \in Bijection(1 .. Len(hierTree), ShownPaths)
    <3>1. hierTree \in [1 .. Len(hierTree) -> ShownPaths]
      BY <1>2 DEF ShownPaths, ToSet
    <3>2. hierTree \in Injection(1 .. Len(hierTree), ShownPaths)
      BY <2>1, <3>1 DEF Injection, IsInjective
    <3>3. hierTree \in Surjection(1 .. Len(hierTree), ShownPaths)
      BY <1>2, <3>1 DEF Surjection, ShownPaths, ToSet
    <3> QED
      BY <3>2, <3>3 DEF Bijection
  <2> QED
    BY <1>2, <2>2, FS_CountingElements DEF ExistsBijection
<1>4. ToCome(hierStack) = {}
  BY <1>1 DEF ToCome
<1>5. \A p \in All \ ShownPaths : hierTree = <<>> \/ Ancestors(p) \cap Told # {}
  BY <1>1, <1>4 DEF Built, Covered
<1>6. ASSUME ~truncated, NEW p \in All \ ShownPaths
      PROVE  ~(Len(p) <= Deepest)
  <2>1. PICK q \in Ancestors(p) : q \in Told
    BY <1>1, <1>5, <1>6 DEF Built, CutFits
  <2>2. p \in Paths /\ Len(p) \in Nat
    BY <1>1, AllArePaths DEF Paths
  <2>3. PICK k \in 1 .. Len(p) - 1 : q = SubSeq(p, 1, k)
    BY <2>1 DEF Ancestors
  <2>4. k \in 1 .. Len(p)
    BY <2>2
  <2>5. Len(q) = k
    BY <2>2, <2>3, <2>4, CutPath
  <2>6. Len(q) = Deepest
    BY <1>1, <1>6, <2>1 DEF Built, CutFits
  <2> QED
    BY <2>2, <2>5, <2>6
<1>7. truncated => \E p \in All \ ShownPaths : Len(p) <= Deepest
  BY <1>1 DEF Built, CutFits
<1> QED
  BY <1>1, <1>3, <1>5, <1>6, <1>7 DEF Built, TreeFits, HierTypes

LEMMA InvIsExact == HierInv => HierarchyExact
BY TreeIsExact, RootsCoverAll DEF HierInv, HierTypes, HierarchyExact

LEMMA HierInitInv == HierInit => HierInv
<1> SUFFICES ASSUME HierInit
             PROVE  HierInv
  OBVIOUS
<1>1. IsFiniteSet({}) /\ <<>> \in Seq(Frames) /\ <<>> \in Seq(hierarchy)
  BY FS_EmptySet
<1>2. HierTypes
  BY <1>1 DEF HierInit, HierTypes
<1> QED
  BY <1>2 DEF HierInit, HierInv, Unbuilt

LEMMA HierAskKeeps == ASSUME HierInv, HierAsk PROVE HierInv'
<1>1. PICK d \in Designs, r \in HierRequests :
        LET h == EnsureSessionHierarchy(d)
            root == IF r.root = <<>> /\ h # {} THEN HierRoots(h)[1] ELSE r.root
        IN  /\ hierarchy' = h /\ hierOpts' = [r EXCEPT !.root = root]
            /\ hierPhase' = IF root \in h THEN "start" ELSE "refused"
  BY DEF HierAsk
<1> DEFINE h == EnsureSessionHierarchy(d)
<1>2. h \in SUBSET Paths /\ IsFiniteSet(h)
  <2>1. d.instances \in SUBSET Paths /\ IsFiniteSet(d.instances)
        /\ d.signals \in SUBSET Seq(Nat) /\ IsFiniteSet(d.signals)
    BY HierAssumption DEF Paths
  <2>2. BuildHierarchyFromSignals(d) \in SUBSET Paths
    <3>1. ASSUME NEW s \in d.signals, NEW k \in 1 .. Len(s) - 1
          PROVE  SubSeq(s, 1, k) \in Paths
      <4>1. s \in Seq(Nat) /\ Len(s) \in Nat
        BY <2>1
      <4>2. s \in Paths /\ k \in 1 .. Len(s)
        BY <4>1 DEF Paths
      <4> QED
        BY <4>2, CutPath
    <3>2. \A s \in d.signals : Ancestors(s) \subseteq Paths
      BY <3>1 DEF Ancestors
    <3> QED
      BY <3>2 DEF BuildHierarchyFromSignals
  <2>3. IsFiniteSet(BuildHierarchyFromSignals(d))
    <3>1. ASSUME NEW s \in d.signals
          PROVE  IsFiniteSet(Ancestors(s))
      <4>1. Len(s) \in Nat
        BY <2>1
      <4>2. IsFiniteSet(1 .. Len(s) - 1)
        BY <4>1, FS_Interval
      <4> DEFINE f == [k \in 1 .. Len(s) - 1 |-> SubSeq(s, 1, k)]
      <4>3. f \in Surjection(1 .. Len(s) - 1, Ancestors(s))
        BY DEF Surjection, Ancestors
      <4> QED
        BY <4>2, <4>3, FS_Surjection
    <3>2. IsFiniteSet({Ancestors(s) : s \in d.signals})
      <4> DEFINE f == [s \in d.signals |-> Ancestors(s)]
      <4>1. f \in Surjection(d.signals, {Ancestors(s) : s \in d.signals})
        BY DEF Surjection
      <4> QED
        BY <2>1, <4>1, FS_Surjection
    <3> QED
      BY <3>1, <3>2, FS_UNION DEF BuildHierarchyFromSignals
  <2> QED
    BY <2>1, <2>2, <2>3 DEF EnsureSessionHierarchy, CollectInstanceHierarchy
<1>3. r.depth \in Nat /\ r.max \in Nat
  BY HierAssumption
<1>4. UNCHANGED <<hierStack, hierTree, hierStops, truncated>> /\ Unbuilt
  BY DEF HierAsk, HierInv
<1> HIDE DEF h
<1>5. /\ hierarchy' = h /\ hierPhase' \in {"start", "refused"}
      /\ hierPhase' = "start" => hierOpts'.root \in h /\ hierOpts'.depth \in Nat /\ hierOpts'.max \in Nat
  BY <1>1, <1>3 DEF h
<1>6. HierTypes'
  <2>1. hierarchy' \in SUBSET Paths /\ IsFiniteSet(hierarchy')
    BY <1>2, <1>5
  <2>2. hierStack' \in Seq(Frames') /\ hierTree' \in Seq(hierarchy')
    BY <1>4 DEF Unbuilt
  <2>3. truncated' \in BOOLEAN /\ \A s \in hierStops' : s[2] \in hierarchy'
    BY <1>4 DEF Unbuilt
  <2> QED
    BY <1>5, <2>1, <2>2, <2>3 DEF HierTypes
<1> QED
  BY <1>4, <1>5, <1>6 DEF HierInv, Unbuilt

(* A call of build for the node c, with the kept s around it, that adds   *)
(* the node: c comes kept, and covers what is missing with what the kept  *)
(* around it have still to build.                                          *)
Called(s, c) ==
  /\ s \in Seq(Frames) /\ StackFits(s) /\ Ahead(s) /\ TreeFits
  /\ c \in All /\ Len(c) = Len(hierOpts.root) + Len(s) /\ Len(s) <= hierOpts.depth
  /\ \A t \in ShownPaths : InOrder(t, c)
  /\ \A q \in ToCome(s) : InOrder(c, q)
  /\ Covered(ToCome(s) \cup {c})
  /\ ~truncated /\ \A q \in Told : Len(q) = Deepest
  /\ Len(hierTree) < hierOpts.max

(* Where Below leads from a path that is not the one below itself.         *)
LEMMA NextBelow ==
    ASSUME HierTypes, hierPhase \in {"start", "build"}, NEW c \in All, NEW p \in All, Around(c, p), p # c
    PROVE  \E q \in hierarchy : HasParent(q) /\ ParentPath(q) = c /\ Around(q, p) /\ c \in Ancestors(p)
<1>1. c \in Paths /\ p \in Paths /\ hierOpts.root \in Paths
  BY AllArePaths DEF HierTypes
<1>2. Len(c) \in 1 .. Len(p) /\ SubSeq(p, 1, Len(c)) = c /\ Len(p) \in Nat /\ Len(c) \in Nat
  BY <1>1, AroundIsCut DEF Paths
<1>3. Len(c) # Len(p)
  BY <1>1, PathsEqual DEF Around
<1>4. Len(c) + 1 \in 1 .. Len(p) /\ Len(c) \in 1 .. Len(p) - 1 /\ (Len(c) + 1) - 1 = Len(c)
  BY <1>2, <1>3
<1> DEFINE q == SubSeq(p, 1, Len(c) + 1)
<1>5. q \in hierarchy
  <2>1. PICK k \in 1 .. Len(p) : /\ SubSeq(p, 1, k) = hierOpts.root
                                 /\ \A j \in k .. Len(p) : SubSeq(p, 1, j) \in hierarchy
    BY DEF All, Below
  <2>2. PICK l \in 1 .. Len(c) : SubSeq(c, 1, l) = hierOpts.root
    BY DEF All, Below
  <2>3. k = l
    BY <1>1, <2>1, <2>2, CutPath
  <2>4. Len(c) + 1 \in k .. Len(p)
    BY <1>2, <1>4, <2>2, <2>3
  <2> QED
    BY <2>1, <2>4
<1>6. Around(q, p)
  BY <1>1, <1>4, CutPath
<1>7. HasParent(q) /\ ParentPath(q) = SubSeq(p, 1, (Len(c) + 1) - 1)
  <2>1. Len(c) + 1 > 1
    BY <1>2
  <2> QED
    BY <1>1, <1>4, <2>1, CutParent
<1>8. ParentPath(q) = c
  BY <1>2, <1>4, <1>7
<1>9. c \in Ancestors(p)
  BY <1>2, <1>4 DEF Ancestors
<1> QED
  BY <1>5, <1>6, <1>7, <1>8, <1>9

(* At the root nothing is there yet, and everything is below it.           *)
LEMMA AllBelowRoot ==
    ASSUME HierTypes, hierPhase \in {"start", "build"}, NEW p \in All
    PROVE  Around(hierOpts.root, p)
<1>1. PICK k \in 1 .. Len(p) : SubSeq(p, 1, k) = hierOpts.root
  BY DEF All, Below
<1>2. p \in Paths
  BY AllArePaths
<1> QED
  BY <1>1, <1>2, CutPath

LEMMA BuildKeeps ==
    ASSUME HierTypes, hierPhase \in {"start", "build"}, NEW s, NEW c, Called(s, c), Build(s, c),
           UNCHANGED <<hierarchy, hierOpts>>, hierPhase' = "build"
    PROVE  HierInv'
<1> DEFINE kids == Children(hierarchy, c)
           f == [path |-> c, rest |-> kids]
           limited == Len(s) >= hierOpts.depth
<1>1. /\ c \in hierarchy /\ c \in Paths /\ hierarchy \in SUBSET Paths /\ IsFiniteSet(hierarchy)
      /\ s \in Seq(Frames) /\ Len(s) \in Nat /\ hierTree \in Seq(hierarchy) /\ Len(hierTree) \in Nat
      /\ Len(hierOpts.root) \in Nat /\ hierOpts.depth \in Nat /\ hierOpts.max \in Nat
      /\ Len(c) = Len(hierOpts.root) + Len(s) /\ Len(s) <= hierOpts.depth
      /\ hierOpts.root \in hierarchy
  BY SMTT(30), AllArePaths DEF Called, HierTypes, Paths
<1>2. \A i \in DOMAIN s : s[i].path # c
  <2> SUFFICES ASSUME NEW i \in 1 .. Len(s)
               PROVE  s[i].path # c
    BY <1>1
  <2>1. Len(s[i].path) = Len(hierOpts.root) + i - 1
    BY DEF Called, StackFits, FrameFits
  <2>2. Len(s[i].path) # Len(c)
    BY <1>1, <2>1
  <2> QED
    BY <2>2
<1>3. /\ hierTree' = Append(hierTree, c) /\ truncated' = truncated /\ truncated = FALSE
      /\ hierStack' = IF limited THEN s ELSE Append(s, f)
      /\ hierStops' = hierStops \cup (IF limited /\ kids # <<>> THEN {<<"depth_limit", c>>} ELSE {})
  <2>1. ~(Len(hierTree) >= hierOpts.max) /\ truncated = FALSE
    BY <1>1 DEF Called, HierTypes
  <2> QED
    BY <1>2, <2>1 DEF Build
<1>4. ShownPaths' = ShownPaths \cup {c} /\ All' = All /\ Deepest' = Deepest
  BY SMTT(30), <1>1, <1>3 DEF ShownPaths, ToSet, All, Deepest
<1>5. Told' = Told \cup (IF limited /\ kids # <<>> THEN {c} ELSE {})
  <2>1. CASE limited /\ kids # <<>>
    <3> DEFINE x == <<"depth_limit", c>>
    <3>1. x[2] = c /\ hierStops' = hierStops \cup {x}
      BY <1>3, <2>1
    <3> HIDE DEF x
    <3>2. Told' = Told \cup {c}
      BY <3>1 DEF Told
    <3> QED
      BY <2>1, <3>2
  <2>2. CASE ~(limited /\ kids # <<>>)
    BY <1>3, <2>2 DEF Told
  <2> QED
    BY <2>1, <2>2
<1>6. /\ kids \in Seq(hierarchy) /\ Len(kids) \in Nat /\ f \in Frames
      /\ \A j \in 1 .. Len(kids) : kids[j] \in hierarchy /\ HasParent(kids[j]) /\ ParentPath(kids[j]) = c
      /\ \A q \in hierarchy : HasParent(q) /\ ParentPath(q) = c => \E j \in 1 .. Len(kids) : q = kids[j]
      /\ \A j, k \in 1 .. Len(kids) : j < k => InOrder(kids[j], kids[k])
  <2>1. /\ kids \in Seq(hierarchy) /\ ToSet(kids) = {q \in hierarchy : HasParent(q) /\ ParentPath(q) = c}
        /\ \A i, j \in DOMAIN kids : i < j => InOrder(kids[i], kids[j])
    BY <1>1, ChildrenAre
  <2>2. DOMAIN kids = 1 .. Len(kids) /\ Len(kids) \in Nat
    BY <2>1
  <2> HIDE DEF kids
  <2>3. \A j \in 1 .. Len(kids) : kids[j] \in ToSet(kids)
    BY <2>2 DEF ToSet
  <2>4. \A q \in ToSet(kids) : \E j \in 1 .. Len(kids) : q = kids[j]
    BY <2>2 DEF ToSet
  <2> QED
    BY <1>1, <2>1, <2>2, <2>3, <2>4 DEF Frames
<1> HIDE DEF kids
<1>7. /\ hierStack' \in Seq(Frames)
      /\ limited => hierStack' = s
      /\ ~limited => /\ Len(hierStack') = Len(s) + 1 /\ hierStack'[Len(s) + 1] = f
                     /\ \A i \in 1 .. Len(s) : hierStack'[i] = s[i]
  BY <1>1, <1>3, <1>6
<1> HIDE DEF f
<1>8. ASSUME NEW i \in 1 .. Len(hierStack')
      PROVE  \/ i \in 1 .. Len(s) /\ hierStack'[i] = s[i]
             \/ ~limited /\ i = Len(s) + 1 /\ hierStack'[i] = f
  BY <1>1, <1>7
<1>9. f.path = c /\ f.rest = kids
  BY DEF f
<1> DEFINE left == hierStack'
<1>10. \A q : q \in ToCome(left) <=> \/ q \in ToCome(s)
                                     \/ ~limited /\ \E j \in 1 .. Len(kids) : q = kids[j]
  <2>1. ASSUME NEW q \in ToCome(left)
        PROVE  q \in ToCome(s) \/ (~limited /\ \E j \in 1 .. Len(kids) : q = kids[j])
    BY <1>8, <1>9, <2>1 DEF ToCome
  <2>2. ASSUME NEW q \in ToCome(s)
        PROVE  q \in ToCome(left)
    <3>1. PICK i \in 1 .. Len(s) : \E j \in 1 .. Len(s[i].rest) : q = s[i].rest[j]
      BY DEF ToCome
    <3>2. i \in 1 .. Len(hierStack') /\ hierStack'[i] = s[i]
      BY <1>1, <1>7
    <3> QED
      BY <3>1, <3>2 DEF ToCome
  <2>3. ASSUME ~limited, NEW j \in 1 .. Len(kids)
        PROVE  kids[j] \in ToCome(left)
    <3>1. Len(s) + 1 \in 1 .. Len(hierStack') /\ hierStack'[Len(s) + 1] = f
      BY <1>1, <1>7, <2>3
    <3> QED
      BY <1>6, <1>9, <3>1 DEF ToCome
  <2> QED
    BY <2>1, <2>2, <2>3
<1>17. (ToCome(hierStack))' = ToCome(left)
  BY DEF ToCome
<1> HIDE DEF left
<1>11. HierTypes'
  <2>1. hierStack' \in Seq(Frames') /\ hierTree' \in Seq(hierarchy')
    BY <1>1, <1>3, <1>7 DEF Frames
  <2>2. \A t \in hierStops' : t[2] \in hierarchy'
    BY <1>1, <1>3 DEF HierTypes
  <2> QED
    BY <1>1, <1>3, <2>1, <2>2 DEF HierTypes
<1>12. StackFits(hierStack)'
  <2> SUFFICES ASSUME NEW i \in 1 .. Len(hierStack')
               PROVE  (FrameFits(i, hierStack[i]))'
    BY DEF StackFits
  <2>1. CASE i \in 1 .. Len(s) /\ hierStack'[i] = s[i]
    <3>1. FrameFits(i, s[i])
      BY <2>1 DEF Called, StackFits
    <3> QED
      BY <1>4, <2>1, <3>1 DEF FrameFits
  <2>2. CASE ~limited /\ i = Len(s) + 1 /\ hierStack'[i] = f
    <3>1. i <= hierOpts.depth /\ Len(c) = Len(hierOpts.root) + i - 1
      BY <1>1, <2>2
    <3> QED
      BY <1>4, <1>6, <1>9, <2>2, <3>1 DEF FrameFits
  <2> QED
    BY <1>8, <2>1, <2>2
<1>13. TreeFits'
  <2>1. DOMAIN hierTree' = 1 .. Len(hierTree) + 1 /\ Len(hierTree') = Len(hierTree) + 1
        /\ DOMAIN hierTree = 1 .. Len(hierTree)
        /\ hierTree'[Len(hierTree) + 1] = c /\ \A i \in 1 .. Len(hierTree) : hierTree'[i] = hierTree[i]
    BY <1>1, <1>3
  <2>2. \A i \in 1 .. Len(hierTree) + 1 : i # Len(hierTree) + 1 => i \in 1 .. Len(hierTree)
    BY <1>1
  <2>3. ASSUME NEW i \in 1 .. Len(hierTree) + 1, NEW j \in 1 .. Len(hierTree) + 1, i < j
        PROVE  InOrder(hierTree'[i], hierTree'[j])
    <3>1. i \in 1 .. Len(hierTree)
      BY <1>1, <2>3
    <3>2. CASE j = Len(hierTree) + 1
      <4>1. hierTree[i] \in ShownPaths
        BY <2>1, <3>1 DEF ShownPaths, ToSet
      <4> QED
        BY <2>1, <3>1, <3>2, <4>1 DEF Called
    <3>3. CASE j # Len(hierTree) + 1
      <4>1. j \in 1 .. Len(hierTree)
        BY <2>2, <3>3
      <4> QED
        BY <2>1, <2>3, <3>1, <4>1 DEF Called, TreeFits
    <3> QED
      BY <3>2, <3>3
  <2>4. Len(hierTree') <= hierOpts'.max
    BY <1>1, <2>1 DEF Called
  <2>5. \A p \in ShownPaths' : Len(p) <= Deepest' /\ p \in All'
    <3>1. Len(c) <= Deepest
      BY <1>1 DEF Deepest
    <3> QED
      BY <1>4, <3>1 DEF Called, TreeFits
  <2> QED
    BY <2>1, <2>3, <2>4, <2>5 DEF TreeFits
<1>14. Ahead(hierStack)'
  <2> SUFFICES ASSUME NEW t \in ShownPaths', NEW q \in ToCome(left)
               PROVE  InOrder(t, q)
    BY <1>17 DEF Ahead
  <2>1. CASE q \in ToCome(s)
    BY <1>4, <2>1 DEF Called, Ahead
  <2>2. CASE \E j \in 1 .. Len(kids) : q = kids[j]
    <3>1. q \in Paths /\ InOrder(c, q)
      BY <1>1, <1>6, <2>2, ParentFirst
    <3>2. CASE t = c
      BY <3>1, <3>2
    <3>3. CASE t \in ShownPaths
      <4>1. t \in Paths /\ InOrder(t, c)
        BY <1>1, <3>3, AllArePaths DEF Called, TreeFits
      <4> QED
        BY <1>1, <3>1, <4>1, OrderTransitive
    <3> QED
      BY <1>4, <3>2, <3>3
  <2> QED
    BY <1>10, <2>1, <2>2
<1>15. Covered(ToCome(hierStack))'
  <2> SUFFICES ASSUME NEW p \in All
               PROVE  \/ p \in ShownPaths' \/ Ancestors(p) \cap Told' # {}
                      \/ \E q \in ToCome(left) : Around(q, p)
    BY <1>4, <1>17 DEF Covered
  <2>1. CASE p \in ShownPaths \/ Ancestors(p) \cap Told # {}
    BY <1>4, <1>5, <2>1
  <2>2. CASE \E q \in ToCome(s) : Around(q, p)
    BY <1>10, <2>2
  <2>3. CASE Around(c, p)
    <3>1. CASE p = c
      BY <1>4, <3>1
    <3>2. CASE p # c
      <4>1. PICK q \in hierarchy : /\ HasParent(q) /\ ParentPath(q) = c /\ Around(q, p)
                                   /\ c \in Ancestors(p)
        BY <2>3, <3>2, NextBelow DEF Called
      <4>2. PICK j \in 1 .. Len(kids) : q = kids[j]
        BY <1>6, <4>1
      <4>3. CASE limited
        <5>1. kids # <<>>
          BY <1>6, <4>2
        <5> QED
          BY <1>5, <4>1, <4>3, <5>1
      <4>4. CASE ~limited
        BY <1>10, <4>1, <4>2, <4>4
      <4> QED
        BY <4>3, <4>4
    <3> QED
      BY <3>1, <3>2
  <2> QED
    BY <2>1, <2>2, <2>3 DEF Called, Covered
<1>16. CutFits'
  <2>1. hierTree' # <<>>
    BY <1>1, <1>3
  <2>2. limited => Len(c) = Deepest
    BY SMTT(30), <1>1 DEF Deepest
  <2>3. \A q \in Told' : Len(q) = Deepest
    BY <1>5, <2>2 DEF Called
  <2> QED
    BY <1>3, <1>4, <2>1, <2>3 DEF CutFits
<1> QED
  BY <1>11, <1>12, <1>13, <1>14, <1>15, <1>16 DEF HierInv, Built

LEMMA HierStartKeeps == ASSUME HierInv, HierStart PROVE HierInv'
<1> USE DEF HierInv
<1>1. /\ HierTypes /\ Unbuilt /\ hierPhase = "start" /\ hierPhase' = "build"
      /\ Build(<<>>, hierOpts.root) /\ UNCHANGED <<hierarchy, hierOpts>>
  BY DEF HierStart
<1>2. /\ hierOpts.root \in hierarchy /\ hierOpts.root \in Paths /\ hierOpts.depth \in Nat /\ hierOpts.max \in Nat
      /\ Len(hierOpts.root) \in Nat /\ hierOpts.root \in All
      /\ ShownPaths = {} /\ Told = {} /\ Len(hierTree) = 0 /\ Len(<<>>) = 0
  <2>1. hierOpts.root \in All
    BY <1>1, BelowItself DEF HierTypes, All
  <2> QED
    BY <1>1, <2>1 DEF HierTypes, Paths, Unbuilt, ShownPaths, ToSet, Told
<1>3. CASE hierOpts.max = 0
  <2>1. /\ truncated' = TRUE /\ hierStack' = <<>>
        /\ UNCHANGED <<hierTree, hierStops, hierarchy, hierOpts>> /\ hierTree = <<>>
    BY <1>1, <1>2, <1>3 DEF Build, Unbuilt
  <2>2. HierTypes'
    <3>1. <<>> \in Seq(Frames')
      OBVIOUS
    <3> QED
      BY <1>1, <2>1, <3>1 DEF HierTypes
  <2>3. CutFits'
    <3>1. ShownPaths' = {} /\ All' = All /\ Deepest' = Deepest /\ Len(hierTree') = 0
      BY <1>2, <2>1 DEF ShownPaths, All, Deepest
    <3>2. Len(hierOpts.root) <= Deepest
      BY <1>2 DEF Deepest
    <3> QED
      BY <1>2, <1>3, <2>1, <3>1, <3>2 DEF CutFits
  <2>4. TreeFits'
    <3>1. ShownPaths' = {} /\ Len(hierTree') = 0 /\ DOMAIN hierTree' = {}
      BY <1>2, <2>1 DEF ShownPaths
    <3> QED
      BY <1>2, <1>3, <2>1, <3>1 DEF TreeFits
  <2>5. StackFits(hierStack)' /\ Ahead(hierStack)'
    <3>1. Len(hierStack') = 0 /\ \A i \in 1 .. 0 : FALSE
      BY <2>1
    <3> QED
      BY <3>1 DEF StackFits, Ahead, ToCome
  <2> QED
    BY <1>1, <2>1, <2>2, <2>3, <2>4, <2>5 DEF Built
<1>4. CASE hierOpts.max # 0
  <2>1. \A i \in 1 .. 0 : FALSE
    OBVIOUS
  <2>2. ToCome(<<>>) = {} /\ StackFits(<<>>)
    BY <1>2, <2>1 DEF ToCome, StackFits
  <2>3. Covered(ToCome(<<>>) \cup {hierOpts.root})
    BY <1>1, AllBelowRoot DEF Covered
  <2>4. TreeFits
    <3>1. DOMAIN hierTree = {}
      BY <1>1 DEF Unbuilt
    <3> QED
      BY <1>2, <3>1 DEF TreeFits
  <2>5. Called(<<>>, hierOpts.root)
    <3>1. <<>> \in Seq(Frames)
      OBVIOUS
    <3> QED
      BY <1>1, <1>2, <1>4, <2>2, <2>3, <2>4, <3>1 DEF Called, Ahead, Unbuilt
  <2> QED
    BY <1>1, <2>5, BuildKeeps
<1> QED
  BY <1>3, <1>4

-----------------------------------------------------------------------------
(* The last of the calls.                                                  *)

LEMMA LastCall ==
    ASSUME HierTypes, hierStack # <<>>
    PROVE  /\ Len(hierStack) \in Nat \ {0} /\ Len(hierStack) \in 1 .. Len(hierStack)
           /\ Last(hierStack) = hierStack[Len(hierStack)] /\ Last(hierStack) \in Frames
           /\ Front(hierStack) \in Seq(Frames) /\ Len(Front(hierStack)) = Len(hierStack) - 1
           /\ \A i \in 1 .. Len(hierStack) - 1 : Front(hierStack)[i] = hierStack[i]
<1>1. hierStack \in Seq(Frames)
  BY DEF HierTypes
<1>2. Len(hierStack) \in Nat \ {0} /\ Len(hierStack) \in 1 .. Len(hierStack)
  BY <1>1
<1>3. Last(hierStack) = hierStack[Len(hierStack)] /\ Last(hierStack) \in Frames
  BY <1>1, <1>2 DEF Last
<1> QED
  BY <1>1, <1>2, <1>3, FrontIs

(* What is to come of the last call is not there yet, and not too deep.    *)
LEMMA NextIsMissing ==
    ASSUME HierTypes, hierPhase = "build", Built, hierStack # <<>>, NEW j \in 1 .. Len(Last(hierStack).rest)
    PROVE  LET c == Last(hierStack).rest[j] IN
             /\ c \in hierarchy /\ c \in ToCome(hierStack) /\ c \in All /\ c \notin ShownPaths
             /\ HasParent(c) /\ ParentPath(c) = Last(hierStack).path
             /\ Len(c) = Len(hierOpts.root) + Len(hierStack) /\ Len(hierStack) <= hierOpts.depth
             /\ Len(c) <= Deepest
<1> DEFINE top == Last(hierStack)
           c == top.rest[j]
           m == Len(hierStack)
<1>1. /\ m \in 1 .. m /\ m \in Nat /\ top = hierStack[m] /\ top \in Frames
      /\ Len(hierOpts.root) \in Nat /\ hierOpts.depth \in Nat /\ hierarchy \in SUBSET Paths
  BY LastCall DEF HierTypes, Paths
<1>2. top.rest \in Seq(hierarchy) /\ c \in hierarchy /\ c \in Paths /\ j \in 1 .. Len(top.rest)
  BY <1>1 DEF Frames
<1> HIDE DEF top
<1>3. FrameFits(m, top)
  BY <1>1 DEF Built, StackFits
<1>4. /\ HasParent(c) /\ ParentPath(c) = top.path /\ top.path \in ShownPaths
      /\ m <= hierOpts.depth /\ Len(top.path) = Len(hierOpts.root) + m - 1
  BY <1>2, <1>3 DEF FrameFits
<1>5. c \in ToCome(hierStack)
  BY <1>1, <1>2 DEF ToCome
<1>6. c \notin ShownPaths
  BY <1>2, <1>5, OrderIrreflexive DEF Built, Ahead
<1>7. c \in All
  BY <1>1, <1>2, <1>4, BelowChild DEF Built, TreeFits, All
<1>8. Len(c) = Len(hierOpts.root) + m /\ Len(c) <= Deepest
  <2>1. Len(top.path) = Len(c) - 1 /\ Len(c) \in Nat
    <3> HIDE DEF c
    <3>1. Len(ParentPath(c)) = Len(c) - 1
      BY <1>2, <1>4, ParentIs
    <3> QED
      BY <1>2, <1>4, <3>1 DEF Paths
  <2> QED
    BY <1>1, <1>4, <2>1 DEF Deepest
<1> QED
  BY <1>2, <1>4, <1>5, <1>6, <1>7, <1>8 DEF top

LEMMA ParentAbove ==
    ASSUME NEW q \in Paths, HasParent(q), NEW p \in Paths, Around(q, p)
    PROVE  ParentPath(q) \in Ancestors(p)
<1>1. Len(q) \in 1 .. Len(p) /\ SubSeq(p, 1, Len(q)) = q /\ Len(q) > 1 /\ Len(p) \in Nat /\ Len(q) \in Nat
  BY AroundIsCut DEF HasParent, Paths
<1>2. ParentPath(q) = SubSeq(p, 1, Len(q) - 1)
  BY <1>1, CutParent
<1>3. Len(q) - 1 \in 1 .. Len(p) - 1
  BY <1>1
<1> QED
  BY <1>2, <1>3 DEF Ancestors

(* Without the last call: when it has nothing to come, nothing is lost.    *)
LEMMA WithoutLast ==
    ASSUME HierTypes, Built, hierStack # <<>>
    PROVE  /\ StackFits(Front(hierStack)) /\ ToCome(Front(hierStack)) \subseteq ToCome(hierStack)
           /\ \A q \in ToCome(hierStack) : \/ q \in ToCome(Front(hierStack))
                                           \/ \E j \in 1 .. Len(Last(hierStack).rest) : q = Last(hierStack).rest[j]
<1> DEFINE m == Len(hierStack)
           s == Front(hierStack)
<1>1. /\ m \in Nat \ {0} /\ Last(hierStack) = hierStack[m] /\ Len(s) = m - 1
      /\ \A i \in 1 .. m - 1 : s[i] = hierStack[i]
  BY LastCall
<1> HIDE DEF s
<1>2. \A i \in 1 .. m - 1 : i \in 1 .. m
  BY <1>1
<1>3. \A i \in 1 .. m : i # m => i \in 1 .. m - 1
  BY <1>1
<1>4. StackFits(s)
  BY <1>1, <1>2 DEF Built, StackFits
<1>5. ToCome(s) \subseteq ToCome(hierStack)
  BY <1>1, <1>2 DEF ToCome
<1>6. \A q \in ToCome(hierStack) : q \in ToCome(s) \/ \E j \in 1 .. Len(Last(hierStack).rest) : q = Last(hierStack).rest[j]
  BY <1>1, <1>3 DEF ToCome
<1> QED
  BY <1>4, <1>5, <1>6 DEF s

LEMMA HierReturnKeeps == ASSUME HierInv, HierReturn PROVE HierInv'
<1> DEFINE s == Front(hierStack)
<1>1. /\ HierTypes /\ Built /\ hierPhase = "build" /\ hierStack # <<>> /\ Last(hierStack).rest = <<>>
      /\ hierStack' = s /\ UNCHANGED <<hierPhase, hierarchy, hierOpts, hierTree, hierStops, truncated>>
  BY DEF HierReturn, HierInv
<1>2. StackFits(s) /\ ToCome(s) = ToCome(hierStack)
  <2>1. \A j \in 1 .. Len(Last(hierStack).rest) : FALSE
    BY <1>1
  <2> QED
    BY <1>1, <2>1, WithoutLast
<1>3. s \in Seq(Frames)
  BY <1>1, LastCall
<1> HIDE DEF s
<1>4. /\ ShownPaths' = ShownPaths /\ All' = All /\ Told' = Told /\ Deepest' = Deepest
      /\ (ToCome(hierStack))' = ToCome(s)
  BY <1>1 DEF ShownPaths, All, Told, Deepest, ToCome
<1>5. HierTypes'
  <2>1. hierStack' \in Seq(Frames')
    BY <1>1, <1>3 DEF Frames
  <2> QED
    BY <1>1, <2>1 DEF HierTypes
<1>6. (StackFits(hierStack))'
  BY <1>1, <1>2, <1>4 DEF StackFits, FrameFits
<1>7. TreeFits' /\ CutFits'
  BY <1>1, <1>4 DEF Built, TreeFits, CutFits
<1>8. (Ahead(hierStack))'
  BY <1>1, <1>2, <1>4 DEF Built, Ahead
<1>9. (hierTree = <<>> \/ Covered(ToCome(hierStack)))'
  BY <1>1, <1>2, <1>4 DEF Built, Covered
<1> QED
  BY <1>1, <1>5, <1>6, <1>7, <1>8, <1>9 DEF HierInv, Built

LEMMA HierDoneKeeps == ASSUME HierInv, HierDone PROVE HierInv'
<1>1. /\ HierTypes /\ Built /\ hierStack' = <<>> /\ hierPhase' = "done"
      /\ UNCHANGED <<hierarchy, hierOpts, hierStack, hierTree, hierStops, truncated>> /\ hierPhase = "build"
  BY DEF HierDone, HierInv
<1>2. HierTypes'
  BY <1>1 DEF HierTypes, Frames
<1>3. Built'
  BY <1>1 DEF Built, StackFits, FrameFits, TreeFits, Ahead, Covered, CutFits, ShownPaths, All, Told, Deepest, ToCome
<1> QED
  BY <1>1, <1>2, <1>3 DEF HierInv

(* The tree is full: the call ends, and what it had to build is told.      *)
LEMMA HierChildFull ==
    ASSUME HierInv, HierChild, Len(hierTree) >= hierOpts.max
    PROVE  HierInv'
<1> DEFINE s == Front(hierStack)
           top == Last(hierStack)
<1>1. /\ HierTypes /\ Built /\ hierPhase = "build" /\ hierStack # <<>> /\ top.rest # <<>>
      /\ truncated' = TRUE /\ hierStops' = hierStops \cup {<<"max_nodes", top.path>>}
      /\ hierStack' = s /\ UNCHANGED <<hierTree, hierPhase, hierarchy, hierOpts>>
  BY DEF HierChild, HierInv
<1>2. /\ StackFits(s) /\ ToCome(s) \subseteq ToCome(hierStack)
      /\ \A q \in ToCome(hierStack) : q \in ToCome(s) \/ \E j \in 1 .. Len(top.rest) : q = top.rest[j]
  BY <1>1, WithoutLast
<1>3. s \in Seq(Frames) /\ top \in Frames /\ top.rest \in Seq(hierarchy) /\ top.path \in hierarchy
      /\ hierarchy \in SUBSET Paths
  BY <1>1, LastCall DEF Frames, HierTypes
<1>4. ASSUME NEW j \in 1 .. Len(top.rest)
      PROVE  /\ top.rest[j] \in All \ ShownPaths /\ Len(top.rest[j]) <= Deepest /\ top.rest[j] \in Paths
             /\ HasParent(top.rest[j]) /\ ParentPath(top.rest[j]) = top.path
  BY <1>1, <1>3, NextIsMissing
<1>5. 1 \in 1 .. Len(top.rest)
  BY <1>1, <1>3
<1> HIDE DEF s, top
<1>6. /\ ShownPaths' = ShownPaths /\ All' = All /\ Deepest' = Deepest
      /\ (ToCome(hierStack))' = ToCome(s)
  BY <1>1 DEF ShownPaths, All, Deepest, ToCome
<1>7. Told' = Told \cup {top.path}
  <2> DEFINE x == <<"max_nodes", top.path>>
  <2>1. x[2] = top.path /\ hierStops' = hierStops \cup {x}
    BY <1>1
  <2> HIDE DEF x
  <2> QED
    BY <2>1 DEF Told
<1>8. HierTypes'
  <2>1. hierStack' \in Seq(Frames')
    BY <1>1, <1>3 DEF Frames
  <2>2. \A t \in hierStops' : t[2] \in hierarchy'
    BY <1>1, <1>3 DEF HierTypes
  <2> QED
    BY <1>1, <2>1, <2>2 DEF HierTypes
<1>9. (StackFits(hierStack))'
  BY <1>1, <1>2, <1>6 DEF StackFits, FrameFits
<1>10. TreeFits'
  BY <1>1, <1>6 DEF Built, TreeFits
<1>11. CutFits'
  BY <1>1, <1>4, <1>5, <1>6 DEF CutFits
<1>12. (Ahead(hierStack))'
  BY <1>1, <1>2, <1>6 DEF Built, Ahead
<1>13. (hierTree = <<>> \/ Covered(ToCome(hierStack)))'
  <2> SUFFICES ASSUME hierTree # <<>>, NEW p \in All
               PROVE  \/ p \in ShownPaths \/ Ancestors(p) \cap Told' # {}
                      \/ \E q \in ToCome(s) : Around(q, p)
    BY <1>1, <1>6 DEF Covered
  <2>1. p \in ShownPaths \/ Ancestors(p) \cap Told # {} \/ \E q \in ToCome(hierStack) : Around(q, p)
    BY <1>1 DEF Built, Covered
  <2>2. ASSUME NEW j \in 1 .. Len(top.rest), Around(top.rest[j], p)
        PROVE  top.path \in Ancestors(p)
    BY <1>1, <1>4, <2>2, AllArePaths, ParentAbove
  <2> QED
    BY <1>2, <1>7, <2>1, <2>2
<1> QED
  BY <1>1, <1>8, <1>9, <1>10, <1>11, <1>12, <1>13 DEF HierInv, Built

(* The next child is built: it comes after all that there is, and before   *)
(* all that is still to come.                                              *)
LEMMA HierChildBuilds ==
    ASSUME HierInv, HierChild, ~(Len(hierTree) >= hierOpts.max)
    PROVE  HierInv'
<1> DEFINE top == Last(hierStack)
           m == Len(hierStack)
           less == [top EXCEPT !.rest = Tail(@)]
           s == Append(Front(hierStack), less)
           c == Head(top.rest)
<1>1. /\ HierTypes /\ Built /\ hierPhase = "build" /\ hierPhase' = "build" /\ hierStack # <<>>
      /\ top.rest # <<>> /\ Build(s, c) /\ UNCHANGED <<hierarchy, hierOpts>>
  BY DEF HierChild, HierInv
<1>2. /\ m \in Nat \ {0} /\ m \in 1 .. m /\ top = hierStack[m] /\ top \in Frames
      /\ Front(hierStack) \in Seq(Frames) /\ Len(Front(hierStack)) = m - 1
      /\ \A i \in 1 .. m - 1 : Front(hierStack)[i] = hierStack[i]
  BY <1>1, LastCall
<1>3. /\ top.rest \in Seq(hierarchy) /\ Tail(top.rest) \in Seq(hierarchy) /\ top.path \in hierarchy
      /\ c = top.rest[1] /\ 1 \in 1 .. Len(top.rest) /\ Len(Tail(top.rest)) = Len(top.rest) - 1
      /\ Len(top.rest) \in Nat
      /\ \A j \in 1 .. Len(top.rest) - 1 : Tail(top.rest)[j] = top.rest[j + 1]
  <2>1. top.rest \in Seq(hierarchy) /\ top.path \in hierarchy
    BY <1>2 DEF Frames
  <2> QED
    BY <1>1, <2>1
<1>4. less \in Frames /\ less.path = top.path /\ less.rest = Tail(top.rest)
  BY <1>2, <1>3 DEF Frames
<1>5. /\ s \in Seq(Frames) /\ Len(s) = m /\ s[m] = less
      /\ \A i \in 1 .. m - 1 : s[i] = hierStack[i]
  BY <1>2, <1>4
<1>6. /\ c \in hierarchy /\ c \in ToCome(hierStack) /\ c \in All /\ c \notin ShownPaths
      /\ HasParent(c) /\ ParentPath(c) = top.path /\ Len(c) = Len(hierOpts.root) + m
      /\ m <= hierOpts.depth
  BY <1>1, <1>3, NextIsMissing
<1> HIDE DEF s, less, c, top
<1>7. \A i \in 1 .. m : i # m => i \in 1 .. m - 1
  BY <1>2
<1>8. /\ \A j \in 1 .. Len(less.rest) : j + 1 \in 1 .. Len(top.rest) /\ less.rest[j] = top.rest[j + 1]
      /\ \A j, k \in 1 .. Len(less.rest) : j < k => j + 1 < k + 1
      /\ \A j \in 1 .. Len(less.rest) : 1 < j + 1
      /\ \A j \in 1 .. Len(top.rest) : j # 1 => /\ j - 1 \in 1 .. Len(less.rest)
                                                /\ less.rest[j - 1] = top.rest[j]
  <2>1. Len(less.rest) = Len(top.rest) - 1
    BY <1>3, <1>4
  <2>2. \A j \in 1 .. Len(less.rest) : j + 1 \in 1 .. Len(top.rest) /\ j \in 1 .. Len(top.rest) - 1
    BY <1>3, <2>1
  <2>3. \A j \in 1 .. Len(top.rest) : j # 1 => /\ j - 1 \in 1 .. Len(top.rest) - 1
                                               /\ (j - 1) + 1 = j
    BY <1>3
  <2> QED
    BY <1>3, <1>4, <2>1, <2>2, <2>3
<1>9. FrameFits(m, top)
  BY <1>1, <1>2 DEF Built, StackFits
<1>10. FrameFits(m, less)
  BY <1>4, <1>8, <1>9 DEF FrameFits
<1>11. StackFits(s)
  BY <1>1, <1>5, <1>7, <1>10 DEF Built, StackFits
<1>12. ASSUME NEW q \in ToCome(s)
       PROVE  /\ q \in ToCome(hierStack)
              /\ \/ \E j \in 1 .. Len(top.rest) : j > 1 /\ q = top.rest[j]
                 \/ \E i \in 1 .. m - 1 : \E j \in 1 .. Len(hierStack[i].rest) : q = hierStack[i].rest[j]
  <2>1. PICK i \in 1 .. m : \E j \in 1 .. Len(s[i].rest) : q = s[i].rest[j]
    BY <1>5, <1>12 DEF ToCome
  <2>2. PICK j \in 1 .. Len(s[i].rest) : q = s[i].rest[j]
    BY <2>1
  <2>3. q \in hierarchy
    BY <1>12 DEF ToCome
  <2>4. CASE i = m
    <3>1. j \in 1 .. Len(less.rest) /\ q = less.rest[j]
      BY <1>5, <2>2, <2>4
    <3>2. j + 1 \in 1 .. Len(top.rest) /\ q = top.rest[j + 1] /\ j + 1 > 1
      BY <1>8, <3>1
    <3>3. q \in ToCome(hierStack)
      BY <1>2, <2>3, <3>2 DEF ToCome
    <3> QED
      BY <3>2, <3>3
  <2>5. CASE i # m
    <3>1. i \in 1 .. m - 1 /\ s[i] = hierStack[i]
      BY <1>5, <1>7, <2>5
    <3>2. q \in ToCome(hierStack)
      BY <1>2, <2>2, <2>3, <3>1 DEF ToCome
    <3> QED
      BY <2>2, <3>1, <3>2
  <2> QED
    BY <2>4, <2>5
<1>13. ASSUME NEW q \in ToCome(hierStack), q # c
       PROVE  q \in ToCome(s)
  <2>1. PICK i \in 1 .. m : \E j \in 1 .. Len(hierStack[i].rest) : q = hierStack[i].rest[j]
    BY <1>13 DEF ToCome
  <2>2. PICK j \in 1 .. Len(hierStack[i].rest) : q = hierStack[i].rest[j]
    BY <2>1
  <2>3. q \in hierarchy
    BY <1>13 DEF ToCome
  <2>4. CASE i = m
    <3>1. j \in 1 .. Len(top.rest) /\ q = top.rest[j]
      BY <1>2, <2>2, <2>4
    <3>2. j # 1
      BY <1>3, <1>13, <3>1 DEF c
    <3>3. j - 1 \in 1 .. Len(less.rest) /\ less.rest[j - 1] = q
      BY <1>8, <3>1, <3>2
    <3> QED
      BY <1>2, <1>5, <2>3, <3>3 DEF ToCome
  <2>5. CASE i # m
    <3>1. i \in 1 .. m - 1 /\ s[i] = hierStack[i]
      BY <1>5, <1>7, <2>5
    <3> QED
      BY <1>5, <2>1, <2>2, <2>3, <3>1 DEF ToCome
  <2> QED
    BY <2>4, <2>5
<1>14. ASSUME NEW q \in ToCome(s)
       PROVE  InOrder(c, q)
  <2>1. CASE \E j \in 1 .. Len(top.rest) : j > 1 /\ q = top.rest[j]
    BY <1>3, <1>9, <2>1 DEF FrameFits, c
  <2>2. CASE \E i \in 1 .. m - 1 : \E j \in 1 .. Len(hierStack[i].rest) : q = hierStack[i].rest[j]
    <3>0. PICK i \in 1 .. m - 1 : \E j \in 1 .. Len(hierStack[i].rest) : q = hierStack[i].rest[j]
      BY <2>2
    <3>1. PICK j \in 1 .. Len(hierStack[i].rest) : q = hierStack[i].rest[j]
      BY <3>0
    <3>2. i \in 1 .. m /\ i < m /\ i \in Nat
      BY <1>2, <3>1
    <3>3. FrameFits(i, hierStack[i])
      BY <1>1, <3>2 DEF Built, StackFits
    <3>4. HasParent(q) /\ ParentPath(q) = hierStack[i].path /\ Len(hierStack[i].path) = Len(hierOpts.root) + i - 1
      BY <3>1, <3>3 DEF FrameFits
    <3>5. q \in Paths /\ c \in Paths /\ Len(q) \in Nat /\ Len(hierOpts.root) \in Nat
      <4>1. hierarchy \in SUBSET Paths /\ hierOpts.root \in hierarchy
        BY <1>1 DEF HierTypes
      <4>2. q \in hierarchy
        BY <1>12 DEF ToCome
      <4>3. q \in Paths /\ c \in Paths /\ hierOpts.root \in Paths
        BY <1>6, <4>1, <4>2
      <4>4. \A p \in Paths : Len(p) \in Nat
        BY DEF Paths
      <4> QED
        BY <4>3, <4>4
    <3>6. Len(q) < Len(c)
      <4>1. Len(ParentPath(q)) = Len(q) - 1
        BY <3>4, <3>5, ParentIs
      <4> QED
        BY <1>2, <1>6, <3>2, <3>4, <3>5, <4>1
    <3>7. InOrder(top.path, q)
      BY <1>1, <1>9, <1>12 DEF Built, Ahead, FrameFits
    <3> QED
      BY <1>6, <3>5, <3>6, <3>7, ChildBefore
  <2> QED
    BY <1>12, <2>1, <2>2
<1>15. Called(s, c)
  <2>1. Ahead(s) /\ \A t \in ShownPaths : InOrder(t, c)
    BY <1>1, <1>6, <1>12 DEF Built, Ahead
  <2>2. /\ ~truncated /\ hierTree # <<>> /\ \A q \in Told : Len(q) = Deepest
        /\ Len(hierTree) < hierOpts.max
    <3>1. Len(hierTree) \in Nat /\ hierOpts.max \in Nat
      BY <1>1 DEF HierTypes
    <3> QED
      BY <1>1, <3>1 DEF Built, CutFits
  <2>3. Covered(ToCome(s) \cup {c})
    BY <1>1, <1>13, <2>2 DEF Built, Covered
  <2> QED
    BY <1>1, <1>5, <1>6, <1>11, <1>14, <2>1, <2>2, <2>3 DEF Called, Built
<1> QED
  BY <1>1, <1>15, BuildKeeps

LEMMA HierStepInv == HierInv /\ [HierNext]_hierVars => HierInv'
<1> SUFFICES ASSUME HierInv, [HierNext]_hierVars
             PROVE  HierInv'
  OBVIOUS
<1>1. CASE HierChild
  BY <1>1, HierChildFull, HierChildBuilds
<1>2. CASE UNCHANGED hierVars
  <2>1. /\ UNCHANGED <<hierPhase, hierarchy, hierOpts, hierStack, hierTree, hierStops, truncated>>
        /\ ShownPaths' = ShownPaths /\ All' = All /\ Told' = Told /\ Deepest' = Deepest /\ Frames' = Frames
        /\ (ToCome(hierStack))' = ToCome(hierStack)
    BY <1>2 DEF hierVars, ShownPaths, All, Told, Deepest, ToCome, Frames
  <2>2. HierTypes' /\ (Unbuilt <=> Unbuilt')
    BY <2>1 DEF HierInv, HierTypes, Unbuilt
  <2>3. Built => Built'
    BY <2>1 DEF Built, StackFits, FrameFits, TreeFits, Ahead, Covered, CutFits
  <2> QED
    BY <2>1, <2>2, <2>3 DEF HierInv
<1> QED
  BY <1>1, <1>2, HierAskKeeps, HierStartKeeps, HierReturnKeeps, HierDoneKeeps DEF HierNext

(* Whatever the hierarchy, the root, the depth and the number of nodes     *)
(* asked for: `hier` prints the nodes below the root in their order, tells *)
(* where it cut, and says `truncated` exactly if nodes are missing for     *)
(* their number; and each instance is below exactly one root.              *)
THEOREM TreesAreExact == HierSpec => []HierarchyExact
<1>1. HierInit => HierInv
  BY HierInitInv
<1>2. HierInv /\ [HierNext]_hierVars => HierInv'
  BY HierStepInv
<1>3. HierInv => HierarchyExact
  BY InvIsExact
<1> QED
  BY <1>1, <1>2, <1>3, PTL DEF HierSpec

---------------------------------------------------------------------------
(* The arguments: what has been read of them.                              *)

Words == Seq(STRING)
Valued(cmd) == Options[cmd] \ Flags
Vals == STRING \cup Int \cup BOOLEAN
Suits(o, v) ==
  /\ o \in Patterns => v \notin BadPatterns
  /\ o = "--cone-level" => v \in 1 .. Word \div 2 - 1
Tables(cmd) == UNION {[D -> Vals] : D \in SUBSET Options[cmd]}
ReadStates(cmd, serve) ==
  {s \in [status : {"ok", "error", "help"}, open : {NoOption} \cup Valued(cmd), opts : Tables(cmd)] :
     /\ \A o \in DOMAIN s.opts : Suits(o, s.opts[o])
     /\ serve => s.open # "--db" /\ "--db" \notin DOMAIN s.opts}

LEMMA OptionsAre ==
    ASSUME NEW cmd \in DOMAIN Options
    PROVE  /\ "--help" \notin Options[cmd] /\ NoOption \notin Options[cmd] /\ NoOption \notin Flags
           /\ Required[cmd] \in SUBSET Options[cmd]
<1>1. cmd \in {"trace", "find", "hier", "whereis"}
  BY DEF Options
<1>2. CASE cmd = "trace"
  BY <1>2 DEF Options, Patterns, Required, Flags, NoOption
<1>3. CASE cmd = "find"
  BY <1>3 DEF Options, Required, Flags, NoOption
<1>4. CASE cmd = "hier"
  BY <1>4 DEF Options, Required, Flags, NoOption
<1>5. CASE cmd = "whereis"
  BY <1>5 DEF Options, Required, Flags, NoOption
<1> QED
  BY <1>1, <1>2, <1>3, <1>4, <1>5

LEMMA ValuesSuit ==
    ASSUME NEW o, NEW w \in STRING, NEW v \in Value(o, w)
    PROVE  v \in Vals /\ Suits(o, v)
<1>1. /\ Word \in Nat \ {0}
      /\ \A x \in DOMAIN Numeral : Numeral[x] \in Int
  BY ArgsAssumption
<1>2. CASE o \in Counts
  <2>1. PICK k \in Numbers(w, 1 - Word .. Word - 1) : v = k % Word
    BY <1>2 DEF Value, ParseUnsignedCliValue
  <2>2. k \in Int
    BY <1>1 DEF Numbers
  <2>3. v \in Int
    BY <1>1, <2>1, <2>2
  <2>4. o \notin Patterns /\ o # "--cone-level"
    BY <1>2 DEF Counts, Patterns
  <2> QED
    BY <2>3, <2>4 DEF Vals, Suits
<1>3. CASE o = "--cone-level"
  <2>1. v \in Numbers(w, 1 .. Word \div 2 - 1)
    BY <1>3 DEF Value, Counts
  <2>2. v \in 1 .. Word \div 2 - 1 /\ v \in Int
    BY <1>1, <2>1 DEF Numbers
  <2>3. o \notin Patterns
    BY <1>3 DEF Patterns
  <2> QED
    BY <2>2, <2>3 DEF Vals, Suits
<1>4. CASE o \in Patterns
  <2>1. v = w /\ w \notin BadPatterns
    BY <1>4 DEF Value, Counts, Patterns, CompileUserRegex
  <2>2. o # "--cone-level"
    BY <1>4 DEF Patterns
  <2> QED
    BY <2>1, <2>2 DEF Vals, Suits
<1>5. CASE o \notin Counts \cup Patterns /\ o # "--cone-level"
  <2>1. v = w
    BY <1>5 DEF Value, ParseOutputFormat
  <2> QED
    BY <1>5, <2>1 DEF Vals, Suits
<1> QED
  BY <1>2, <1>3, <1>4, <1>5

LEMMA SetKeeps ==
    ASSUME NEW cmd \in DOMAIN Options, NEW serve \in BOOLEAN, NEW s \in ReadStates(cmd, serve),
           NEW o \in Options[cmd], NEW v \in Vals, Suits(o, v), serve => o # "--db"
    PROVE  /\ Set(s, o, v) \in ReadStates(cmd, serve)
           /\ Set(s, o, v).status = s.status /\ Set(s, o, v).open = NoOption
           /\ DOMAIN Set(s, o, v).opts = DOMAIN s.opts \cup {o}
           /\ Set(s, o, v).opts[o] = v
           /\ \A x \in DOMAIN s.opts \ {o} : Set(s, o, v).opts[x] = s.opts[x]
<1> DEFINE D == DOMAIN s.opts \cup {o}
           table == [x \in D |-> IF x = o THEN v ELSE s.opts[x]]
<1>1. /\ s \in [status : {"ok", "error", "help"}, open : {NoOption} \cup Valued(cmd), opts : Tables(cmd)]
      /\ \A x \in DOMAIN s.opts : Suits(x, s.opts[x])
      /\ serve => "--db" \notin DOMAIN s.opts
  BY DEF ReadStates
<1>2. Set(s, o, v) = [status |-> s.status, open |-> NoOption, opts |-> table]
  BY DEF Set, Reading
<1>3. PICK E \in SUBSET Options[cmd] : s.opts \in [E -> Vals]
  BY <1>1 DEF Tables
<1>4. table \in [D -> Vals] /\ D \in SUBSET Options[cmd]
  <2>1. \A x \in D : (IF x = o THEN v ELSE s.opts[x]) \in Vals
    BY <1>3
  <2>2. D \in SUBSET Options[cmd]
    BY <1>3
  <2> HIDE DEF D
  <2> QED
    BY <2>1, <2>2
<1>5. table \in Tables(cmd)
  BY <1>4 DEF Tables
<1>6. /\ \A x \in D : Suits(x, table[x])
      /\ serve => "--db" \notin D
  BY <1>1
<1>7. DOMAIN table = D
  OBVIOUS
<1>8. Set(s, o, v) \in ReadStates(cmd, serve)
  <2> DEFINE r == [status |-> s.status, open |-> NoOption, opts |-> table]
  <2> HIDE DEF table, D
  <2>1. r \in [status : {"ok", "error", "help"}, open : {NoOption} \cup Valued(cmd), opts : Tables(cmd)]
    BY <1>1, <1>5
  <2>2. r.open = NoOption /\ r.opts = table /\ NoOption # "--db"
    BY DEF NoOption
  <2> HIDE DEF r
  <2>3. r \in ReadStates(cmd, serve)
    BY <1>6, <1>7, <2>1, <2>2 DEF ReadStates
  <2> QED
    BY <1>2, <2>3 DEF r
<1>9. Set(s, o, v).status = s.status /\ Set(s, o, v).open = NoOption /\ Set(s, o, v).opts = table
  BY DEF Set, Reading
<1>10. table[o] = v /\ \A x \in DOMAIN s.opts \ {o} : table[x] = s.opts[x]
  OBVIOUS
<1> HIDE DEF table
<1> QED
  BY <1>7, <1>8, <1>9, <1>10

LEMMA ReadWordKeeps ==
    ASSUME NEW cmd \in DOMAIN Options, NEW serve \in BOOLEAN, NEW s \in ReadStates(cmd, serve), NEW w \in STRING
    PROVE  ReadWord(cmd, serve, s, w) \in ReadStates(cmd, serve)
<1>1. /\ s \in [status : {"ok", "error", "help"}, open : {NoOption} \cup Valued(cmd), opts : Tables(cmd)]
      /\ \A o \in DOMAIN s.opts : Suits(o, s.opts[o])
      /\ serve => s.open # "--db" /\ "--db" \notin DOMAIN s.opts
  BY DEF ReadStates
<1>2. Failed(s) \in ReadStates(cmd, serve) /\ (s.open = NoOption => Reading("help", NoOption, s.opts) \in ReadStates(cmd, serve))
  BY <1>1 DEF Failed, Reading, ReadStates
<1>3. CASE s.status # "ok"
  BY <1>3 DEF ReadWord
<1>4. CASE s.status = "ok" /\ s.open # NoOption
  <2>1. s.open \in Valued(cmd) /\ s.open \in Options[cmd]
    BY <1>1, <1>4, OptionsAre DEF Valued
  <2>2. CASE Value(s.open, w) = {}
    BY <1>2, <1>4, <2>2 DEF ReadWord
  <2>3. CASE Value(s.open, w) # {}
    <3> DEFINE v == CHOOSE x \in Value(s.open, w) : TRUE
    <3>1. v \in Value(s.open, w)
      BY <2>3
    <3> HIDE DEF v
    <3>2. v \in Vals /\ Suits(s.open, v)
      BY <2>1, <3>1, ValuesSuit
    <3>3. Set(s, s.open, v) \in ReadStates(cmd, serve)
      BY <1>1, <2>1, <3>2, SetKeeps
    <3> QED
      BY <1>4, <2>3, <3>3 DEF ReadWord, v
  <2> QED
    BY <2>2, <2>3
<1>5. CASE s.status = "ok" /\ s.open = NoOption
  <2>1. CASE w = "--help" \/ w \notin Options[cmd] \/ (w = "--db" /\ serve)
    BY <1>2, <1>5, <2>1 DEF ReadWord
  <2>2. CASE w # "--help" /\ w \in Options[cmd] /\ ~(w = "--db" /\ serve) /\ w \in Flags
    <3>1. TRUE \in Vals /\ Suits(w, TRUE)
      BY <2>2 DEF Vals, Suits, Flags, Patterns
    <3>2. Set(s, w, TRUE) \in ReadStates(cmd, serve)
      BY <2>2, <3>1, SetKeeps
    <3> QED
      BY <1>5, <2>2, <3>2 DEF ReadWord
  <2>3. CASE w # "--help" /\ w \in Options[cmd] /\ ~(w = "--db" /\ serve) /\ w \notin Flags
    <3>1. Reading("ok", w, s.opts) \in ReadStates(cmd, serve)
      BY <1>1, <2>3 DEF ReadStates, Valued, Reading
    <3> QED
      BY <1>5, <2>3, <3>1 DEF ReadWord
  <2> QED
    BY <2>1, <2>2, <2>3
<1> QED
  BY <1>1, <1>3, <1>4, <1>5

(* Reading a list of words, one after the other.                           *)
Reads(a, cmd, serve, first, words) ==
  /\ a[0] = first /\ a[Len(words)] = ReadWords(cmd, serve, first, words)
  /\ \A i \in 1 .. Len(words) : a[i] = ReadWord(cmd, serve, a[i - 1], words[i])
  /\ \A i \in 0 .. Len(words) : a[i] \in ReadStates(cmd, serve)

LEMMA ReadsExist ==
    ASSUME NEW cmd \in DOMAIN Options, NEW serve \in BOOLEAN, NEW first \in ReadStates(cmd, serve),
           NEW words \in Words
    PROVE  \E a : Reads(a, cmd, serve, first, words)
<1> DEFINE m == Len(words)
           R == ReadStates(cmd, serve)
           J == [i \in 0 .. m |-> R]
           G == [x \in (1 .. m) \X R |-> ReadWord(cmd, serve, x[2], words[x[1]])]
           after == CHOOSE f : f = [i \in 0 .. m |-> IF i = 0 THEN first ELSE ReadWord(cmd, serve, f[i - 1], words[i])]
<1>1. m \in Nat /\ \A i \in 1 .. m : words[i] \in STRING
  BY DEF Words
<1>2. ReadWords(cmd, serve, first, words) = after[m]
  BY DEF ReadWords
<1>3. \A i \in 1 .. m : \A s \in R : ReadWord(cmd, serve, s, words[i]) \in R
  BY <1>1, ReadWordKeeps
<1>4. \A i \in 1 .. m : \A s \in R : G[<<i, s>>] = ReadWord(cmd, serve, s, words[i])
  OBVIOUS
<1> HIDE DEF R, G, m
<1>5. PICK f : InSteps(f, m, first, G, J)
  <2>1. J \in [0 .. m -> SUBSET R] /\ first \in J[0]
    BY <1>1 DEF R
  <2>2. \A i \in 1 .. m : \A s \in J[i - 1] : G[<<i, s>>] \in J[i]
    <3> SUFFICES ASSUME NEW i \in 1 .. m, NEW s \in J[i - 1] PROVE G[<<i, s>>] \in J[i]
      OBVIOUS
    <3>1. i - 1 \in 0 .. m /\ i \in 0 .. m
      BY <1>1
    <3> QED
      BY <1>3, <1>4, <3>1
  <2> HIDE DEF J
  <2> QED
    BY <1>1, <2>1, <2>2, StepsInside
<1>6. f = [i \in 0 .. m |-> IF i = 0 THEN first ELSE ReadWord(cmd, serve, f[i - 1], words[i])]
  <2>1. ASSUME NEW i \in 0 .. m, i # 0
        PROVE  G[<<i, f[i - 1]>>] = ReadWord(cmd, serve, f[i - 1], words[i])
    <3>1. i - 1 \in 0 .. m /\ i \in 1 .. m
      BY <1>1, <2>1
    <3>2. f[i - 1] \in R
      BY <1>5, <3>1 DEF InSteps
    <3> QED
      BY <1>4, <3>1, <3>2
  <2> QED
    BY <1>5, <2>1 DEF InSteps
<1>7. after = [i \in 0 .. m |-> IF i = 0 THEN first ELSE ReadWord(cmd, serve, after[i - 1], words[i])]
  BY <1>6
<1> HIDE DEF after
<1>8. after[0] = first /\ \A i \in 1 .. m : after[i] = ReadWord(cmd, serve, after[i - 1], words[i])
  <2>1. 0 \in 0 .. m /\ \A i \in 1 .. m : i \in 0 .. m /\ i # 0
    BY <1>1
  <2> QED
    BY <1>7, <2>1
<1>9. \A i \in 0 .. m : after[i] \in J[i]
  <2>1. after[0] \in J[0]
    BY <1>1, <1>8 DEF R
  <2>2. ASSUME NEW i \in 1 .. m, after[i - 1] \in J[i - 1] PROVE after[i] \in J[i]
    <3>1. i - 1 \in 0 .. m /\ i \in 0 .. m
      BY <1>1
    <3> QED
      BY <1>3, <1>8, <2>2, <3>1
  <2> HIDE DEF J
  <2> QED
    BY <1>1, <2>1, <2>2, StepwiseIn
<1> QED
  BY <1>2, <1>8, <1>9 DEF Reads, m, R

(* The words of u \o v are read as those of v after those of u.            *)
LEMMA ReadsAppend ==
    ASSUME NEW cmd \in DOMAIN Options, NEW serve \in BOOLEAN, NEW first \in ReadStates(cmd, serve),
           NEW u \in Words, NEW v \in Words
    PROVE  /\ ReadWords(cmd, serve, first, u) \in ReadStates(cmd, serve)
           /\ ReadWords(cmd, serve, first, u \o v) = ReadWords(cmd, serve, ReadWords(cmd, serve, first, u), v)
<1> DEFINE w == u \o v
<1>1. /\ w \in Words /\ Len(u) \in Nat /\ Len(v) \in Nat /\ Len(w) = Len(u) + Len(v)
      /\ \A i \in 1 .. Len(u) : w[i] = u[i]
      /\ \A i \in 1 .. Len(v) : w[Len(u) + i] = v[i]
  BY DEF Words
<1> HIDE DEF w
<1>2. PICK b : Reads(b, cmd, serve, first, u)
  BY ReadsExist
<1>3. b[Len(u)] \in ReadStates(cmd, serve) /\ b[Len(u)] = ReadWords(cmd, serve, first, u)
  BY <1>1, <1>2 DEF Reads
<1>4. PICK c : Reads(c, cmd, serve, b[Len(u)], v)
  BY <1>3, ReadsExist
<1>5. PICK a : Reads(a, cmd, serve, first, w)
  BY <1>1, ReadsExist
<1>6. \A i \in 0 .. Len(u) : a[i] = b[i]
  <2> DEFINE J == [i \in 0 .. Len(u) |-> {b[i]}]
  <2>1. a[0] \in J[0]
    BY <1>1, <1>2, <1>5 DEF Reads
  <2>2. ASSUME NEW i \in 1 .. Len(u), a[i - 1] \in J[i - 1] PROVE a[i] \in J[i]
    <3>1. i - 1 \in 0 .. Len(u) /\ i \in 0 .. Len(u) /\ i \in 1 .. Len(w)
      BY <1>1
    <3>2. a[i - 1] = b[i - 1]
      BY <2>2, <3>1
    <3>3. a[i] = ReadWord(cmd, serve, a[i - 1], w[i]) /\ b[i] = ReadWord(cmd, serve, b[i - 1], u[i])
      BY <1>2, <1>5, <3>1 DEF Reads
    <3> QED
      BY <1>1, <3>1, <3>2, <3>3
  <2> HIDE DEF J
  <2>3. \A i \in 0 .. Len(u) : a[i] \in J[i]
    BY <1>1, <2>1, <2>2, StepwiseIn
  <2> QED
    BY <2>3 DEF J
<1>7. \A i \in 0 .. Len(v) : a[Len(u) + i] = c[i]
  <2> DEFINE J == [i \in 0 .. Len(v) |-> {c[i]}]
             d == [i \in 0 .. Len(v) |-> a[Len(u) + i]]
  <2>1. d[0] \in J[0]
    BY <1>1, <1>4, <1>6 DEF Reads
  <2>2. ASSUME NEW i \in 1 .. Len(v), d[i - 1] \in J[i - 1] PROVE d[i] \in J[i]
    <3>1. /\ i - 1 \in 0 .. Len(v) /\ i \in 0 .. Len(v) /\ Len(u) + i \in 1 .. Len(w)
          /\ (Len(u) + i) - 1 = Len(u) + (i - 1)
      BY <1>1
    <3>2. a[Len(u) + (i - 1)] = c[i - 1]
      BY <2>2, <3>1
    <3>3. a[Len(u) + i] = ReadWord(cmd, serve, a[(Len(u) + i) - 1], w[Len(u) + i]) /\ c[i] = ReadWord(cmd, serve, c[i - 1], v[i])
      BY <1>4, <1>5, <3>1 DEF Reads
    <3> QED
      BY <1>1, <3>1, <3>2, <3>3
  <2>3. \A i \in 0 .. Len(v) : d[i] \in J[i]
    <3> HIDE DEF J, d
    <3> QED
      BY <1>1, <2>1, <2>2, StepwiseIn
  <2> QED
    BY <2>3
<1>8. Len(v) \in 0 .. Len(v)
  BY <1>1
<1> QED
  BY <1>1, <1>3, <1>4, <1>5, <1>7, <1>8 DEF Reads, w

(* An option with what belongs to it is read as a whole.                   *)
Accepted(cmd, serve, g) ==
  /\ g[1] \in Options[cmd] /\ (serve => g[1] # "--db")
  /\ g[1] \notin Flags => Value(g[1], g[2]) # {}
Meant(g) == IF g[1] \in Flags THEN TRUE ELSE CHOOSE v \in Value(g[1], g[2]) : TRUE
Open(s) == s.status = "ok" /\ s.open = NoOption

LEMMA FirstWords ==
    ASSUME NEW cmd \in DOMAIN Options, NEW serve \in BOOLEAN, NEW s \in ReadStates(cmd, serve), NEW g \in Words
    PROVE  /\ g = <<>> => ReadWords(cmd, serve, s, g) = s
           /\ Len(g) = 1 => ReadWords(cmd, serve, s, g) = ReadWord(cmd, serve, s, g[1])
           /\ Len(g) = 2 => ReadWords(cmd, serve, s, g) = ReadWord(cmd, serve, ReadWord(cmd, serve, s, g[1]), g[2])
<1>1. PICK a : Reads(a, cmd, serve, s, g)
  BY ReadsExist
<1>2. CASE g = <<>>
  <2>1. Len(g) = 0
    BY <1>2
  <2> QED
    BY <1>1, <1>2, <2>1 DEF Reads
<1>3. CASE Len(g) = 1
  <2>1. 1 \in 1 .. Len(g) /\ 1 - 1 = 0
    BY <1>3
  <2>2. a[1] = ReadWord(cmd, serve, s, g[1])
    BY <1>1, <2>1 DEF Reads
  <2>3. a[1] = ReadWords(cmd, serve, s, g)
    BY <1>1, <1>3 DEF Reads
  <2> QED
    BY <1>3, <2>2, <2>3
<1>4. CASE Len(g) = 2
  <2>1. 1 \in 1 .. Len(g) /\ 1 - 1 = 0 /\ 2 \in 1 .. Len(g) /\ 2 - 1 = 1
    BY <1>4
  <2>2. a[1] = ReadWord(cmd, serve, s, g[1])
    BY <1>1, <2>1 DEF Reads
  <2>3. a[2] = ReadWord(cmd, serve, a[1], g[2])
    BY <1>1, <2>1 DEF Reads
  <2>4. a[2] = ReadWords(cmd, serve, s, g)
    BY <1>1, <1>4 DEF Reads
  <2> QED
    BY <1>4, <2>2, <2>3, <2>4
<1> QED
  BY <1>2, <1>3, <1>4

LEMMA GroupRead ==
    ASSUME NEW cmd \in DOMAIN Options, NEW serve \in BOOLEAN, NEW s \in ReadStates(cmd, serve),
           NEW g \in Words, Len(g) \in {1, 2}, Complete(cmd, g)
    PROVE  /\ s.status = "error" => ReadWords(cmd, serve, s, g).status = "error"
           /\ Open(s) /\ ~Accepted(cmd, serve, g) => ReadWords(cmd, serve, s, g).status = "error"
           /\ Open(s) /\ Accepted(cmd, serve, g) =>
                /\ Meant(g) \in Vals /\ Suits(g[1], Meant(g)) /\ g[1] \in Options[cmd] /\ (serve => g[1] # "--db")
                /\ ReadWords(cmd, serve, s, g) = Set(s, g[1], Meant(g))
<1> DEFINE r == ReadWords(cmd, serve, s, g)
           w == g[1]
           t == ReadWord(cmd, serve, s, w)
<1>1. Failed(s).status = "error" /\ \A x : Reading("ok", x, s.opts).status = "ok" /\ Reading("ok", x, s.opts).open = x
  BY DEF Failed, Reading
<1>2. /\ Len(g) = 1 => r = t
      /\ Len(g) = 2 => r = ReadWord(cmd, serve, t, g[2])
      /\ w \in STRING /\ (Len(g) = 2 => g[2] \in STRING)
  BY FirstWords DEF Words
<1>3. w # "--help" /\ (Len(g) = 2 <=> w \in Options[cmd] /\ w \notin Flags)
  BY DEF Complete
<1>4. ASSUME NEW x, x.status = "error" PROVE \A y : ReadWord(cmd, serve, x, y) = x
  BY <1>4 DEF ReadWord
<1>5. CASE s.status = "error"
  BY <1>2, <1>4, <1>5 DEF Open
<1>6. CASE Open(s) /\ (w \notin Options[cmd] \/ (w = "--db" /\ serve))
  <2>1. t = Failed(s)
    BY <1>3, <1>6 DEF ReadWord, Open
  <2>2. t.status = "error"
    BY <1>1, <2>1
  <2>3. r.status = "error"
    BY <1>2, <1>4, <2>2
  <2>4. ~Accepted(cmd, serve, g)
    BY <1>6 DEF Accepted
  <2> QED
    BY <1>6, <2>3, <2>4 DEF Open
<1>7. CASE Open(s) /\ w \in Options[cmd] /\ ~(w = "--db" /\ serve) /\ w \in Flags
  <2>1. r = Set(s, w, TRUE) /\ Meant(g) = TRUE
    BY <1>2, <1>3, <1>7 DEF ReadWord, Open, Meant
  <2>2. TRUE \in Vals /\ Suits(w, TRUE)
    BY <1>7 DEF Vals, Suits, Flags, Patterns
  <2>3. Accepted(cmd, serve, g)
    BY <1>7 DEF Accepted
  <2> QED
    BY <1>7, <2>1, <2>2, <2>3 DEF Open
<1>8. CASE Open(s) /\ w \in Options[cmd] /\ ~(w = "--db" /\ serve) /\ w \notin Flags
  <2>1. t = Reading("ok", w, s.opts) /\ Len(g) = 2 /\ w # NoOption
    BY <1>3, <1>8, OptionsAre DEF ReadWord, Open
  <2>2. t.status = "ok" /\ t.open = w /\ t.opts = s.opts
    BY <2>1 DEF Reading
  <2>5. r = ReadWord(cmd, serve, t, g[2])
    BY <1>2, <2>1
  <2> HIDE DEF t, r
  <2>3. CASE Value(w, g[2]) = {}
    <3>1. r = Failed(t)
      BY <2>1, <2>2, <2>3, <2>5 DEF ReadWord
    <3>2. r.status = "error"
      BY <3>1 DEF Failed, Reading
    <3>3. ~Accepted(cmd, serve, g)
      BY <1>8, <2>3 DEF Accepted
    <3> QED
      BY <1>8, <3>2, <3>3 DEF Open, r
  <2>4. CASE Value(w, g[2]) # {}
    <3>1. Meant(g) = CHOOSE v \in Value(w, g[2]) : TRUE
      BY <1>8 DEF Meant
    <3>2. Meant(g) \in Value(w, g[2])
      BY <2>4, <3>1
    <3>3. Meant(g) \in Vals /\ Suits(w, Meant(g))
      BY <1>2, <2>1, <3>2, ValuesSuit
    <3>4. r = Set(t, w, Meant(g))
      BY <2>1, <2>2, <2>4, <2>5, <3>1 DEF ReadWord
    <3>5. t.opts = s.opts /\ t.status = s.status
      BY <1>8, <2>2 DEF Open
    <3>6. Set(t, w, Meant(g)) = Set(s, w, Meant(g))
      BY <3>5 DEF Set
    <3>7. Accepted(cmd, serve, g)
      BY <1>8, <2>4 DEF Accepted
    <3> QED
      BY <1>8, <3>3, <3>4, <3>6, <3>7 DEF Open, r
  <2> QED
    BY <2>3, <2>4
<1>9. CASE s.status # "error" /\ ~Open(s)
  BY <1>9
<1> QED
  BY <1>5, <1>6, <1>7, <1>8, <1>9

---------------------------------------------------------------------------
(* FlattenSeq joins the groups one after the other.                        *)
Joins(d, gs) ==
  /\ d[1] = gs[1] /\ d[Len(gs)] = FlattenSeq(gs)
  /\ \A i \in 1 .. Len(gs) : d[i] \in Words
  /\ \A i \in 2 .. Len(gs) : d[i] = d[i - 1] \o gs[i]

LEMMA JoinsExist ==
    ASSUME NEW gs \in Seq(Words), gs # <<>>
    PROVE  \E d : Joins(d, gs)
<1> DEFINE m == Len(gs)
           J == [i \in 0 .. m - 1 |-> Words]
           G == [x \in (1 .. m - 1) \X Words |-> x[2] \o gs[x[1] + 1]]
           d == CHOOSE f : f = [i \in 1 .. m |-> IF i = 1 THEN gs[i] ELSE f[i - 1] \o gs[i]]
<1>1. m \in Nat \ {0} /\ \A i \in 1 .. m : gs[i] \in Words
  BY DEF Words
<1>2. FlattenSeq(gs) = d[m]
  BY <1>1 DEF FlattenSeq
<1>3. \A u, v \in Words : u \o v \in Words
  BY DEF Words
<1> HIDE DEF Words, m
<1>4. \A i \in 1 .. m - 1 : \A u \in Words : G[<<i, u>>] = u \o gs[i + 1] /\ i + 1 \in 1 .. m
  <2>1. \A i \in 1 .. m - 1 : \A u \in Words : G[<<i, u>>] = u \o gs[i + 1]
    OBVIOUS
  <2>2. \A i \in 1 .. m - 1 : i + 1 \in 1 .. m
    BY <1>1
  <2> QED
    BY <2>1, <2>2
<1> HIDE DEF G
<1>5. PICK f : InSteps(f, m - 1, gs[1], G, J)
  <2>1. J \in [0 .. m - 1 -> SUBSET Words] /\ gs[1] \in J[0] /\ m - 1 \in Nat
    BY <1>1
  <2>2. \A i \in 1 .. m - 1 : \A s \in J[i - 1] : G[<<i, s>>] \in J[i]
    <3> SUFFICES ASSUME NEW i \in 1 .. m - 1, NEW s \in J[i - 1] PROVE G[<<i, s>>] \in J[i]
      OBVIOUS
    <3>1. i - 1 \in 0 .. m - 1 /\ i \in 0 .. m - 1
      BY <1>1
    <3>2. s \in Words /\ J[i] = Words
      BY <3>1
    <3> HIDE DEF J
    <3>3. G[<<i, s>>] = s \o gs[i + 1] /\ gs[i + 1] \in Words
      BY <1>1, <1>4, <3>2
    <3> QED
      BY <1>3, <3>2, <3>3
  <2> HIDE DEF J
  <2> QED
    BY <2>1, <2>2, StepsInside
<1> DEFINE h == [i \in 1 .. m |-> f[i - 1]]
<1>6. h = [i \in 1 .. m |-> IF i = 1 THEN gs[i] ELSE h[i - 1] \o gs[i]]
  <2>1. ASSUME NEW i \in 1 .. m PROVE f[i - 1] = IF i = 1 THEN gs[i] ELSE h[i - 1] \o gs[i]
    <3>1. CASE i = 1
      BY <1>1, <1>5, <3>1 DEF InSteps
    <3>2. CASE i # 1
      <4>1. i - 1 \in 1 .. m - 1 /\ i - 1 \in 0 .. m - 1 /\ (i - 1) - 1 \in 0 .. m - 1 /\ (i - 1) + 1 = i /\ i - 1 \in 1 .. m
        BY <1>1, <3>2
      <4>2. f[i - 1] = G[<<i - 1, f[(i - 1) - 1]>>] /\ f[(i - 1) - 1] \in Words
        BY <1>5, <4>1 DEF InSteps
      <4>3. h[i - 1] = f[(i - 1) - 1]
        BY <4>1
      <4> QED
        BY <1>4, <3>2, <4>1, <4>2, <4>3
    <3> QED
      BY <3>1, <3>2
  <2> QED
    BY <2>1
<1>7. d = [i \in 1 .. m |-> IF i = 1 THEN gs[i] ELSE d[i - 1] \o gs[i]]
  <2> HIDE DEF h
  <2> QED
    BY <1>6
<1> HIDE DEF d
<1>8. d[1] = gs[1] /\ \A i \in 2 .. m : d[i] = d[i - 1] \o gs[i]
  <2>1. 1 \in 1 .. m /\ \A i \in 2 .. m : i \in 1 .. m /\ i # 1
    BY <1>1
  <2> QED
    BY <1>7, <2>1
<1>9. \A i \in 0 .. m - 1 : d[i + 1] \in Words
  <2> DEFINE c == [i \in 0 .. m - 1 |-> d[i + 1]]
  <2>1. c[0] \in J[0] /\ m - 1 \in Nat
    BY <1>1, <1>8
  <2>2. ASSUME NEW i \in 1 .. m - 1, c[i - 1] \in J[i - 1] PROVE c[i] \in J[i]
    <3>1. i - 1 \in 0 .. m - 1 /\ i \in 0 .. m - 1 /\ i + 1 \in 2 .. m /\ i + 1 \in 1 .. m /\ (i + 1) - 1 = i /\ (i - 1) + 1 = i
      BY <1>1
    <3>2. d[i] \in Words
      BY <2>2, <3>1
    <3> QED
      BY <1>1, <1>3, <1>8, <3>1, <3>2
  <2>3. \A i \in 0 .. m - 1 : c[i] \in J[i]
    <3> HIDE DEF c, J
    <3> QED
      BY <2>1, <2>2, StepwiseIn
  <2> QED
    BY <2>3
<1>10. \A i \in 1 .. m : d[i] \in Words
  <2> SUFFICES ASSUME NEW i \in 1 .. m PROVE d[i] \in Words
    OBVIOUS
  <2>1. i - 1 \in 0 .. m - 1 /\ (i - 1) + 1 = i
    BY <1>1
  <2> QED
    BY <1>9, <2>1
<1> QED
  BY <1>2, <1>8, <1>10 DEF Joins, m

(* The words of a call are read group by group.                            *)
Grouped(r, cmd, serve, gs) ==
  /\ r[0] = Unread /\ r[Len(gs)] = ReadWords(cmd, serve, Unread, FlattenSeq(gs))
  /\ \A i \in 0 .. Len(gs) : r[i] \in ReadStates(cmd, serve)
  /\ \A i \in 1 .. Len(gs) : r[i] = ReadWords(cmd, serve, r[i - 1], gs[i])

LEMMA UnreadIs ==
    ASSUME NEW cmd \in DOMAIN Options, NEW serve \in BOOLEAN
    PROVE  Unread \in ReadStates(cmd, serve) /\ Open(Unread) /\ DOMAIN Unread.opts = {}
<1>1. Unread = [status |-> "ok", open |-> NoOption, opts |-> <<>>]
  BY DEF Unread, Reading
<1>2. DOMAIN <<>> = {} /\ <<>> \in Tables(cmd)
  <2>1. DOMAIN <<>> = {} /\ <<>> \in [{} -> Vals]
    OBVIOUS
  <2> QED
    BY <2>1 DEF Tables
<1>3. Unread.status = "ok" /\ Unread.open = NoOption /\ Unread.opts = <<>>
  BY <1>1
<1>4. Unread \in [status : {"ok", "error", "help"}, open : {NoOption} \cup Valued(cmd), opts : Tables(cmd)]
  <2>1. "ok" \in {"ok", "error", "help"} /\ NoOption \in {NoOption} \cup Valued(cmd)
    OBVIOUS
  <2> QED
    BY <1>1, <1>2, <2>1
<1>5. NoOption # "--db"
  BY DEF NoOption
<1> QED
  BY <1>2, <1>3, <1>4, <1>5 DEF ReadStates, Open

LEMMA GroupedExists ==
    ASSUME NEW cmd \in DOMAIN Options, NEW serve \in BOOLEAN, NEW gs \in Seq(Words)
    PROVE  \E r : Grouped(r, cmd, serve, gs)
<1> DEFINE m == Len(gs)
           R == ReadStates(cmd, serve)
           Result(u) == ReadWords(cmd, serve, Unread, u)
<1>1. m \in Nat /\ (\A i \in 1 .. m : gs[i] \in Words) /\ (gs = <<>> <=> m = 0) /\ <<>> \in Words
  BY DEF Words
<1>2. Unread \in R
  BY UnreadIs
<1>3. CASE gs = <<>>
  <2> DEFINE r == [i \in {0} |-> Unread]
  <2>1. FlattenSeq(gs) = <<>>
    BY <1>1, <1>3 DEF FlattenSeq
  <2>2. Result(<<>>) = Unread
    BY <1>1, <1>2, FirstWords
  <2>3. r[0] = Unread
    OBVIOUS
  <2>4. Grouped(r, cmd, serve, gs)
    <3> HIDE DEF r
    <3>1. \A i \in 0 .. 0 : i = 0
      OBVIOUS
    <3>2. ~\E i \in 1 .. 0 : TRUE
      OBVIOUS
    <3> QED
      BY <1>1, <1>2, <1>3, <2>1, <2>2, <2>3, <3>1, <3>2 DEF Grouped
  <2> QED
    BY <2>4
<1>4. CASE gs # <<>>
  <2>1. PICK d : Joins(d, gs)
    BY <1>4, JoinsExist
  <2> DEFINE r == [i \in 0 .. m |-> IF i = 0 THEN Unread ELSE Result(d[i])]
  <2>2. r[0] = Unread /\ \A i \in 1 .. m : r[i] = Result(d[i])
    BY <1>1
  <2>3. \A i \in 1 .. m : d[i] \in Words
    BY <2>1 DEF Joins
  <2> HIDE DEF r
  <2>4. \A u \in Words : Result(u) \in R
    BY <1>1, <1>2, ReadsAppend
  <2>5. ASSUME NEW i \in 1 .. m PROVE r[i] = ReadWords(cmd, serve, r[i - 1], gs[i])
    <3>1. CASE i = 1
      BY <1>1, <2>1, <2>2, <3>1 DEF Joins
    <3>2. CASE i # 1
      <4>1. i \in 2 .. m /\ i - 1 \in 1 .. m
        BY <1>1, <3>2
      <4>2. d[i] = d[i - 1] \o gs[i]
        BY <2>1, <4>1 DEF Joins
      <4>3. Result(d[i - 1] \o gs[i]) = ReadWords(cmd, serve, Result(d[i - 1]), gs[i])
        BY <1>1, <1>2, <2>3, <4>1, ReadsAppend
      <4> QED
        BY <2>2, <4>1, <4>2, <4>3
    <3> QED
      BY <3>1, <3>2
  <2>6. ASSUME NEW i \in 0 .. m PROVE r[i] \in R
    <3>1. i = 0 \/ i \in 1 .. m
      BY <1>1
    <3> QED
      BY <1>2, <2>2, <2>3, <2>4, <3>1
  <2>7. r[m] = Result(FlattenSeq(gs))
    <3>1. m \in 1 .. m
      BY <1>1, <1>4
    <3> QED
      BY <2>1, <2>2, <3>1 DEF Joins
  <2>8. Grouped(r, cmd, serve, gs)
    BY <2>2, <2>5, <2>6, <2>7 DEF Grouped
  <2> QED
    BY <2>8
<1> QED
  BY <1>3, <1>4

(* What complete options mean, when none is repeated.                      *)
Complements(cmd, gs) ==
  /\ gs \in Seq(Words) /\ \A i \in 1 .. Len(gs) : Len(gs[i]) \in {1, 2} /\ Complete(cmd, gs[i])
  /\ \A i, j \in 1 .. Len(gs) : gs[i][1] = gs[j][1] => i = j
MeansFirst(x, cmd, serve, gs, k) ==
  /\ (\A i \in 1 .. k : Accepted(cmd, serve, gs[i])) =>
       /\ Open(x) /\ DOMAIN x.opts = {gs[i][1] : i \in 1 .. k}
       /\ \A i \in 1 .. k : x.opts[gs[i][1]] = Meant(gs[i])
  /\ (\E i \in 1 .. k : ~Accepted(cmd, serve, gs[i])) => x.status = "error"

LEMMA MeaningIs ==
    ASSUME NEW cmd \in DOMAIN Options, NEW serve \in BOOLEAN, NEW gs, Complements(cmd, gs)
    PROVE  /\ ReadWords(cmd, serve, Unread, FlattenSeq(gs)) \in ReadStates(cmd, serve)
           /\ MeansFirst(ReadWords(cmd, serve, Unread, FlattenSeq(gs)), cmd, serve, gs, Len(gs))
<1> DEFINE m == Len(gs)
           R == ReadStates(cmd, serve)
           J == [k \in 0 .. m |-> {x \in R : MeansFirst(x, cmd, serve, gs, k)}]
<1>1. /\ m \in Nat /\ gs \in Seq(Words)
      /\ \A i \in 1 .. m : gs[i] \in Words /\ Len(gs[i]) \in {1, 2} /\ Complete(cmd, gs[i])
      /\ \A i, j \in 1 .. m : gs[i][1] = gs[j][1] => i = j
  BY DEF Complements
<1>2. PICK r : Grouped(r, cmd, serve, gs)
  BY <1>1, GroupedExists
<1>3. r[0] \in J[0]
  <2>1. r[0] = Unread /\ r[0] \in R
    BY <1>1, <1>2, UnreadIs DEF Grouped
  <2>2. MeansFirst(Unread, cmd, serve, gs, 0)
    BY UnreadIs DEF MeansFirst
  <2> QED
    BY <1>1, <2>1, <2>2
<1>4. ASSUME NEW k \in 1 .. m, r[k - 1] \in J[k - 1] PROVE r[k] \in J[k]
  <2> DEFINE x == r[k - 1]
             g == gs[k]
  <2>1. k - 1 \in 0 .. m /\ k \in 0 .. m /\ 1 .. k = (1 .. k - 1) \cup {k} /\ k \notin 1 .. k - 1
    BY <1>1
  <2>2. x \in R /\ MeansFirst(x, cmd, serve, gs, k - 1)
    BY <1>4, <2>1
  <2>3. r[k] = ReadWords(cmd, serve, x, g) /\ r[k] \in R
    BY <1>2, <2>1 DEF Grouped
  <2>4. g \in Words /\ Len(g) \in {1, 2} /\ Complete(cmd, g)
    BY <1>1
  <2> HIDE DEF J, x
  <2>5. CASE \A i \in 1 .. k : Accepted(cmd, serve, gs[i])
    <3>1. /\ Open(x) /\ DOMAIN x.opts = {gs[i][1] : i \in 1 .. k - 1}
          /\ \A i \in 1 .. k - 1 : x.opts[gs[i][1]] = Meant(gs[i])
      BY <2>1, <2>2, <2>5 DEF MeansFirst
    <3>2. Accepted(cmd, serve, g)
      BY <2>1, <2>5
    <3>3. /\ Meant(g) \in Vals /\ Suits(g[1], Meant(g)) /\ g[1] \in Options[cmd] /\ (serve => g[1] # "--db")
          /\ ReadWords(cmd, serve, x, g) = Set(x, g[1], Meant(g))
      BY <2>2, <2>4, <3>1, <3>2, GroupRead
    <3>4. /\ r[k].status = x.status /\ r[k].open = NoOption
          /\ DOMAIN r[k].opts = DOMAIN x.opts \cup {g[1]}
          /\ r[k].opts[g[1]] = Meant(g)
          /\ \A o \in DOMAIN x.opts \ {g[1]} : r[k].opts[o] = x.opts[o]
      BY <2>2, <2>3, <3>3, SetKeeps
    <3>5. Open(r[k])
      BY <3>1, <3>4 DEF Open
    <3>6. DOMAIN r[k].opts = {gs[i][1] : i \in 1 .. k}
      BY <2>1, <3>1, <3>4
    <3>7. ASSUME NEW i \in 1 .. k PROVE r[k].opts[gs[i][1]] = Meant(gs[i])
      <4>1. CASE i = k
        BY <3>4, <4>1
      <4>2. CASE i # k
        <5>1. i \in 1 .. k - 1 /\ i \in 1 .. m
          BY <2>1, <4>2
        <5>2. gs[i][1] # g[1] /\ gs[i][1] \in DOMAIN x.opts
          BY <1>1, <3>1, <4>2, <5>1
        <5> QED
          BY <3>1, <3>4, <5>1, <5>2
      <4> QED
        BY <4>1, <4>2
    <3>8. MeansFirst(r[k], cmd, serve, gs, k)
      BY <2>5, <3>5, <3>6, <3>7 DEF MeansFirst
    <3> QED
      BY <2>1, <2>3, <3>8 DEF J
  <2>6. CASE \E i \in 1 .. k - 1 : ~Accepted(cmd, serve, gs[i])
    <3>1. x.status = "error"
      BY <2>2, <2>6 DEF MeansFirst
    <3>2. r[k].status = "error"
      BY <2>2, <2>3, <2>4, <3>1, GroupRead
    <3>3. MeansFirst(r[k], cmd, serve, gs, k)
      BY <2>1, <2>6, <3>2 DEF MeansFirst
    <3> QED
      BY <2>1, <2>3, <3>3 DEF J
  <2>7. CASE (\A i \in 1 .. k - 1 : Accepted(cmd, serve, gs[i])) /\ ~Accepted(cmd, serve, g)
    <3>1. Open(x)
      BY <2>2, <2>7 DEF MeansFirst
    <3>2. r[k].status = "error"
      BY <2>2, <2>3, <2>4, <2>7, <3>1, GroupRead
    <3>3. MeansFirst(r[k], cmd, serve, gs, k)
      BY <2>1, <2>7, <3>2 DEF MeansFirst
    <3> QED
      BY <2>1, <2>3, <3>3 DEF J
  <2> QED
    BY <2>1, <2>5, <2>6, <2>7
<1>5. r[m] \in J[m]
  <2> HIDE DEF J
  <2>1. \A i \in 0 .. m : r[i] \in J[i]
    BY <1>1, <1>3, <1>4, StepwiseIn
  <2>2. m \in 0 .. m
    BY <1>1
  <2> QED
    BY <2>1, <2>2
<1>6. m \in 0 .. m
  BY <1>1
<1> QED
  BY <1>2, <1>5, <1>6 DEF Grouped

LEMMA SameReading ==
    ASSUME NEW cmd, NEW serve, NEW x \in ReadStates(cmd, serve), NEW y \in ReadStates(cmd, serve),
           Open(x), Open(y), DOMAIN x.opts = DOMAIN y.opts, \A o \in DOMAIN x.opts : x.opts[o] = y.opts[o]
    PROVE  x = y
<1>1. /\ x \in [status : {"ok", "error", "help"}, open : {NoOption} \cup Valued(cmd), opts : Tables(cmd)]
      /\ y \in [status : {"ok", "error", "help"}, open : {NoOption} \cup Valued(cmd), opts : Tables(cmd)]
  BY DEF ReadStates
<1>2. PICK D \in SUBSET Options[cmd] : x.opts \in [D -> Vals]
  BY <1>1 DEF Tables
<1>3. PICK E \in SUBSET Options[cmd] : y.opts \in [E -> Vals]
  BY <1>1 DEF Tables
<1>4. x.opts = y.opts
  BY <1>2, <1>3
<1> QED
  BY <1>1, <1>4 DEF Open

LEMMA OrderLost ==
    ASSUME NEW cmd \in DOMAIN Options, NEW serve \in BOOLEAN, NEW gs, Complements(cmd, gs),
           NEW f \in Injection(DOMAIN gs, DOMAIN gs), NEW hs, hs = [i \in DOMAIN gs |-> gs[f[i]]]
    PROVE  /\ ParseArgs(cmd, serve, FlattenSeq(hs)).status = ParseArgs(cmd, serve, FlattenSeq(gs)).status
           /\ ParseArgs(cmd, serve, FlattenSeq(gs)).status = "ok" =>
                ParseArgs(cmd, serve, FlattenSeq(hs)).opts = ParseArgs(cmd, serve, FlattenSeq(gs)).opts
<1> DEFINE m == Len(gs)
           x == ReadWords(cmd, serve, Unread, FlattenSeq(gs))
           y == ReadWords(cmd, serve, Unread, FlattenSeq(hs))
<1>1. /\ m \in Nat /\ gs \in Seq(Words) /\ DOMAIN gs = 1 .. m
      /\ \A i \in 1 .. m : gs[i] \in Words /\ Len(gs[i]) \in {1, 2} /\ Complete(cmd, gs[i])
      /\ \A i, j \in 1 .. m : gs[i][1] = gs[j][1] => i = j
  BY DEF Complements
<1>2. /\ \A i \in 1 .. m : f[i] \in 1 .. m
      /\ \A i, j \in 1 .. m : f[i] = f[j] => i = j
  BY <1>1 DEF Injection, IsInjective
<1>3. \A j \in 1 .. m : \E i \in 1 .. m : f[i] = j
  <2>1. IsFiniteSet(1 .. m)
    BY <1>1, FS_Interval
  <2>2. f \in Surjection(1 .. m, 1 .. m)
    BY <1>1, <2>1, FS_Injection
  <2> QED
    BY <2>2 DEF Surjection
<1>4. hs \in Seq(Words) /\ Len(hs) = m /\ \A i \in 1 .. m : hs[i] = gs[f[i]]
  BY <1>1, <1>2
<1>5. Complements(cmd, hs)
  BY <1>1, <1>2, <1>4 DEF Complements
<1>6. /\ x \in ReadStates(cmd, serve) /\ MeansFirst(x, cmd, serve, gs, m)
      /\ y \in ReadStates(cmd, serve) /\ MeansFirst(y, cmd, serve, hs, m)
  BY <1>4, <1>5, MeaningIs
<1> HIDE DEF x, y, m
<1>7. CASE \A i \in 1 .. m : Accepted(cmd, serve, gs[i])
  <2>1. \A i \in 1 .. m : Accepted(cmd, serve, hs[i])
    BY <1>2, <1>4, <1>7
  <2>2. /\ Open(x) /\ DOMAIN x.opts = {gs[i][1] : i \in 1 .. m}
        /\ \A i \in 1 .. m : x.opts[gs[i][1]] = Meant(gs[i])
    BY <1>6, <1>7 DEF MeansFirst
  <2>3. /\ Open(y) /\ DOMAIN y.opts = {hs[i][1] : i \in 1 .. m}
        /\ \A i \in 1 .. m : y.opts[hs[i][1]] = Meant(hs[i])
    BY <1>6, <2>1 DEF MeansFirst
  <2>4. DOMAIN x.opts = DOMAIN y.opts
    <3>1. ASSUME NEW j \in 1 .. m PROVE \E i \in 1 .. m : gs[j][1] = hs[i][1]
      <4>1. PICK i \in 1 .. m : f[i] = j
        BY <1>3
      <4>2. hs[i] = gs[j]
        BY <1>4, <4>1
      <4> QED
        BY <4>2
    <3>2. ASSUME NEW i \in 1 .. m PROVE \E j \in 1 .. m : hs[i][1] = gs[j][1]
      BY <1>2, <1>4
    <3>3. ASSUME NEW o \in DOMAIN x.opts PROVE o \in DOMAIN y.opts
      <4>1. PICK j \in 1 .. m : o = gs[j][1]
        BY <2>2
      <4>2. PICK i \in 1 .. m : gs[j][1] = hs[i][1]
        BY <3>1
      <4> QED
        BY <2>3, <4>1, <4>2
    <3>4. ASSUME NEW o \in DOMAIN y.opts PROVE o \in DOMAIN x.opts
      <4>1. PICK i \in 1 .. m : o = hs[i][1]
        BY <2>3
      <4>2. PICK j \in 1 .. m : hs[i][1] = gs[j][1]
        BY <3>2
      <4> QED
        BY <2>2, <4>1, <4>2
    <3> QED
      BY <3>3, <3>4
  <2>5. ASSUME NEW o \in DOMAIN x.opts PROVE x.opts[o] = y.opts[o]
    <3>1. PICK j \in 1 .. m : o = gs[j][1]
      BY <2>2
    <3>2. PICK i \in 1 .. m : f[i] = j
      BY <1>3
    <3> QED
      BY <1>4, <2>2, <2>3, <3>1, <3>2
  <2>6. x = y
    BY <1>6, <2>2, <2>3, <2>4, <2>5, SameReading
  <2> QED
    BY <2>6 DEF ParseArgs, x, y
<1>8. CASE \E i \in 1 .. m : ~Accepted(cmd, serve, gs[i])
  <2>1. \E i \in 1 .. m : ~Accepted(cmd, serve, hs[i])
    BY <1>3, <1>4, <1>8
  <2>2. x.status = "error" /\ y.status = "error"
    BY <1>6, <1>8, <2>1 DEF MeansFirst
  <2>3. ParseArgs(cmd, serve, FlattenSeq(gs)) = x /\ ParseArgs(cmd, serve, FlattenSeq(hs)) = y
    BY <2>2 DEF ParseArgs, x, y
  <2> QED
    BY <2>2, <2>3
<1> QED
  BY <1>7, <1>8

---------------------------------------------------------------------------
ArgSpec == ArgsInit /\ [][ReadCall]_argVars
ArgInv ==
  \/ call = NoCall /\ parsed.status = "none"
  \/ /\ call = [cmd |-> call.cmd, serve |-> call.serve, groups |-> call.groups]
     /\ call.cmd \in DOMAIN Groups /\ call.serve \in BOOLEAN
     /\ call.groups \in Seq(Groups[call.cmd])
     /\ parsed = ParseArgs(call.cmd, call.serve, FlattenSeq(call.groups))

LEMMA CallGroups ==
    ASSUME NEW cmd \in DOMAIN Groups, NEW gs \in Seq(Groups[cmd])
    PROVE  /\ cmd \in DOMAIN Options /\ gs \in Seq(Words)
           /\ \A i \in 1 .. Len(gs) : Len(gs[i]) \in {1, 2}
<1>1. /\ cmd \in DOMAIN Options
      /\ \A g \in Groups[cmd] : g \in Words /\ Len(g) \in {1, 2}
  BY ArgsAssumption DEF Words
<1>2. /\ Len(gs) \in Nat /\ DOMAIN gs = 1 .. Len(gs)
      /\ \A i \in 1 .. Len(gs) : gs[i] \in Groups[cmd]
  OBVIOUS
<1>3. gs = [i \in 1 .. Len(gs) |-> gs[i]]
  BY <1>2
<1> HIDE DEF Words
<1>4. gs \in [1 .. Len(gs) -> Words]
  BY <1>1, <1>2, <1>3
<1>5. gs \in Seq(Words)
  BY <1>2, <1>4
<1> QED
  BY <1>1, <1>2, <1>5

LEMMA AcceptedRuns == ASSUME ArgInv PROVE AcceptedIsRunnable
<1> SUFFICES ASSUME parsed.status = "ok" PROVE AcceptedIsRunnable
  BY DEF AcceptedIsRunnable
<1> DEFINE cmd == call.cmd
           serve == call.serve
           s == ReadWords(cmd, serve, Unread, FlattenSeq(call.groups))
           o == parsed.opts
<1>1. /\ cmd \in DOMAIN Groups /\ serve \in BOOLEAN /\ call.groups \in Seq(Groups[cmd])
      /\ parsed = ParseArgs(cmd, serve, FlattenSeq(call.groups))
  BY DEF ArgInv
<1>2. cmd \in DOMAIN Options /\ call.groups \in Seq(Words)
  BY <1>1, CallGroups
<1>3. s \in ReadStates(cmd, serve)
  <2>1. PICK r : Grouped(r, cmd, serve, call.groups)
    BY <1>1, <1>2, GroupedExists
  <2>2. Len(call.groups) \in 0 .. Len(call.groups)
    BY <1>2
  <2> QED
    BY <2>1, <2>2 DEF Grouped
<1> HIDE DEF s, cmd, serve
<1>4. parsed = s /\ Check(cmd, serve, s)
  <2>1. Failed(s).status = "error"
    BY DEF Failed, Reading
  <2> QED
    BY <1>1, <2>1 DEF ParseArgs, s
<1>5. /\ \A x \in DOMAIN o : Suits(x, o[x])
      /\ serve => "--db" \notin DOMAIN o
  BY <1>3, <1>4 DEF ReadStates
<1>6. ("--db" \in DOMAIN o) <=> ~serve
  BY <1>1, <1>4, <1>5 DEF Check
<1>7. \A x \in Patterns \cap DOMAIN o : o[x] \notin BadPatterns
  BY <1>5 DEF Suits
<1>8. cmd = "find" /\ "--regex" \in DOMAIN o => o["--query"] \notin BadPatterns
  BY <1>4 DEF Check, CompileUserRegex
<1>9. "--cone-level" \in DOMAIN o => o["--cone-level"] \in 1 .. (Word \div 2 - 1)
  BY <1>5 DEF Suits
<1>10. cmd = "trace" => Given(parsed, "--mode") /\ Given(parsed, "--signal")
  <2>1. Required["trace"] = {"--mode", "--signal"}
    BY DEF Required
  <2> QED
    BY <1>4, <2>1 DEF Check
<1>11. ({o[x] : x \in Patterns \cap DOMAIN o}
          \cup (IF cmd = "find" /\ "--regex" \in DOMAIN o THEN {o["--query"]} ELSE {})) \cap BadPatterns = {}
  BY <1>7, <1>8
<1> QED
  BY <1>6, <1>9, <1>10, <1>11 DEF AcceptedIsRunnable, cmd, serve

LEMMA OrderDoesNotMatter == ASSUME ArgInv PROVE OrderFree
<1> DEFINE gs == call.groups
<1> SUFFICES ASSUME call # NoCall, \A i \in DOMAIN gs : Complete(call.cmd, gs[i]),
                    \A i, j \in DOMAIN gs : gs[i][1] = gs[j][1] => i = j,
                    NEW f \in Injection(DOMAIN gs, DOMAIN gs)
             PROVE  LET hs == [i \in DOMAIN gs |-> gs[f[i]]]
                        other == ParseArgs(call.cmd, call.serve, FlattenSeq(hs))
                    IN  other.status = parsed.status /\ (parsed.status = "ok" => other.opts = parsed.opts)
  BY DEF OrderFree
<1>1. /\ call.cmd \in DOMAIN Groups /\ call.serve \in BOOLEAN /\ gs \in Seq(Groups[call.cmd])
      /\ parsed = ParseArgs(call.cmd, call.serve, FlattenSeq(gs))
  BY DEF ArgInv
<1>2. call.cmd \in DOMAIN Options /\ Complements(call.cmd, gs)
  <2>1. DOMAIN gs = 1 .. Len(gs)
    BY <1>1
  <2> QED
    BY <1>1, <2>1, CallGroups DEF Complements
<1> QED
  BY <1>1, <1>2, OrderLost

(* The arguments of a query command are read as they should, whatever the  *)
(* words: an accepted command has what it needs, a database exactly if it  *)
(* is not in a session, and patterns that compile; and options with their  *)
(* values mean the same in every order (ParseTraceArgs and the others).    *)
THEOREM ArgumentsAreExact == ArgSpec => []ArgumentsExact
<1>1. ArgsInit => ArgInv
  BY DEF ArgsInit, ArgInv, Reading
<1>2. ArgInv /\ [ReadCall]_argVars => ArgInv'
  <2> SUFFICES ASSUME ArgInv, [ReadCall]_argVars PROVE ArgInv'
    OBVIOUS
  <2>1. CASE UNCHANGED argVars
    BY <2>1 DEF ArgInv, argVars
  <2>2. CASE ReadCall
    <3>1. PICK cmd \in DOMAIN Groups, serve \in BOOLEAN : \E gs \in SeqOf(Groups[cmd], MaxGroups) :
            /\ call' = [cmd |-> cmd, serve |-> serve, groups |-> gs]
            /\ parsed' = ParseArgs(cmd, serve, FlattenSeq(gs))
      BY <2>2 DEF ReadCall
    <3>2. PICK gs \in SeqOf(Groups[cmd], MaxGroups) :
            /\ call' = [cmd |-> cmd, serve |-> serve, groups |-> gs]
            /\ parsed' = ParseArgs(cmd, serve, FlattenSeq(gs))
      BY <3>1
    <3>3. gs \in Seq(Groups[cmd])
      <4>1. MaxGroups \in Nat
        BY ArgsAssumption
      <4>2. PICK k \in 0 .. MaxGroups : gs \in [1 .. k -> Groups[cmd]]
        BY DEF SeqOf
      <4> QED
        BY <4>1, <4>2
    <3>4. call'.cmd = cmd /\ call'.serve = serve /\ call'.groups = gs
      BY <3>2
    <3> QED
      BY <3>2, <3>3, <3>4 DEF ArgInv
  <2> QED
    BY <2>1, <2>2
<1>3. ArgInv => ArgumentsExact
  BY AcceptedRuns, OrderDoesNotMatter DEF ArgumentsExact
<1> QED
  BY <1>1, <1>2, <1>3, PTL DEF ArgSpec
=============================================================================
