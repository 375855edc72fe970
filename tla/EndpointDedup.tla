--------------------------- MODULE EndpointDedup ---------------------------
(***************************************************************************)
(* The pass of the compiler that removes equal endpoint records from each  *)
(* list (EndpointDedup.h).  Its hash table is kept from one list to the    *)
(* next: it grows, and is left with every slot free.                       *)
(***************************************************************************)
EXTENDS EndpointLists

CONSTANTS MinSlots,    \* the slots of the first table, 8 in the code
          HashOf(_),   \* the hash of a record
          Lists        \* the lists that are given to the passes

(* A record is marked as merged by the first of the passes only, and a     *)
(* hash is a number.                                                       *)
ASSUME DedupAssumption ==
  /\ MinSlots \in Nat /\ MinSlots >= 2
  /\ Lists \subseteq Seq(UNION {ToSet(l) : l \in Lists})
  /\ \A l \in Lists : \A e \in ToSet(l) : IsEndpointRecord(e) /\ ~e.merged
  /\ \A l \in Lists : \A e \in ToSet(MergeEndpointBitRangesInPlace(l)) : HashOf(e) \in Nat

(* The table: a function from 0 .. n - 1 to Free, or to the index and the  *)
(* hash of a record of the list.                                           *)
Free == [index |-> 0, hash |-> 0]
Empty(n) == [p \in 0 .. n - 1 |-> Free]
Slots(table) == Cardinality(DOMAIN table)
SameEndpointFields(a, b) == a = b

Doubled(n) == LET capacity[k \in 0 .. n] == IF k = 0 THEN MinSlots ELSE 2 * capacity[k - 1] IN capacity
Grown(table, n) ==
  IF Slots(table) \div 2 >= n THEN table
  ELSE Empty(Min({c \in {Doubled(n)[k] : k \in 0 .. n} : c \div 2 >= n}))

(* The k-th slot after the one of the hash, round the table.               *)
Probe(table, e, k) ==
  LET p == (HashOf(e) % Slots(table)) + k IN IF p < Slots(table) THEN p ELSE p - Slots(table)

(* The search for list[i] starts at its hash and goes round the table, to  *)
(* the first slot that is free or holds an equal record.                   *)
Found(table, p, list, i) ==
  /\ table[p].hash = HashOf(list[i])
  /\ SameEndpointFields(list[table[p].index], list[i])
(* Mutant: a slot of the same hash is taken for an equal record.           *)
SlotOfHash(table, list, i) ==
  LET at(k) == Probe(table, list[i], k)
  IN  at(Min({k \in DOMAIN table : table[at(k)] = Free \/ table[at(k)].hash = HashOf(list[i])}))
Slot(table, list, i) ==
  LET at(k) == Probe(table, list[i], k)
  IN  at(Min({k \in DOMAIN table : table[at(k)] = Free \/ Found(table, at(k), list, i)}))

(* One record: entered in the table, or dropped.                           *)
Look(s, list, i) ==
  LET p == Slot(s.table, list, i)
  IN  IF s.table[p] = Free
      THEN [s EXCEPT !.table[p] = [index |-> i, hash |-> HashOf(list[i])], !.touched = @ \cup {p}]
      ELSE [s EXCEPT !.dropped = @ \cup {i}]
Looked(list, table) ==    \* i |-> the state after the first i records
  LET s[i \in 0 .. Len(list)] ==
        IF i = 0 THEN [table |-> Grown(table, Len(list)), touched |-> {}, dropped |-> {}] ELSE Look(s[i - 1], list, i)
  IN  s
ClearTouched(s) == [p \in DOMAIN s.table |-> IF p \in s.touched THEN Free ELSE s.table[p]]

(* The list without the repetitions, and the table that is kept.           *)
DeduplicateEndpointsInPlace(list, table) ==
  IF Len(list) < 2 THEN [list |-> list, table |-> table]
  ELSE LET s == Looked(list, table)[Len(list)]
       IN  [list |-> Picked(list, DOMAIN list \ s.dropped), table |-> ClearTouched(s)]

---------------------------------------------------------------------------
VARIABLES dedupTable,   \* the hash table of this worker
          given,        \* the last list that was given
          kept          \* what was left of it
dedupVars == <<dedupTable, given, kept>>

DedupInit == dedupTable = Empty(0) /\ given = <<>> /\ kept = <<>>
DedupPass == \E l \in Lists :
  LET r == DeduplicateEndpointsInPlace(MergeEndpointBitRangesInPlace(l), dedupTable)
  IN  given' = l /\ kept' = r.list /\ dedupTable' = r.table

---------------------------------------------------------------------------
(* However records collide, and whatever lists went before, a list keeps   *)
(* the first of each of its records, in their order                        *)
(* (docs/ENDPOINT_DEDUP.md: "preserves the first occurrence and the order  *)
(* of survivors").                                                         *)
FirstsAreKept ==
  LET list == MergeEndpointBitRangesInPlace(given)
  IN  kept = Picked(list, {i \in DOMAIN list : \A j \in 1 .. i - 1 : list[j] # list[i]})

(* Ranges that only touch are united and nothing is lost or added: for     *)
(* records that differ in their range alone, the bits before and after are *)
(* the same, no two ranges that are left touch, and records without a      *)
(* range that can be merged stay as they were, in their order.             *)
MergeExact ==
  LET merged == MergeEndpointBitRangesInPlace(given)
      Key(e) == [EndpointMergeKey(e) EXCEPT !.merged = FALSE]
      Ranges(l, e) == {Span(l[i].bits[1]) : i \in {j \in DOMAIN l : Mergeable(l[j]) /\ Key(l[j]) = Key(e)}}
      Touch(a, b) == Min(a) <= Max(b) + 1 /\ Min(b) <= Max(a) + 1
      Others(l) == Picked(l, {i \in DOMAIN l : ~Mergeable(l[i])})
  IN  /\ \A e \in ToSet(given) \cup ToSet(merged) :
           Mergeable(e) => UNION Ranges(given, e) = UNION Ranges(merged, e)
      /\ \A i, j \in DOMAIN merged :
           (i < j /\ Mergeable(merged[i]) /\ Mergeable(merged[j]) /\ Key(merged[i]) = Key(merged[j]))
           => ~Touch(Span(merged[i].bits[1]), Span(merged[j].bits[1]))
      /\ Others(merged) = Others(given)

(* What a compile writes as the drivers or loads of a signal: the union of *)
(* the ranges, each record once (GraphDb.cc:1971, EndpointDedup.h:62).     *)
ListsExact == FirstsAreKept /\ MergeExact
============================================================================
