--------------------------- MODULE EndpointLists ---------------------------
(***************************************************************************)
(* The lists of endpoints of a signal and the pass that unites adjacent    *)
(* bit ranges, of the compiler and of the hops of a trace whose mapping    *)
(* is not known.                                                           *)
(*                                                                         *)
(* The bitmap of an endpoint is a sequence of axes: <<>> is the whole      *)
(* signal, an axis is a pair <<left, right>> of indices or Symbolic.  A    *)
(* coverage is the set of the owner's bits that its ranges cover.          *)
(***************************************************************************)
EXTENDS Listings

Symbolic == <<>>
Low(r) == Min({r[1], r[2]})
High(r) == Max({r[1], r[2]})
Span(r) == Low(r) .. High(r)
RangesOverlap(a, b) == Max({Low(a), Low(b)}) <= Min({High(a), High(b)})

(* The range of a bitmap of one numeric axis, as a set of at most one.     *)
ParseExactBitMapText(bits) == {bits[i] : i \in {k \in DOMAIN bits : Len(bits) = 1 /\ bits[k] # Symbolic}}
FormatBitRange(hi, lo) == <<hi, lo>>

(* What these passes need to know of a record; there is more in it.        *)
IsEndpointRecord(e) ==
  /\ e = [f \in DOMAIN e |-> e[f]]
  /\ {"bits", "approx", "cover", "legacy", "merged", "routes", "unresolved", "constant"} \subseteq DOMAIN e
  /\ e.bits \in Seq({Symbolic} \cup (Int \X Int)) /\ {e.approx, e.legacy, e.merged} \subseteq BOOLEAN

(* Whether an endpoint is kept when one range is selected: the first axis  *)
(* decides, if it is numeric.                                              *)
ParseExactBitRange(bits) == {bits[i] : i \in {k \in DOMAIN bits : k = 1 /\ bits[k] # Symbolic}}
EndpointMatchesSignalSelect(e, sel) ==
  \/ e.kind = "port" \/ e.approx
  \/ \A r \in ParseExactBitRange(e.bits) : RangesOverlap(r, sel)

---------------------------------------------------------------------------
(* Union of ranges.                                                        *)
Mergeable(e) ==
  /\ ParseExactBitMapText(e.bits) # {}
  /\ e.legacy \/ (~e.approx /\ e.cover = {})
EndpointMergeKey(e) == [e EXCEPT !.bits = <<>>, !.routes = <<>>, !.unresolved = FALSE, !.constant = FALSE]

(* The ranges of a group are swept in the order of their low ends: one     *)
(* that touches the last run extends it, another starts a run.             *)
Run(list, i) == LET r == list[i].bits[1] IN
  [lo |-> Low(r), hi |-> High(r), first |-> i, members |-> {i}]
Precedes(list, i, j) == LET a == Run(list, i) b == Run(list, j) IN
  \/ a.lo < b.lo
  \/ a.lo = b.lo /\ a.hi < b.hi
  \/ a.lo = b.lo /\ a.hi = b.hi /\ i < j
BySpan(list, group) == InTurn(group, {x \in group \X group : Precedes(list, x[1], x[2])})
Join(a, b) == [lo |-> a.lo, hi |-> Max({a.hi, b.hi}), first |-> Min({a.first, b.first}),
               members |-> a.members \cup b.members]
Extend(runs, run) ==
  IF runs # <<>> /\ run.lo <= Last(runs).hi + 1
  THEN Append(Front(runs), Join(Last(runs), run))
  ELSE Append(runs, run)
Swept(list, at) ==    \* k |-> the runs of the first k of the places
  LET runs[k \in 0 .. Len(at)] == IF k = 0 THEN <<>> ELSE Extend(runs[k - 1], Run(list, at[k]))
  IN  runs
Sweep(list, group) == Swept(list, BySpan(list, group))[Len(BySpan(list, group))]

(* A run of two or more becomes one record, at the place of its first: it  *)
(* is marked as merged unless all ranges were the same, and written as     *)
(* [low:high] only if every range of several bits was.                     *)
MergedRecord(list, run) ==
  LET r(i) == list[i].bits[1]
      ascending == \E i \in run.members : r(i)[1] < r(i)[2]
      descending == \E i \in run.members : r(i)[1] > r(i)[2]
      different == \E i, j \in run.members : Span(r(i)) # Span(r(j))
  IN  [list[run.first] EXCEPT
        !.merged = @ \/ different,
        !.bits = << IF ascending /\ ~descending THEN <<run.lo, run.hi>> ELSE FormatBitRange(run.hi, run.lo) >>]

Items(list) == {i \in DOMAIN list : Mergeable(list[i])}
GroupOf(list, i) == {j \in Items(list) : EndpointMergeKey(list[j]) = EndpointMergeKey(list[i])}
RunsOf(list) == UNION {ToSet(Sweep(list, GroupOf(list, i))) : i \in Items(list)}
MergeEndpointBitRangesInPlace(list) ==
  LET runs == {run \in RunsOf(list) : Cardinality(run.members) > 1}
      dropped == UNION {run.members \ {run.first} : run \in runs}
      united == [i \in DOMAIN list |->
                   IF \E run \in runs : run.first = i
                   THEN MergedRecord(list, CHOOSE run \in runs : run.first = i) ELSE list[i]]
  IN  Picked(united, DOMAIN list \ dropped)

============================================================================
