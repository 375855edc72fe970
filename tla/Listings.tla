------------------------------ MODULE Listings -------------------------------
(***************************************************************************)
(* Finite sets listed in an order (std::sort of distinct elements, and the *)
(* passes that keep a part of a vector in place).  An order is a set of    *)
(* pairs, the one that comes first on the left.                            *)
(***************************************************************************)
EXTENDS Integers, Sequences, SequencesExt

InTurn(S, order) == CHOOSE s \in [1 .. Cardinality(S) -> S] :
  S \subseteq ToSet(s) /\ \A i, j \in DOMAIN s : i < j => <<s[i], s[j]>> \in order

(* How std::string and std::vector compare: the first place decides.       *)
Lexicographic(p, q) == \E k \in 1 .. Len(q) :
  /\ \A j \in 1 .. k - 1 : j <= Len(p) /\ p[j] = q[j]
  /\ Len(p) < k \/ p[k] < q[k]

Ascending(S) == InTurn(S, {x \in S \X S : x[1] < x[2]})
(* The part of a list at a set of places.                                  *)
Picked(list, places) == [k \in DOMAIN Ascending(places) |-> list[Ascending(places)[k]]]
=============================================================================
