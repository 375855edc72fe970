------------------------- MODULE MCGraphPublication -------------------------
(***************************************************************************)
(* Small instances of GraphPublication for TLC.                            *)
(***************************************************************************)
EXTENDS GraphPublication, TLC

CONSTANTS c1, c2, r1, a1, a2, top, header_h, i1, i2, i3, i4

(* The worst case for the metadata: databases that differ in their records *)
(* only have the same size and the same header.                            *)
SameEnvelope(d) == "size and header"

Symmetry == Permutations(Compilers) \cup Permutations(Inodes) \cup Permutations(Args)

=============================================================================
