---------------------------- MODULE Coordinates ----------------------------
(***************************************************************************)
(* Selected signals: how a query such as top.u0.v[1][3:0] is resolved to a *)
(* stored name and a selection, which selections are refused, and which    *)
(* bits of the signal a selection stands for (TraceQuery.cc, GraphDb.cc).  *)
(*                                                                         *)
(* A declaration d has axes (left and right bound, fixed, packed); coord   *)
(* says that the database has a row of coordinates for the signal, mapped  *)
(* that ports refer to its bits in the order of the row.  An optional      *)
(* result is a set of at most one element.                                 *)
(***************************************************************************)
EXTENDS EndpointLists, Functions

CONSTANTS Declarations,      \* the declarations of signals
          Selections,        \* sequences of pairs of bounds
          Bitmaps,           \* bitmaps of endpoints
          StoredNames,       \* sets of stored names, sequences of tokens
          Queries,           \* what a user asks for, sequences of tokens
          kPortMapMaxPieces  \* 256 in the code

(* Rows of coordinates are read from databases of version 6 only           *)
(* (GraphDb.cc:4270); older ones have none.  A bitmap is of numeric axes   *)
(* and of axes whose index is not known.                                   *)
Axes == [left : Int, right : Int, fixed : BOOLEAN, packed : BOOLEAN]
Tokens == [kind : {"name", "dot", "select", "text"}, range : {<<>>} \cup (Int \X Int)]
ASSUME CoordinateAssumption ==
  /\ kPortMapMaxPieces \in Nat
  /\ \A d \in Declarations : d.axes \in Seq(Axes) /\ d.offset \in Nat /\ (d.coord => ~d.old)
  /\ \A sel \in Selections : sel \in Seq(Int \X Int)
  /\ \A bits \in Bitmaps : bits \in Seq({Symbolic} \cup (Int \X Int))
  /\ \A q \in Queries : q \in Seq(Tokens)

Width(axis) == High(<<axis.left, axis.right>>) - Low(<<axis.left, axis.right>>) + 1
Bounds(axis) == <<axis.left, axis.right>>
PortAxisOffset(axis, i) == IF axis.left >= axis.right THEN i - axis.right ELSE axis.right - i
(* Mutant: every axis counts up from its right bound.                      *)
AxisIndexUp(axis, offset) == axis.right + offset
AxisIndex(axis, offset) == IF axis.left >= axis.right THEN axis.right + offset ELSE axis.right - offset

(* Bits of one step of axis a: the product of the widths after it.         *)
Strides(d) ==    \* k |-> the bits of one step of the axis before the last k
  LET n == Len(d.axes)
      bits[k \in 0 .. n] == IF k = 0 THEN 1 ELSE bits[k - 1] * Width(d.axes[n - k + 1])
  IN  bits
Stride(d, a) == Strides(d)[Len(d.axes) - a]
Total(d) == Stride(d, 0)

---------------------------------------------------------------------------
(* Bits of a selection, computed from ranges of bits: each axis that is    *)
(* selected cuts every range into one piece per index, until the axes that *)
(* follow are whole.                                                       *)
Covers(sel, axis) == Span(sel) = Span(Bounds(axis))
TrailingWhole(d, sel, a) == \A b \in a + 1 .. Len(sel) : Covers(sel[b], d.axes[b])

Offsets(d, sel, a) == {PortAxisOffset(d.axes[a], sel[a][1]), PortAxisOffset(d.axes[a], sel[a][2])}
Cut(d, sel, s, a) ==
  LET lo == Min(Offsets(d, sel, a))
      hi == Max(Offsets(d, sel, a))
      stride == Stride(d, a)
      failed == [ranges |-> {}, done |-> TRUE, failed |-> TRUE]
  IN  IF s.done THEN s
      ELSE IF lo < 0 \/ hi >= Width(d.axes[a]) THEN failed
      ELSE IF TrailingWhole(d, sel, a)
      THEN [ranges |-> {<<r[1] + lo * stride, r[2] + (hi + 1) * stride - 1>> : r \in s.ranges}, done |-> TRUE, failed |-> FALSE]
      ELSE IF hi - lo + 1 > kPortMapMaxPieces \div Cardinality(s.ranges) THEN failed
      ELSE [s EXCEPT !.ranges = {<<r[1] + i * stride, r[2] + i * stride>> : r \in @, i \in lo .. hi}]
Cuts(d, sel) ==    \* a |-> the ranges after the first a axes of the selection
  LET whole == sel = <<>>
      start == [ranges |-> {<<0, IF whole THEN Total(d) - 1 ELSE 0>>}, done |-> whole, failed |-> FALSE]
      cut[a \in 0 .. Len(sel)] == IF a = 0 THEN start ELSE Cut(d, sel, cut[a - 1], a)
  IN  cut

PortOwnerSelection(d, sel) ==
  LET s == Cuts(d, sel)[Len(sel)]
  IN  IF \/ ~d.coord \/ d.unverified \/ Len(sel) > Len(d.axes)
         \/ \E a \in DOMAIN d.axes : ~d.axes[a].fixed \/ ~(d.axes[a].packed \/ d.mapped)
         \/ s.failed
      THEN {}
      ELSE {UNION {{b + d.offset : b \in Span(r)} : r \in s.ranges}}

(* A range of bits as selections by index (the emit of                     *)
(* SessionConstrainPortEndpoint): the part of the first row, the rows that *)
(* are whole, the part of the last row.                                    *)
Block(d, a, p, q, rests) == {<< <<AxisIndex(d.axes[a], q), AxisIndex(d.axes[a], p)>> >> \o rest : rest \in rests}
Emit(d, a, lo, hi, tails) ==    \* tails are the pieces of the axes after a
  LET stride == Stride(d, a)
      first == lo \div stride
      last == hi \div stride
  IN  IF lo % stride = 0 /\ hi % stride = stride - 1 THEN Block(d, a, first, last, tails[<<0, stride - 1>>])
      ELSE IF first = last THEN Block(d, a, first, last, tails[<<lo % stride, hi % stride>>])
      ELSE Block(d, a, first, first, tails[<<lo % stride, stride - 1>>])
           \cup (IF last > first + 1 THEN Block(d, a, first + 1, last - 1, tails[<<0, stride - 1>>]) ELSE {})
           \cup Block(d, a, last, last, tails[<<0, hi % stride>>])
Intervals(d) == {x \in (0 .. Total(d) - 1) \X (0 .. Total(d) - 1) : x[1] <= x[2]}
Emitted(d) ==    \* k |-> the pieces of the last k axes for each range of their bits
  LET n == Len(d.axes)
      emit[k \in 0 .. n] == IF k = 0 THEN [x \in Intervals(d) |-> {<<>>}]
                            ELSE [x \in Intervals(d) |-> Emit(d, n - k + 1, x[1], x[2], emit[k - 1])]
  IN  emit
Rectangles(d, low, high) == Emitted(d)[Len(d.axes)][<<low, high>>]

(* The selection by index that a message offers for a flat bit, if every   *)
(* axis is packed and the bit is there.                                    *)
flat_rewrite(d, sel) ==
  LET bit == sel[1][1]
      index(a) == AxisIndex(d.axes[a], (bit \div Stride(d, a)) % Width(d.axes[a]))
  IN  IF \/ Len(sel) # 1 \/ ~d.coord \/ sel[1][1] # sel[1][2] \/ bit < 0
         \/ \E a \in DOMAIN d.axes : ~(d.axes[a].fixed /\ d.axes[a].packed)
         \/ bit >= Total(d)
      THEN {}
      ELSE {[a \in DOMAIN d.axes |-> <<index(a), index(a)>>]}

---------------------------------------------------------------------------
(* Which endpoints of the root a selection keeps.                          *)
EndpointMatchesSignalAxes(e, sel) ==
  IF sel = <<>> \/ e.kind = "port" \/ e.bits = <<>> THEN TRUE
  ELSE IF ~e.logical THEN Len(sel) = 1 /\ EndpointMatchesSignalSelect(e, sel[1])
  ELSE \A a \in DOMAIN sel \cap DOMAIN e.bits : e.bits[a] # Symbolic => RangesOverlap(sel[a], e.bits[a])

(* What is refused before the trace starts: the first check that fails.    *)
OutOfBounds(d, sel) == \E a \in DOMAIN sel \cap DOMAIN d.axes :
  d.axes[a].fixed /\ ~(Span(sel[a]) \subseteq Span(Bounds(d.axes[a])))
Checks(d, sel) ==
  LET legacy == d.old \/ (d.member /\ ~d.memberVerified)
      declared == ~legacy /\ d.coord
      many == Len(sel) > 1
  IN  << [fails |-> legacy /\ (many \/ d.multiAxisAccess), code |-> "legacy_multidimensional_select"],
         [fails |-> declared /\ d.unsupported, code |-> "unsupported_coordinate_type"],
         [fails |-> declared /\ Len(sel) > Len(d.axes), code |-> "too_many_axes"],
         [fails |-> declared /\ OutOfBounds(d, sel), code |-> "axis_out_of_bounds"],
         [fails |-> declared /\ Len(sel) = 1 /\ Len(d.axes) > 1 /\ d.axes[1].packed, code |-> "ambiguous_single_axis"],
         [fails |-> ~legacy /\ ~d.coord /\ many /\ ~d.member, code |-> "unsupported_coordinate_type"],
         [fails |-> d.member /\ Len(sel) = 1 /\ ~d.coord /\ ~(Span(sel[1]) \subseteq 0 .. d.width - 1),
          code |-> "axis_out_of_bounds"],
         [fails |-> many /\ d.member, code |-> "unsupported_struct_member_axes"],
         [fails |-> many /\ d.global, code |-> "unsupported_compact_global_axes"] >>
Diagnosis(d, sel) ==
  LET failed == {i \in DOMAIN Checks(d, sel) : Checks(d, sel)[i].fails}
  IN  IF sel = <<>> \/ failed = {} THEN "run" ELSE Checks(d, sel)[Min(failed)].code

---------------------------------------------------------------------------
(* Names.  A token is a name, a dot with a name, a select [l:r] or another *)
(* text in brackets.                                                       *)
Selectors(q, from) == \A i \in from .. Len(q) : q[i].kind = "select"
Brackets(q) == {i \in DOMAIN q : q[i].kind \in {"select", "text"}}
SplitAt(q, i) == [root |-> SubSeq(q, 1, i - 1), sel |-> [k \in 1 .. Len(q) - i + 1 |-> q[i + k - 1].range]]

(* Selects follow the last dot, up to the end.                             *)
ParseSignalQuery(q) ==
  LET leaf == Max({0} \cup {i \in DOMAIN q : q[i].kind = "dot"})
      after == {i \in Brackets(q) : i > leaf}
  IN  IF after = {} THEN {[root |-> q, sel |-> <<>>]}
      ELSE IF Min(after) = 1 \/ ~Selectors(q, Min(after)) THEN {}
      ELSE {SplitAt(q, Min(after))}

(* The whole query is a stored name, or the longest stored name that only  *)
(* selects follow, or what the syntax says.                                *)
ResolveSignalQuery(stored, q) ==
  LET splits == {i \in Brackets(q) : SubSeq(q, 1, i - 1) \in stored /\ Selectors(q, i)}
  IN  IF q \in stored THEN {[root |-> q, sel |-> <<>>]}
      ELSE IF splits # {} THEN {SplitAt(q, Max(splits))}
      ELSE ParseSignalQuery(q)

---------------------------------------------------------------------------
VARIABLES asked,     \* the declaration of the signal that is asked for
          selected,  \* and the selection
          diagnosis, \* what the selection is refused for, or "run"
          named,     \* the query in tokens, with the stored names
          resolved   \* what it was resolved to
coordVars == <<asked, selected, diagnosis, named, resolved>>

NoName == [stored |-> {}, query |-> <<>>]
NoSignal == [axes |-> <<>>, coord |-> FALSE]
CoordInit ==
  /\ asked = NoSignal /\ selected = <<>> /\ diagnosis = "run"
  /\ named = NoName /\ resolved = {}

(* RunTraceWithSession, up to the trace: the name, then the selection.     *)
ResolveName ==
  /\ named = NoName /\ asked = NoSignal
  /\ \E stored \in StoredNames, q \in Queries :
       /\ named' = [stored |-> stored, query |-> q]
       /\ resolved' = ResolveSignalQuery(stored, q)
  /\ UNCHANGED <<asked, selected, diagnosis>>
CheckSelection ==
  /\ named = NoName /\ asked = NoSignal
  /\ \E d \in Declarations, sel \in Selections :
       /\ asked' = d /\ selected' = sel
       /\ diagnosis' = Diagnosis(d, sel)
  /\ UNCHANGED <<named, resolved>>
CoordNext == ResolveName \/ CheckSelection

---------------------------------------------------------------------------
(* The elements of a selection, index by index, and their bits.            *)
Elements(d, sel) == {t \in [DOMAIN d.axes -> UNION {Span(Bounds(d.axes[a])) : a \in DOMAIN d.axes}] :
  \A a \in DOMAIN d.axes : t[a] \in Span(IF a \in DOMAIN sel THEN sel[a] ELSE Bounds(d.axes[a]))}
Flat(d, t) ==    \* a |-> the place of t among the elements of the first a axes
  LET flat[a \in 0 .. Len(d.axes)] ==
        IF a = 0 THEN 0 ELSE flat[a - 1] * Width(d.axes[a]) + PortAxisOffset(d.axes[a], t[a])
  IN  flat
BitOf(d, t) == d.offset + Flat(d, t)[Len(d.axes)]
LayoutKnown(d) ==
  /\ d.coord /\ ~d.unverified /\ (d.member => d.memberVerified)
  /\ \A a \in DOMAIN d.axes : d.axes[a].fixed /\ (d.axes[a].packed \/ d.mapped)

(* A selection that is not refused stands for the bits of its elements,    *)
(* however its axes count and however many are left out; only a selection  *)
(* of more pieces than the bound has no bits.                              *)
SelectionExact ==
  (LayoutKnown(asked) /\ diagnosis = "run" /\ Len(selected) <= Len(asked.axes)) =>
    LET bits == {BitOf(asked, t) : t \in Elements(asked, selected)}
        owner == PortOwnerSelection(asked, selected)
    IN  IF owner = {} THEN Cardinality(bits) > kPortMapMaxPieces ELSE owner = {bits}

(* A range of bits cut into selections by index is the same bits: none is  *)
(* lost at the end of a row and none is in two pieces.                     *)
RectanglesExact ==
  (LayoutKnown(asked) /\ selected = <<>>) =>
    \A low, high \in 0 .. Total(asked) - 1 : low <= high =>
      LET pieces == Rectangles(asked, low, high)
          bits(r) == {BitOf(asked, t) - asked.offset : t \in Elements(asked, r)}
      IN  /\ UNION {bits(r) : r \in pieces} = low .. high
          /\ \A r, q \in pieces : r # q => bits(r) \cap bits(q) = {}

(* The query that a message offers instead of a flat bit is that bit, and  *)
(* is not refused (unless the signal takes one axis at most).              *)
HintIsTheBit ==
  \A hint \in (IF selected = <<>> THEN {} ELSE flat_rewrite(asked, selected)) :
    /\ {BitOf(asked, t) : t \in Elements(asked, hint)} = {selected[1][1] + asked.offset}
    /\ Diagnosis(asked, hint) = "run"
       \/ asked.member \/ asked.global \/ asked.unsupported \/ asked.old

(* A compile records an index only if the declaration has it               *)
(* (GraphDb.cc:2209, 2230).                                                *)
Recordable(d, bits) ==
  Len(bits) <= Len(d.axes) /\ \A a \in DOMAIN bits : bits[a] # Symbolic => Span(bits[a]) \subseteq Span(Bounds(d.axes[a]))

(* An endpoint of the root is left out only if none of its elements is     *)
(* selected; if its bitmap has no unknown axis it is kept only if one is.  *)
FilterExact ==
  (selected # <<>> /\ asked.coord /\ diagnosis = "run" /\ LayoutKnown(asked)) =>
    \A bits \in Bitmaps :
      LET e == [kind |-> "expr", bits |-> bits, logical |-> TRUE, approx |-> \E a \in DOMAIN bits : bits[a] = Symbolic]
          range(a) == IF bits[a] = Symbolic THEN Bounds(asked.axes[a]) ELSE bits[a]
          common == Elements(asked, selected) \cap Elements(asked, [a \in DOMAIN bits |-> range(a)])
      IN  Recordable(asked, bits)
          => (EndpointMatchesSignalAxes(e, selected) <=> common # {})

(* A stored name is never read as a selection of a shorter one, and what   *)
(* is left of the query are selects.                                       *)
LongestStoredName ==
  \A r \in resolved :
    /\ named.query = r.root \/ Len(r.sel) = Len(named.query) - Len(r.root)
    /\ \A i \in Len(r.root) + 1 .. Len(named.query) :
         SubSeq(named.query, 1, i) \in named.stored => ~Selectors(named.query, i + 1)

(* A name and its selection mean the same bits wherever they are turned    *)
(* into bits, pieces, hints or filters (GraphDb.cc:4507, TraceQuery.cc:714)*)
SelectionsExact ==
  SelectionExact /\ RectanglesExact /\ HintIsTheBit /\ FilterExact /\ LongestStoredName
============================================================================
