---------------------------- MODULE WaveQueries ----------------------------
(***************************************************************************)
(* The queries of wave_agent_cli (AgentAPI.cpp) over the transitions of    *)
(* one signal, and what they promise each other: that a summary is exact,  *)
(* that searches in both directions, counts and point queries agree, and   *)
(* that a value that was shown can be searched for.  w is a list of        *)
(* transitions in the order of time; several may have the same time.       *)
(***************************************************************************)
EXTENDS WaveDatabase, Listings

CONSTANT kTargetSegments    \* 20 in the code; a single cluster has three segments at most

(* A scalar changes to one of six characters (VcdAdapter.cpp:115), a       *)
(* vector to "b" and at least one and at most as many digits as it is      *)
(* wide: what writers of VCD files write.                                  *)
ASSUME QueryAssumption ==
  /\ kTargetSegments \in Nat /\ kTargetSegments >= 3 /\ Widths \subseteq Nat
  /\ \A n \in Widths : \A v \in Values[n] :
       /\ v \in Seq(STRING)
       /\ IF n <= 1 THEN \E c \in {"0", "1", "x", "X", "z", "Z"} : v = <<c>>
          ELSE v[1] \in {"b", "B"} /\ Len(v) - 1 \in 1..n

---------------------------------------------------------------------------
(* Values: a sequence of characters, of a scalar "0", "1", "x", "z", of a  *)
(* vector "b" and its digits, with leading zeros left out or not.          *)
Unset == <<"U">>
Digits == {"0", "1", "x", "z"}
Lower(c) == IF c = "X" THEN "x" ELSE IF c = "Z" THEN "z" ELSE c

simplify_scalar_value(v) ==
  IF v # <<>> /\ Lower(v[1]) \in Digits THEN Lower(v[1]) ELSE "x"

Pad(bits, n) == [i \in 1..n - Len(bits) |-> "0"] \o bits
Fit(bits, n) == IF Len(bits) > n THEN SubSeq(bits, Len(bits) - n + 1, Len(bits)) ELSE Pad(bits, n)
Logic(bits) == [i \in DOMAIN bits |-> IF Lower(bits[i]) \in Digits THEN Lower(bits[i]) ELSE "x"]

(* A digit of a hexadecimal number is the four bits it stands for; "x" and *)
(* "z" stand for xxxx and zzzz.                                            *)
HexDigits(width) == IF width = 0 THEN 1 ELSE (width + 3) \div 4
BitDigits(width) == IF width = 0 THEN 1 ELSE width

(* Bits of a value of the waveform: a "b" value is extended with zeros,    *)
(* whatever its first digit.                                               *)
normalize_multibit_bits(v, width) ==
  IF v = <<>> THEN <<>>
  ELSE IF v[1] \in {"b", "B"}
  THEN IF Len(v) = 1 THEN <<>> ELSE Pad(Logic(Tail(v)), BitDigits(width))
  ELSE [i \in DOMAIN v |-> Lower(v[i])]

(* Numbers: binary_bits_to_decimal doubles, decimal_string_to_bits halves. *)
Number(bits) ==
  LET read[k \in 0..Len(bits)] ==
        IF k = 0 THEN 0 ELSE 2 * read[k - 1] + (IF bits[k] = "1" THEN 1 ELSE 0)
  IN  read[Len(bits)]
NumberBits(n, width) ==
  LET left[k \in 0..width] == IF k = 0 THEN n ELSE left[k - 1] \div 2
  IN  [i \in 1..width |-> IF left[width - i] % 2 = 1 THEN "1" ELSE "0"]

Nibbles(bits, n) == [k \in 1..n |-> SubSeq(bits, 4 * k - 3, 4 * k)]
HexDigit(nibble) ==
  IF \A i \in DOMAIN nibble : nibble[i] = "z" THEN <<"z", "z", "z", "z">>
  ELSE IF \E i \in DOMAIN nibble : nibble[i] \in {"x", "z"} THEN <<"x", "x", "x", "x">>
  ELSE nibble

(* What is shown: digits in a radix.  A decimal falls back to binary when  *)
(* a bit is unknown.                                                       *)
format_multibit_value(v, width, radix) ==
  LET bits == normalize_multibit_bits(v, width)
      known == \A i \in DOMAIN bits : bits[i] \in {"0", "1"}
  IN  IF bits # <<>> /\ bits[1] \notin Digits THEN [radix |-> "raw", bits |-> bits, number |-> 0]
      ELSE IF radix = "dec" /\ known THEN [radix |-> "dec", bits |-> <<>>, number |-> Number(bits)]
      ELSE IF radix = "bin" \/ radix = "dec"
      THEN [radix |-> "bin", bits |-> bits, number |-> 0]
      ELSE LET n == HexDigits(width)
               digits == Nibbles(Pad(bits, 4 * n), n)
           IN  [radix |-> "hex", number |-> 0,
                bits |-> [i \in 1..4 * n |-> HexDigit(digits[(i + 3) \div 4])[((i - 1) % 4) + 1]]]

(* What is asked for, in the same form: cut to the width from the left. *)
normalize_query_value_to_bits(q, width) ==
  IF width <= 1 THEN <<simplify_scalar_value(q.bits)>>
  ELSE IF q.radix = "dec" THEN NumberBits(q.number, BitDigits(width))
  ELSE Fit(Logic(q.bits), BitDigits(width))

value_matches_query(width, v, bits) ==
  IF width <= 1 THEN <<simplify_scalar_value(v)>> = bits
  ELSE normalize_multibit_bits(v, width) = bits

---------------------------------------------------------------------------
(* Binary searches: the last transition at or before t, the first one at   *)
(* or after it.                                                            *)
UpTo(w, t) == Cardinality({i \in DOMAIN w : w[i].t <= t})
From(w, t) == 1 + Cardinality({i \in DOMAIN w : w[i].t < t})

get_value_at_time(w, t) == IF UpTo(w, t) = 0 THEN Unset ELSE w[UpTo(w, t)].v

(* A point query, of which an exact transition is part of the answer. *)
format_signal_value_at_time(w, width, t, radix) ==
  LET value == get_value_at_time(w, t)
      before == IF t = 0 THEN Unset ELSE get_value_at_time(w, t - 1)
      exact == From(w, t) \in DOMAIN w /\ w[From(w, t)].t = t
      Word(name) == [radix |-> name, bits |-> <<>>, number |-> 0]
  IN  IF width > 1
      THEN IF exact /\ before # value THEN Word("changing")
           ELSE format_multibit_value(value, width, radix)
      ELSE IF exact /\ before = <<"0">> /\ value = <<"1">> THEN Word("rising")
      ELSE IF exact /\ before = <<"1">> /\ value = <<"0">> THEN Word("falling")
      ELSE [radix |-> "bin", bits |-> <<simplify_scalar_value(value)>>, number |-> 0]

(* The edge types, on values as they are in the file. *)
IsEdge(type, before, after) ==
  \/ type = "posedge" /\ before = <<"0">> /\ after = <<"1">>
  \/ type = "negedge" /\ before = <<"1">> /\ after = <<"0">>
  \/ type = "anyedge" /\ before # after

ValueBefore(w, i) == IF i = 1 THEN Unset ELSE w[i - 1].v

(* Mutant: both directions compare with the transition before. *)
FindEdgeByStep(w, type, t, direction) ==
  LET edges == {i \in DOMAIN w : IsEdge(type, ValueBefore(w, i), w[i].v)}
      forward == {i \in edges : w[i].t > t}
      backward == {i \in edges : w[i].t <= t}
  IN  IF direction = "forward"
      THEN IF forward = {} THEN -1 ELSE w[Min(forward)].t
      ELSE IF backward = {} THEN -1 ELSE w[Max(backward)].t

(* Forward strictly after t, against the value one time unit before;       *)
(* backward at or before t, against the transition before.                 *)
find_edge(w, type, t, direction) ==
  LET forward == {i \in From(w, t)..Len(w) :
                    w[i].t > t /\ IsEdge(type, get_value_at_time(w, w[i].t - 1), w[i].v)}
      backward == {i \in 1..UpTo(w, t) : IsEdge(type, ValueBefore(w, i), w[i].v)}
  IN  IF direction = "forward"
      THEN IF forward = {} THEN -1 ELSE w[Min(forward)].t
      ELSE IF backward = {} THEN -1 ELSE w[Max(backward)].t

(* The first time from t on, or the last up to it, at which a transition   *)
(* wrote v, or t itself when the signal has v there.                       *)
find_condition(w, v, t, direction) ==
  LET forward == {i \in From(w, t)..Len(w) : w[i].v = v}
      backward == {i \in 1..UpTo(w, t) : w[i].v = v}
  IN  IF get_value_at_time(w, t) = v THEN t
      ELSE IF direction = "forward"
      THEN IF forward = {} THEN -1 ELSE w[Min(forward)].t
      ELSE IF backward = {} THEN -1 ELSE w[Max(backward)].t

(* The intervals of the window in which the signal has the value: one for  *)
(* each transition that did not leave it at once.                          *)
find_value_intervals(w, width, bits, start, end) ==
  LET first == UpTo(w, start)
      last == UpTo(w, end)
      piece(i) == [value |-> IF i = 0 THEN Unset ELSE w[i].v,
                   start |-> IF i = first THEN start ELSE w[i].t,
                   end |-> IF i = last THEN end ELSE w[i + 1].t - 1]
      pieces == [k \in 1..last - first + 1 |-> piece(first + k - 1)]
  IN  Picked(pieces, {k \in DOMAIN pieces : /\ pieces[k].start <= pieces[k].end
                                            /\ value_matches_query(width, pieces[k].value, bits)})

(* At most limit transitions of the window, and whether there are more. *)
get_transitions(w, start, end, limit) ==
  LET stop == IF UpTo(w, end) < From(w, start) + limit THEN UpTo(w, end)
              ELSE From(w, start) + limit - 1
  IN  [data |-> SubSeq(w, From(w, start), stop), truncated |-> stop < UpTo(w, end)]

(* Scalars are compared as shown, vectors as they are in the file. *)
classify_transition_event(width, before, after) ==
  LET b == simplify_scalar_value(before)
      a == simplify_scalar_value(after)
  IN  IF width > 1 THEN IF before = after THEN "none" ELSE "toggle"
      ELSE IF b = a THEN "none"
      ELSE IF b = "0" /\ a = "1" THEN "posedge"
      ELSE IF b = "1" /\ a = "0" THEN "negedge" ELSE "anyedge"

count_transitions(w, width, start, end, type) ==
  Cardinality({i \in From(w, start)..UpTo(w, end) :
    LET event == classify_transition_event(width, ValueBefore(w, i), w[i].v)
    IN  event # "none" /\ (width > 1 \/ type = "anyedge" \/ event = type)})

---------------------------------------------------------------------------
(* The overview of a window.  A transition starts a stable segment, unless *)
(* the next one follows within the resolution: then all that follow so     *)
(* closely are one flipping segment, that ends before the last of them.    *)
get_window_transitions(w, start, end) == SubSeq(w, UpTo(w, start) + 1, UpTo(w, end))

ClusterEnd(win, i, res) ==
  Max({j \in i..Len(win) : \A k \in i..j - 1 : win[k + 1].t - win[k].t < res})

Begins(win, i, res) == i = 1 \/ win[i].t - win[i - 1].t >= res

FlippingEnd(win, i, j) == IF win[j].t > win[i].t THEN win[j].t - 1 ELSE win[j].t

(* Mutant: segments of the same state are one. *)
AppendByState(segments, next) ==
  LET n == Len(segments)
  IN  IF next.start > next.end THEN segments
      ELSE IF n > 0 /\ segments[n].state = next.state
      THEN [segments EXCEPT ![n].end = next.end]
      ELSE Append(segments, next)

same_overview_segment_shape(g, h) ==
  g.state = h.state /\ g.value = h.value /\ g.transitions = h.transitions /\ g.unique = h.unique

(* Segments of the same shape that meet are one. *)
append_overview_segment(segments, next) ==
  LET n == Len(segments)
  IN  IF next.start > next.end THEN segments
      ELSE IF n > 0 /\ segments[n].end + 1 = next.start /\ same_overview_segment_shape(segments[n], next)
      THEN [segments EXCEPT ![n] = [@ EXCEPT !.end = next.end]]
      ELSE Append(segments, next)

Stable(width, start, end, v, radix) ==
  [start |-> start, end |-> end, transitions |-> 0, unique |-> 0, state |-> "stable",
   value |-> IF width <= 1 THEN [radix |-> "bin", bits |-> <<simplify_scalar_value(v)>>, number |-> 0]
             ELSE format_multibit_value(v, width, radix)]

Flipping(width, start, end, transitions, values) ==
  [start |-> start, end |-> end, transitions |-> transitions, state |-> "flipping",
   unique |-> IF width <= 1 THEN 0 ELSE Cardinality(values),
   value |-> [radix |-> "raw", bits |-> <<>>, number |-> 0]]

Overview(win, width, res, radix, acc, i) ==    \* one turn of the loop, a cluster that begins at i
  LET j == ClusterEnd(win, i, res)
      fend == FlippingEnd(win, i, j)
      before == append_overview_segment(acc.segments,
                  Stable(width, acc.cursor, win[i].t - 1, acc.value, radix))
  IN  IF i = j
      THEN [segments |-> before, cursor |-> win[i].t, value |-> win[i].v]
      ELSE [segments |-> append_overview_segment(before,
                           Flipping(width, win[i].t, fend, j - i + 1,
                                    {acc.value} \cup {win[k].v : k \in i..j})),
            cursor |-> IF fend = win[j].t THEN fend + 1 ELSE win[j].t,
            value |-> win[j].v]

Overviews(w, width, start, end, res, radix) ==    \* i |-> after the clusters that begin at i or before
  LET win == get_window_transitions(w, start, end)
      turn[i \in 0..Len(win)] ==
        IF i = 0 THEN [segments |-> <<>>, cursor |-> start, value |-> get_value_at_time(w, start)]
        ELSE IF Begins(win, i, res) THEN Overview(win, width, res, radix, turn[i - 1], i) ELSE turn[i - 1]
  IN  turn

build_signal_overview_segments(w, width, start, end, res, radix) ==
  LET all == Overviews(w, width, start, end, res, radix)[Len(get_window_transitions(w, start, end))]
  IN  append_overview_segment(all.segments, Stable(width, all.cursor, end, all.value, radix))

(* The number of segments before any two of them are merged. *)
Estimate(win, res, acc, i) ==
  LET j == ClusterEnd(win, i, res)
      fend == FlippingEnd(win, i, j)
  IN  [count |-> acc.count + (IF acc.cursor < win[i].t THEN 1 ELSE 0) + (IF i < j THEN 1 ELSE 0),
       cursor |-> IF i < j /\ fend = win[j].t THEN fend + 1 ELSE win[j].t]

Estimates(win, start, res) ==    \* i |-> after the clusters that begin at i or before
  LET turn[i \in 0..Len(win)] ==
        IF i = 0 THEN [count |-> 0, cursor |-> start]
        ELSE IF Begins(win, i, res) THEN Estimate(win, res, turn[i - 1], i) ELSE turn[i - 1]
  IN  turn

estimated_segment_count_for(win, start, end, res) ==
  LET all == Estimates(win, start, res)[Len(win)]
  IN  all.count + (IF all.cursor <= end THEN 1 ELSE 0)

(* A binary search for the smallest resolution that is coarse enough. *)
Fits(win, start, end, res) == estimated_segment_count_for(win, start, end, res) <= kTargetSegments

Halve(win, start, end, range) ==
  LET mid == range.low + (range.high - range.low) \div 2
  IN  IF range.low >= range.high THEN range
      ELSE IF Fits(win, start, end, mid) THEN [range EXCEPT !.high = mid] ELSE [range EXCEPT !.low = mid + 1]

Halvings(win, start, end) ==    \* k |-> the range after k turns
  LET span == end - start + 1
      turn[k \in 0..span] == IF k = 0 THEN [low |-> 1, high |-> span] ELSE Halve(win, start, end, turn[k - 1])
  IN  turn

choose_auto_resolution(win, start, end) ==
  IF win = <<>> \/ Fits(win, start, end, 1) THEN 1 ELSE Halvings(win, start, end)[end - start + 1].low

---------------------------------------------------------------------------
(* Lists of paths. *)
PathLess(p, q) == Lexicographic(p, q)
Sorted(paths) == InTurn(paths, {x \in paths \X paths : PathLess(x[1], x[2])})

canonical_signal_type(type) ==
  CASE type \in {"reg", "register"} -> "register"
    [] type \in {"wire", "net", "tri", "tri0", "tri1", "wand", "wor", "supply0", "supply1"} -> "net"
    [] OTHER -> type

is_top_module_signal_path(path) == Cardinality({i \in DOMAIN path : path[i] = Dot}) <= 1

(* Without a pattern the signals of the top module; the pattern prefix*.   *)
list_signals(pattern, prefix, types) ==
  Sorted({p \in DOMAIN info : /\ IF pattern THEN IsPrefixOf(prefix, p) ELSE is_top_module_signal_path(p)
                              /\ types = {} \/ canonical_signal_type(info[p].type) \in types})

(* Mutant: the cursor of a page is the first path behind it. *)
PageCursorBehind(prefix, cursor, limit) ==
  LET found == Sorted({p \in DOMAIN info : IsPrefixOf(prefix, p) /\ (cursor = <<>> \/ PathLess(cursor, p))})
      n == Min({Len(found), Max({limit, 1})})
  IN  [data |-> SubSeq(found, 1, n), has_more |-> n < Len(found),
       next_cursor |-> IF n < Len(found) THEN found[n + 1] ELSE <<>>]

(* A page starts after the cursor and after what sorts before the prefix,  *)
(* and ends with the first path behind the prefix.                         *)
list_signal_paths_page(prefix, cursor, limit) ==
  LET after == {p \in DOMAIN info : ~PathLess(p, prefix) /\ (cursor = <<>> \/ PathLess(cursor, p))}
      stops == {p \in after : ~IsPrefixOf(prefix, p) /\ PathLess(prefix, p)}
      found == Sorted({p \in after : IsPrefixOf(prefix, p) /\ \A q \in stops : PathLess(p, q)})
      n == Min({Len(found), Max({limit, 1})})
  IN  [data |-> SubSeq(found, 1, n), has_more |-> n < Len(found),
       next_cursor |-> IF n < Len(found) THEN found[n] ELSE <<>>]

---------------------------------------------------------------------------
(* What a client collects that asks again from where each answer ends,     *)
(* until there is no more or it has asked n times again.                   *)
Collected(ask, first, n) ==
  LET got[k \in 0..n] ==
        IF k = 0 THEN ask[first]
        ELSE IF ~got[k - 1].has_more THEN got[k - 1]
        ELSE LET next == ask[got[k - 1].next_cursor]
             IN  [data |-> got[k - 1].data \o next.data,
                  has_more |-> next.has_more, next_cursor |-> next.next_cursor]
  IN  got[n]

(* All pages of a listing.                                                 *)
Pages(prefix, limit) ==
  Collected([cursor \in {<<>>} \cup DOMAIN info |-> list_signal_paths_page(prefix, cursor, limit)],
            <<>>, Cardinality(DOMAIN info))

(* A window at most limit transitions at a time.                           *)
Continued(w, start, end, limit) ==
  Collected([from \in 0..MaxTime + 1 |->
              LET part == get_transitions(w, from, end, limit)
              IN  [data |-> part.data, has_more |-> part.truncated,
                   next_cursor |-> IF part.truncated THEN part.data[Len(part.data)].t + 1 ELSE 0]],
            start, Len(w))

(* The edges of a signal forwards from time 0, and backwards from the end. *)
Found(time, next) ==
  [data |-> IF time = -1 THEN <<>> ELSE <<time>>, has_more |-> time # -1 /\ next >= 0, next_cursor |-> next]
EdgesAhead(w, type) ==
  Collected([t \in 0..MaxTime |-> LET edge == find_edge(w, type, t, "forward") IN Found(edge, edge)],
            0, MaxTime + 1)
EdgesBack(w, type) ==
  Collected([t \in 0..MaxTime |-> LET edge == find_edge(w, type, t, "backward") IN Found(edge, edge - 1)],
            MaxTime, MaxTime + 1)

---------------------------------------------------------------------------
(* Properties.  Each holds of every window of every file read so far.      *)
Waves == {[w |-> trans[info[p].id], width |-> info[p].width] : p \in DOMAIN info}
Times == 0..MaxTime
Windows == {x \in Times \X Times : x[1] <= x[2]}
Types3 == {"posedge", "negedge", "anyedge"}
Radixes == {"hex", "bin", "dec"}

(* The segments of an overview cover the window without gap or overlap,    *)
(* and a stable one shows the value that the signal has at each of its     *)
(* times (AgentAPI.cpp:478: segments that look alike are merged).          *)
OverviewExact ==
  \A x \in Waves, win \in Windows, res \in 1..MaxTime + 1 :
    LET segs == build_signal_overview_segments(x.w, x.width, win[1], win[2], res, "hex")
    IN  /\ segs # <<>> /\ segs[1].start = win[1] /\ segs[Len(segs)].end = win[2]
        /\ \A i \in DOMAIN segs :
             /\ segs[i].start <= segs[i].end
             /\ i > 1 => segs[i].start = segs[i - 1].end + 1
             /\ segs[i].state = "stable" =>
                  \A t \in segs[i].start..segs[i].end :
                    Stable(x.width, 0, 0, get_value_at_time(x.w, t), "hex").value = segs[i].value

Counted(segs) ==
  LET sum[k \in 0..Len(segs)] == IF k = 0 THEN 0 ELSE sum[k - 1] + segs[k].transitions
  IN  sum[Len(segs)]

(* No transition of a burst is hidden: the flipping segments count them    *)
(* all, also of a burst at a single time (AgentAPI.cpp:555).  At           *)
(* resolution 1 two bursts can meet and be merged, which keeps the count   *)
(* of one (AgentAPI.cpp:478).                                              *)
OverviewCounts ==
  \A x \in Waves, win \in Windows, res \in 2..MaxTime + 1 :
    LET segs == build_signal_overview_segments(x.w, x.width, win[1], win[2], res, "hex")
        window == get_window_transitions(x.w, win[1], win[2])
        bursts == {i \in DOMAIN window : ClusterEnd(window, i, res) > i \/ (i > 1 /\ window[i].t - window[i - 1].t < res)}
    IN  Counted(segs) = Cardinality(bursts)

(* The automatic resolution is the smallest that keeps the overview within *)
(* its target, so the count it bisects must fall with the resolution.      *)
AutoIsSmallest ==
  \A x \in Waves, win \in Windows :
    LET window == get_window_transitions(x.w, win[1], win[2])
        res == choose_auto_resolution(window, win[1], win[2])
        Count(r) == estimated_segment_count_for(window, win[1], win[2], r)
    IN  /\ Len(build_signal_overview_segments(x.w, x.width, win[1], win[2], res, "hex")) <= kTargetSegments
        /\ \A r \in 1..res - 1 : Count(r) > kTargetSegments

(* Value intervals are disjoint, in order, and cover exactly the times of  *)
(* the window at which the signal has the value.                           *)
IntervalsExact ==
  \A x \in Waves, win \in Windows : \A v \in Values[x.width] :
    LET bits == normalize_query_value_to_bits(format_multibit_value(v, x.width, "bin"), x.width)
        found == find_value_intervals(x.w, x.width, bits, win[1], win[2])
    IN  /\ \A i \in DOMAIN found : i > 1 => found[i - 1].end < found[i].start
        /\ UNION {found[i].start..found[i].end : i \in DOMAIN found}
             = {t \in win[1]..win[2] : value_matches_query(x.width, get_value_at_time(x.w, t), bits)}

(* A vector value that is shown in any radix is found when it is asked for *)
(* as it was shown, if every digit that is shown stands for one value.     *)
ShownIsFound ==
  \A x \in Waves, t \in Times, radix \in Radixes :
    LET v == get_value_at_time(x.w, t)
        shown == format_multibit_value(v, x.width, radix)
        bits == Pad(normalize_multibit_bits(v, x.width), 4 * HexDigits(x.width))
        sharp == \A k \in 1..HexDigits(x.width) :
                   LET nibble == {bits[i] : i \in 4 * k - 3..4 * k}
                   IN  nibble \subseteq {"0", "1"} \/ nibble = {"x"} \/ nibble = {"z"}
    IN  x.width > 1 /\ v # Unset /\ (shown.radix = "hex" => sharp) =>
          value_matches_query(x.width, v, normalize_query_value_to_bits(shown, x.width))

(* Counts add up: splitting a window loses no edge and counts none twice,  *)
(* also when the cut is within a burst at one time.                        *)
CountsAdd ==
  \A x \in Waves, win \in Windows, type \in Types3 : \A m \in win[1]..win[2] - 1 :
    count_transitions(x.w, x.width, win[1], win[2], type)
      = count_transitions(x.w, x.width, win[1], m, type) + count_transitions(x.w, x.width, m + 1, win[2], type)

(* On a scalar without glitches, stepping through its rising or falling    *)
(* edges with find_edge, in either direction, visits the times at which a  *)
(* point query shows one, and as many are counted.                         *)
Whole(answer, list) == answer.data = list /\ ~answer.has_more
EdgesAgree ==
  \A x \in Waves, type \in {"posedge", "negedge"} :
    LET shown == {t \in Times : format_signal_value_at_time(x.w, x.width, t, "hex").radix
                                  = IF type = "posedge" THEN "rising" ELSE "falling"}
    IN  x.width <= 1 /\ (\A i \in DOMAIN x.w : ~x.w[i].glitch) =>
          /\ Whole(EdgesAhead(x.w, type), Ascending(shown))
          /\ Whole(EdgesBack(x.w, type), Reverse(Ascending(shown)))
          /\ count_transitions(x.w, x.width, 0, MaxTime, type) = Cardinality(shown)

(* A search for a value stops at the first time of all at which the signal *)
(* has it, although it looks at transitions only; backwards at a time at   *)
(* which it has it, whenever there is one (without glitches).              *)
ConditionsFound ==
  \A x \in Waves, t \in Times : \A v \in Values[x.width] :
    LET Holds(u) == get_value_at_time(x.w, u) = v
        ahead == {u \in t..MaxTime : Holds(u)}
        back == find_condition(x.w, v, t, "backward")
    IN  (\A i \in DOMAIN x.w : ~x.w[i].glitch) =>
          /\ find_condition(x.w, v, t, "forward") = IF ahead = {} THEN -1 ELSE Min(ahead)
          /\ IF back = -1 THEN \A u \in 0..t : ~Holds(u) ELSE back <= t /\ Holds(back)

(* Who asks again from behind the last transition of a list that was cut   *)
(* at its limit gets the whole window, and knows when there is no more:    *)
(* unless the cut was within a burst at one time.                          *)
TransitionsContinue ==
  \A x \in Waves, win \in Windows, limit \in 1..2 :
    (\A i \in DOMAIN x.w : ~x.w[i].glitch) =>
      Whole(Continued(x.w, win[1], win[2], limit),
            Picked(x.w, {i \in DOMAIN x.w : win[1] <= x.w[i].t /\ x.w[i].t <= win[2]}))

(* With glitches a point query still never shows an edge that the forward  *)
(* search passes over.                                                     *)
ShownEdgeIsFound ==
  \A x \in Waves, t \in 1..MaxTime :
    format_signal_value_at_time(x.w, x.width, t, "hex").radix = "rising" =>
      find_edge(x.w, "posedge", t - 1, "forward") = t

(* Following the cursor of a paged listing, with any page size, yields     *)
(* every path with the prefix once and in order: what list_signals yields  *)
(* for the same prefix (WaveDatabase.cpp:140: the page starts at whichever *)
(* of cursor and prefix is later and stops at the first path behind it).   *)
PagesAreTheList ==
  phase = "ready" =>
    \A limit \in 0..2 : \A q \in DOMAIN info : \A n \in 0..Len(q) :
      Whole(Pages(SubSeq(q, 1, n), limit), list_signals(TRUE, SubSeq(q, 1, n), {}))

(* A summary tells the truth at every resolution, and the automatic one    *)
(* fits its target (AgentAPI.cpp:519, 668).                                *)
SummariesExact == OverviewExact /\ OverviewCounts /\ AutoIsSmallest

(* Whatever a query finds, counts or prints about a signal is what point   *)
(* queries show at each time: values, conditions, intervals and edges      *)
(* (AgentAPI.cpp:849, 1004, 1064, 1131, 1214).                             *)
QueriesAgree ==
  /\ ShownIsFound /\ ConditionsFound /\ IntervalsExact
  /\ EdgesAgree /\ ShownEdgeIsFound /\ CountsAdd

(* A list that is cut and continued is the whole list                      *)
(* (WaveDatabase.cpp:122, AgentAPI.cpp:1184).                              *)
PartsAreWhole == PagesAreTheList /\ TransitionsContinue
============================================================================
