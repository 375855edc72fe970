---------------------------- MODULE NameMatching ----------------------------
(***************************************************************************)
(* Names and what is asked for, as sequences of characters: the pattern of *)
(* `find --regex` with the run of characters that rules names out before   *)
(* it is tried (FindQuery.cc), and the edit distance (GraphDb.cc).         *)
(*                                                                         *)
(* In a pattern an escaped character is the character, and "|" stands for  *)
(* all that makes the analysis of a pattern give up (groups, brackets and  *)
(* braces too).                                                            *)
(***************************************************************************)
EXTENDS Integers, Sequences, FiniteSetsExt

Strings == Seq(STRING)    \* names, queries and patterns
HasRun(name, run) == \E i \in 0 .. Len(name) - Len(run) : SubSeq(name, i + 1, i + Len(run)) = run

---------------------------------------------------------------------------
(* The longest run of characters that every match of a pattern contains.   *)
(* (The CHOOSE of a set with one element, here and below, names a value:   *)
(* TLC evaluates it once where it would repeat a definition.)              *)
Quantifiers == {"*", "+", "?"}
NotLiteral == {".", "^", "$"} \cup Quantifiers
At(p, i) == IF i \in DOMAIN p THEN p[i] ELSE "end"
Stacked(p, i) ==    \* a second quantifier follows the one at i
  At(p, IF At(p, i + 1) = "?" THEN i + 2 ELSE i + 1) \in Quantifiers
EndRun(s, run) == [best |-> IF Len(run) > Len(s.best) THEN run ELSE s.best, run |-> <<>>, gaveUp |-> s.gaveUp]
ReadToken(p, s, i) ==
  LET q == At(p, i + 1) IN
  IF s.gaveUp \/ p[i] = "|" THEN [s EXCEPT !.gaveUp = TRUE]
  ELSE IF p[i] \in NotLiteral THEN EndRun(s, s.run)
  ELSE IF q \in Quantifiers /\ Stacked(p, i + 1) THEN [s EXCEPT !.gaveUp = TRUE]
  ELSE IF q \in {"*", "?"} THEN EndRun(s, s.run)
  ELSE IF q = "+" THEN EndRun(s, Append(s.run, p[i]))
  ELSE [s EXCEPT !.run = Append(s.run, p[i])]
RequiredLiteral(p) ==
  LET read[i \in 0 .. Len(p)] ==
        IF i = 0 THEN [best |-> <<>>, run |-> <<>>, gaveUp |-> FALSE]
        ELSE CHOOSE t \in {ReadToken(p, r, i) : r \in {read[i - 1]}} : TRUE
      s == read[Len(p)]
  IN  IF s.gaveUp THEN <<>> ELSE EndRun(s, s.run).best

(* std::regex: the positions of a name that a prefix of the pattern can    *)
(* reach; the pending relation is that of the last character and its       *)
(* quantifiers.  A quantifier needs something to repeat.                   *)
Valid(p) == \A i \in DOMAIN p : p[i] \in Quantifiers => i > 1 /\ p[i - 1] \notin {"^", "$", "|"}
Places(name) == 0 .. Len(name)
Same(name) == {<<a, a>> : a \in Places(name)}
Compose(r, s) == {<<d[1][1], d[2][2]>> : d \in {e \in r \X s : e[1][2] = e[2][1]}}
OnceMore(c, r) == c \cup Compose(c, r)
Closure(r, times) ==
  LET upTo[k \in 0 .. times] == IF k = 0 THEN r ELSE OnceMore(upTo[k - 1], r) IN upTo[times]
Step(name, c) ==
  IF c = "^" THEN {<<0, 0>>} ELSE IF c = "$" THEN {<<Len(name), Len(name)>>}
  ELSE {<<a - 1, a>> : a \in {b \in DOMAIN name : c = "." \/ name[b] = c}}
Repeated(p, name, s, i) ==    \* the pending relation after the quantifier at i
  IF p[i] = "*" THEN Same(name) \cup Closure(s.last, Len(name))
  ELSE IF p[i] = "+" THEN Closure(s.last, Len(name))
  ELSE IF At(p, i - 1) \in Quantifiers THEN s.last
  ELSE Same(name) \cup s.last
MatchToken(p, name, s, i) ==
  IF p[i] \in Quantifiers THEN [before |-> s.before, last |-> Repeated(p, name, s, i)]
  ELSE [before |-> Compose(s.before, s.last), last |-> Step(name, p[i])]
MatchesPart(p, name) ==
  LET state[i \in 0 .. Len(p)] ==
        IF i = 0 THEN [before |-> Same(name), last |-> Same(name)]
        ELSE CHOOSE t \in {MatchToken(p, name, s, i) : s \in {state[i - 1]}} : TRUE
  IN  Compose(state[Len(p)].before, state[Len(p)].last) # {}
regex_search(p, name) ==
  LET bars == {0, Len(p) + 1} \cup {i \in DOMAIN p : p[i] = "|"}
  IN  \E i, j \in bars : /\ i < j /\ \A k \in bars : k <= i \/ k >= j
                         /\ MatchesPart(SubSeq(p, i + 1, j - 1), name)

---------------------------------------------------------------------------
(* Edit distance, row by row: the prefixes of a against those of b.        *)
NextRow(prev, a, b, i) ==
  LET cur[j \in 0 .. Len(b)] ==
        IF j = 0 THEN i
        ELSE Min({prev[j] + 1, cur[j - 1] + 1, prev[j - 1] + (IF a[i] = b[j] THEN 0 ELSE 1)})
  IN  cur
Rows(a, b) ==
  LET row[i \in 0 .. Len(a)] == IF i = 0 THEN [j \in 0 .. Len(b) |-> j]
        ELSE NextRow(row[i - 1], a, b, i)
  IN  row
EditDistance(a, b) == Rows(a, b)[Len(a)][Len(b)]

(* The distance of a and b if it is at most bound, else a number above: a  *)
(* row with nothing up to the bound ends the computation.                  *)
RowMin(row) == Min({row[j] : j \in DOMAIN row})
BoundedEditDistance(a, b, bound) ==
  LET diff == IF Len(a) > Len(b) THEN Len(a) - Len(b) ELSE Len(b) - Len(a)
      above == {i \in DOMAIN a : RowMin(Rows(a, b)[i]) > bound}
  IN  IF diff > bound THEN diff
      ELSE IF above # {} THEN RowMin(Rows(a, b)[Min(above)])
      ELSE EditDistance(a, b)
=============================================================================
