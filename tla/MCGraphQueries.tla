--------------------------- MODULE MCGraphQueries ---------------------------
(* Small instances of the queries; the README says what each is chosen for. *)
EXTENDS GraphQueries, MCTraceQueries

\* Lists of endpoints: ranges that touch, overlap, leave a gap, run both
\* ways; records that may not be merged; two hashes that collide.
Rec(b, a, p) == [bits |-> b, approx |-> a, cover |-> {}, legacy |-> a, merged |-> FALSE, routes |-> <<>>,
                 unresolved |-> FALSE, constant |-> FALSE, path |-> p]
MCRecords == { Rec(<<<<1, 0>>>>, FALSE, 1), Rec(<<<<3, 2>>>>, FALSE, 1), Rec(<<<<0, 6>>>>, FALSE, 1),
               Rec(<<<<5, 5>>>>, TRUE, 2), Rec(<<>>, FALSE, 1), Rec(<<Symbolic>>, FALSE, 2) }
MCLists == SeqOf(MCRecords, 3)
MCHashOf(e) == Len(e.bits) + e.path

\* Declarations: both directions, packed and unpacked axes, a struct member,
\* an old database, a signal without coordinates.
Axis(l, r, p) == [left |-> l, right |-> r, fixed |-> TRUE, packed |-> p]
D(axes) == [axes |-> axes, coord |-> TRUE, unsupported |-> FALSE, mapped |-> TRUE, unverified |-> FALSE,
            member |-> FALSE, memberVerified |-> TRUE, offset |-> 0, width |-> 4, old |-> FALSE,
            multiAxisAccess |-> FALSE, global |-> FALSE]
Member(d) == [d EXCEPT !.member = TRUE, !.offset = 2]
Vector == D(<<Axis(3, 0, TRUE)>>)
Table == D(<<Axis(1, 0, TRUE), Axis(0, 2, TRUE)>>)
MCDeclarations ==
  { Vector, D(<<Axis(1, 4, TRUE)>>), Table, D(<<Axis(0, 1, FALSE), Axis(2, 0, TRUE)>>),
    D(<<Axis(0, 1, FALSE), Axis(1, 0, FALSE), Axis(1, 2, TRUE)>>),
    Member(D(<<Axis(1, 0, TRUE), Axis(0, 1, TRUE)>>)), [Member(Vector) EXCEPT !.memberVerified = FALSE],
    Member([Vector EXCEPT !.coord = FALSE]),
    [Vector EXCEPT !.coord = FALSE], [Vector EXCEPT !.coord = FALSE, !.old = TRUE],
    [Vector EXCEPT !.unsupported = TRUE], [Table EXCEPT !.global = TRUE],
    [D(<<Axis(1, 0, FALSE)>>) EXCEPT !.mapped = FALSE] }
Pairs == {<<0, 0>>, <<1, 1>>, <<2, 2>>, <<5, 5>>, <<1, 0>>, <<0, 1>>, <<0, 2>>, <<2, 1>>, <<4, 1>>}
MCSelections == UNION {[1 .. k -> Pairs] : k \in 0 .. 2} \cup [1 .. 3 -> {<<0, 0>>, <<1, 1>>, <<1, 0>>, <<1, 2>>}]
MCBitmaps == UNION {[1 .. k -> {Symbolic, <<0, 0>>, <<2, 1>>}] : k \in 0 .. 2}

\* Queries: the name v with up to three of a select, a range, another text in
\* brackets, a member.
Tok(k, r) == [kind |-> k, range |-> r]
Name == Tok("name", <<>>)
Tails == {Tok("select", <<0, 0>>), Tok("select", <<1, 0>>), Tok("text", <<>>), Tok("dot", <<>>)}
MCQueries == {<<Name>> \o t : t \in UNION {[1 .. k -> Tails] : k \in 0 .. 3}}
MCStoredNames == {{<<Name>>}, {<<Name>>, <<Name, Tok("select", <<0, 0>>)>>},
                  {<<Name, Tok("text", <<>>)>>, <<Name, Tok("select", <<0, 0>>), Tok("dot", <<>>)>>}}

\* Four names, three of them in a chunk each; patterns with every quantifier.
MCText == << <<"a">>, <<"a", "b">>, <<"a", "b", "b">>, <<"b", "a">> >>
MCOrders == {<<>>, <<2, 1>>, <<4, 2, 3>>}
Ask1(q, re, k) == [query |-> q, regex |-> re, limit |-> k]
MCRequests == {Ask1(<<"a">>, FALSE, 1), Ask1(<<"a", "c", "b">>, FALSE, 1), Ask1(<<"a", "b">>, FALSE, 2),
               Ask1(<<"c", "b", "a">>, FALSE, 0)}
  \cup {Ask1(q, TRUE, 2) : q \in {<<"b", "+", "a">>, <<"a", "b", "+", "b">>, <<"^", "a", "*", "b", "$">>,
                                  <<"a", "+", "*", "c", "?">>, <<"b", "b", "|", "a">>, <<"+", "a">>}}

\* Instances 1, 11, 111, 12, ..., and 131 inside the generate block 13.
Inst == {<<1>>, <<1, 1>>, <<1, 1, 1>>, <<1, 2>>, <<1, 2, 1>>, <<1, 2, 2>>, <<1, 3, 1>>, <<1, 3, 1, 1>>, <<2>>}
Design(recorded) == [instances |-> Inst, blocks |-> {<<1, 3>>}, signals |-> {Append(p, 9) : p \in Inst}, recorded |-> recorded]
MCDesigns == {Design(TRUE), Design(FALSE), [instances |-> {}, blocks |-> {}, signals |-> {<<9>>}, recorded |-> TRUE]}
MCHierRequests == [root : {<<>>, <<1>>, <<1, 2>>, <<1, 3, 1>>, <<3>>}, depth : 0 .. 3, max : 0 .. 6]

\* Options, each with a value that is good and one that is not; with words of
\* 8 bits, 200 is too large for a signed number and 300 for any.
Both == {<<"--db", "d">>, <<"--format", "xml">>, <<"--help">>}
MCGroups == [
  trace |-> Both \cup {<<"--mode", "drivers">>, <<"--mode", "both">>, <<"--signal", "(">>, <<"--signal", "">>,
    <<"--depth", "-1">>, <<"--cone-level", "0">>, <<"--cone-level", "200">>, <<"--cone-level", "3">>,
    <<"--include", "(">>, <<"--include", "--mode">>, <<"--prefer-port-hop">>, <<"--max-nodes">>, <<"--signal">>},
  find |-> Both \cup {<<"--query", "(">>, <<"--query", "d">>, <<"--query", "--regex">>, <<"--regex">>, <<"--limit", "3">>},
  hier |-> Both \cup {<<"--root", "d">>, <<"--depth", "d">>, <<"--depth", "300">>, <<"--max-nodes", "-1">>, <<"--show-source">>},
  whereis |-> Both \cup {<<"--instance", "d">>, <<"--instance", "">>, <<"--show-params">>} ]
MCNumeral == ("0" :> 0) @@ ("3" :> 3) @@ ("-1" :> -1) @@ ("200" :> 200) @@ ("300" :> 300)
============================================================================
