--------------------------- MODULE MCTraceQueries ---------------------------
(* Small netlists of each kind of record that a compile writes.            *)
EXTENDS TraceQueries, TLC

R(kind, path, bits, site) ==
  [kind |-> kind, path |-> path, bits |-> bits, approx |-> FALSE, cover |-> {}, legacy |-> FALSE, merged |-> FALSE,
   routes |-> <<>>, unresolved |-> FALSE, constant |-> FALSE, dir |-> "input", lhs |-> <<>>, rhs |-> <<>>, site |-> site]
X(path, bits, site) == R("expr", path, bits, site)
Covers2(e, bits) == [e EXCEPT !.cover = bits]
Ref(e, names) == [e EXCEPT !.rhs = names]
Approx(e) == [e EXCEPT !.approx = TRUE]
B(hi, lo) == << <<hi, lo>> >>
Piece(t, low, high, tlow) == [target |-> t, low |-> low, high |-> high, tlow |-> tlow]
Compact(s, n, pieces) == [Covers2(R("port", s, <<>>, "port"), 0 .. n - 1) EXCEPT !.routes = pieces]
Unmapped(s) == R("port", s, <<>>, "port")
Failed1(s) == [Covers2(R("port", s, <<>>, "mark"), {0, 1}) EXCEPT !.unresolved = TRUE]
Tied(s) == [Covers2(R("port", s, <<>>, "tie"), {0}) EXCEPT !.constant = TRUE]

\* Drivers of r, 2 bits: native assignments, merged or not; a port whose
\* bits go to a and b, resolved or compact, with a constant, or not resolved;
\* a port that is not mapped; none.
DriversOfR == {
  <<[X("r", B(1, 0), "r10") EXCEPT !.merged = TRUE]>>,
  <<Ref(X("r", B(0, 0), "r0"), <<"a">>), Ref(X("r", B(1, 1), "r1"), <<"b", "a">>)>>,
  <<Compact("r", 2, <<Piece("a", 0, 0, 1), Piece("b", 1, 1, 0)>>)>>,
  <<Compact("r", 2, <<Piece("a", 0, 1, 0), Piece("b", 1, 1, 0)>>), Ref(X("r", <<>>, "rw"), <<"a">>)>>,
  <<Compact("r", 2, <<Piece("a", 0, 0, 0), Piece("b", 0, 0, 0), Piece("a", 1, 1, 0)>>)>>,
  <<Covers2(X("a", B(1, 1), "a1"), {0}), Covers2(X("b", <<>>, "b0"), {1}), Tied("r")>>,
  <<Failed1("r"), Approx(Covers2(X("a", B(0, 0), "a0"), {0, 1})), Covers2(X("b", <<>>, "b0"), {1}),
    Approx(Covers2(Unmapped("a"), {0, 1}))>>,
  <<Unmapped("r")>>, <<Unmapped("a"), Unmapped("u")>>, <<>> }
DriversOfA == {
  <<X("a", B(0, 0), "a0"), Ref(X("a", B(1, 1), "a1"), <<"b">>)>>,
  <<[X("a", B(1, 0), "a10") EXCEPT !.merged = TRUE]>>,
  <<Compact("a", 2, <<Piece("r", 0, 0, 1), Piece("b", 1, 1, 0)>>)>>,
  <<Approx(X("a", <<Symbolic>>, "ax")), X("a", B(1, 1), "a1")>> }
\* On the other side a and b list the port r, or an assignment of r reads b.
LoadsOfA == { <<>>, <<Covers2(X("r", B(0, 0), "l0"), {1}), Covers2(X("r", B(1, 1), "l1"), {0})>>, <<Unmapped("r")>> }
LoadsOfB == { <<>>, <<[X("b", <<>>, "bl") EXCEPT !.lhs = <<"r">>]>> }

Netlist(r, a, la, lb, w, covered) ==
  [names |-> <<"r", "a", "b">>, width |-> ("r" :> w) @@ ("a" :> 2) @@ ("b" :> 1),
   drivers |-> ("r" :> r) @@ ("a" :> a) @@ ("b" :> <<Ref(X("b", <<>>, "b0"), <<"r">>)>>),
   loads |-> ("r" :> <<>>) @@ ("a" :> la) @@ ("b" :> lb), globals |-> [x \in {} |-> {}], covered |-> covered]
Opposite(d) ==
  LET turn(list) == [i \in DOMAIN list |-> [list[i] EXCEPT !.lhs = list[i].rhs, !.rhs = list[i].lhs]]
  IN  [d EXCEPT !.drivers = [s \in DOMAIN d.loads |-> turn(d.loads[s])],
                !.loads = [s \in DOMAIN d.drivers |-> turn(d.drivers[s])]]
Clocked(d) == [d EXCEPT !.globals = "b" :> {"q1", "q2"}, !.loads["b"] = <<>>]
Driven == {Netlist(r, a, l[1], l[2], 2, TRUE) : r \in DriversOfR, a \in DriversOfA,
                     l \in {<<la, <<>> >> : la \in LoadsOfA} \cup {<< <<>>, lb>> : lb \in LoadsOfB}}
   \cup {Netlist(r, a, la, <<>>, 0, c) : c \in BOOLEAN, r \in {<<Unmapped("r")>>, <<Unmapped("a")>>, <<Ref(X("r", B(0, 0), "r0"), <<"a">>)>>},
                                              a \in {x \in DriversOfA : x[1].routes = <<>>}, la \in {<<>>, <<Unmapped("r")>>}}
MCNetlists == Driven \cup {Opposite(d) : d \in Driven} \cup {Clocked(Opposite(d)) : d \in {n \in Driven : n.loads["a"] = <<>>}}

Request == [drivers : BOOLEAN, root : {"r"}, select : {<<>>, <<0, 0>>, <<1, 1>>}, depth : {9}, max : {9}, cone : {1, 3},
            hop : {FALSE}, stopAt : {{}}, exclude : {{}}]
\* Every limit in turn.
Limited == {[q EXCEPT !.select = sel, !.cone = 2, !.depth = l[1], !.max = l[2], !.hop = l[3], !.stopAt = l[4], !.exclude = l[5]] :
             q \in {r \in Request : r.cone = 1 /\ r.select = <<>>}, sel \in {<<>>, <<1, 1>>},
             l \in {<<9, 9, TRUE, {}, {}>>, <<1, 9, TRUE, {}, {}>>, <<9, 2, FALSE, {}, {}>>, <<9, 9, FALSE, {"a"}, {}>>, <<9, 9, TRUE, {}, {"a"}>>}}
MCTraceRequests == Request \cup Limited

============================================================================
