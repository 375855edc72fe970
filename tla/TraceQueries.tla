---------------------------- MODULE TraceQueries ----------------------------
(***************************************************************************)
(* RunTraceQuery: the walk from a signal to what drives or loads it,       *)
(* across ports and through the assignments of a cone, with its limits.    *)
(*                                                                         *)
(* A netlist d has names (a sequence, in the order of their ids), the      *)
(* width of each (0: the layout is not known), the lists drivers and loads *)
(* of endpoints, globals (compacted nets |-> their sinks) and covered (the *)
(* database has port coverages).  To the fields of EndpointLists an        *)
(* endpoint adds kind, dir, lhs and rhs (sequences of names) and site, the *)
(* place in the source.  Members of structs are left out, and a bitmap has *)
(* one axis.  A domain is a set of at most one set of bits: {} is the      *)
(* whole signal.                                                           *)
(***************************************************************************)
EXTENDS EndpointLists, Functions

CONSTANTS Netlists,
          TraceRequests,   \* [drivers, root, select (<<>> or a range), depth, max, cone, hop, stopAt, exclude]
          kRoutePieces     \* pieces of a compact port that are followed, 512 in the code

Names(d) == ToSet(d.names)
Marker(e) == e.constant \/ e.unresolved
Runs(bits) ==    \* a set of bits as ranges, in their order
  LET low == Ascending({b \in bits : b - 1 \notin bits})
  IN  [k \in DOMAIN low |-> <<Min({b \in bits : b >= low[k] /\ b + 1 \notin bits}), low[k]>>]

Whole(d, s) == {0 .. w - 1 : w \in {d.width[s]} \ {0}}
PortNativeDomain(d, e, s) ==
  IF e.path # s \/ e.approx THEN {}
  ELSE IF e.bits = <<>> THEN Whole(d, s)
  ELSE {Span(r) : r \in {q \in ParseExactBitMapText(e.bits) : \E w \in Whole(d, s) : Span(q) \subseteq w}}

SessionBridgeRefs(d, drivers, path) ==
  LET lists == IF drivers THEN d.loads ELSE d.drivers
  IN  Picked(d.names, {i \in DOMAIN d.names : \E e \in ToSet(lists[d.names[i]]) : ~Marker(e) /\ e.path = path})
SessionPortBridgeDomain(d, drivers, source, target, domain) ==
  LET opposite == ToSet(IF drivers THEN d.loads[target] ELSE d.drivers[target])
      related == {e \in opposite : e.cover # {} /\ ~Marker(e) /\ e.path = source}
      meets(e) == \A a \in PortNativeDomain(d, e, source), b \in domain : a \cap b # {}
  IN  IF related = {} \/ \E e \in related : PortNativeDomain(d, e, source) = {} THEN {}
      ELSE {UNION {e.cover : e \in {f \in related : meets(f)}}}

SessionLegacyHopEndpointView(d, list) == MergeEndpointBitRangesInPlace(
  [i \in DOMAIN list |->
     IF /\ list[i].kind = "expr" /\ ~list[i].approx /\ ~Marker(list[i])
        /\ ParseExactBitMapText(list[i].bits) # {} /\ PortNativeDomain(d, list[i], list[i].path) # {}
     THEN [list[i] EXCEPT !.cover = {}, !.legacy = TRUE] ELSE list[i]])

(* The part of an endpoint of s in a domain, {} if that is not known.      *)
SessionConstrainPortEndpoint(d, e, s, domain) ==
  LET clip(native) ==
        IF native \cap domain = {} THEN <<>>
        ELSE IF native \subseteq domain THEN <<e>>
        ELSE LET runs == Runs(native \cap domain)
             IN  [k \in DOMAIN runs |-> [e EXCEPT !.bits = <<runs[k]>>, !.merged = FALSE]]
  IN  IF e.cover # {} THEN {IF e.cover \cap domain = {} THEN <<>> ELSE <<e>>}
      ELSE IF Whole(d, s) = {domain} THEN {<<e>>}
      ELSE {clip(native) : native \in PortNativeDomain(d, e, s)}

(* Loads that assign the signal, for a root without drivers.               *)
FindFallbackDriverEndpoints(d, s) ==
  LET assigning(list) == Picked(list, {i \in DOMAIN list : s \in ToSet(list[i].lhs)})
  IN  FlattenSeq([i \in DOMAIN d.names |-> assigning(d.loads[d.names[i]])])

(* What the compile writes and the reader of a database verifies: a record *)
(* covers bits of its owner, unless the layout is unknown and the record   *)
(* only marks that; a port has no bits of its own; a range is one of its   *)
(* signal; a compact port leads to bits that its targets have.  A selected *)
(* range is one of the root, and a statement that assigns a signal without *)
(* drivers has no coverage.                                                *)
IsEndpointOf(d, s, e) ==
  /\ IsEndpointRecord(e) /\ {"kind", "path", "dir", "lhs", "rhs", "site"} \subseteq DOMAIN e
  /\ {e.unresolved, e.constant} \subseteq BOOLEAN
  /\ e.lhs \in Seq(ToSet(e.lhs)) /\ e.rhs \in Seq(ToSet(e.rhs)) /\ e.routes \in Seq(ToSet(e.routes))
  /\ (e.cover # {} /\ ~Marker(e)) => e.cover \subseteq 0 .. d.width[s] - 1
  /\ e.kind = "port" => e.bits = <<>>
  /\ \A r \in ParseExactBitMapText(e.bits) : e.path \in Names(d) => \A w \in Whole(d, e.path) : Span(r) \cap w # {}
  /\ \A r \in ToSet(e.routes) :
       /\ {r.low, r.high, r.tlow} \subseteq Int /\ r.low .. r.high \subseteq e.cover
       /\ r.target \in Names(d) /\ \A b \in r.low .. r.high : r.tlow + b - r.low \in 0 .. d.width[r.target] - 1
IsNetlist(d) ==
  /\ d.names \in Seq(Names(d)) /\ d.width \in [Names(d) -> Nat]
  /\ \A s \in Names(d) :
       /\ d.drivers[s] \in Seq(ToSet(d.drivers[s])) /\ d.loads[s] \in Seq(ToSet(d.loads[s]))
       /\ \A e \in ToSet(d.drivers[s]) \cup ToSet(d.loads[s]) : IsEndpointOf(d, s, e)
       /\ d.drivers[s] = <<>> => \A e \in ToSet(FindFallbackDriverEndpoints(d, s)) : e.cover = {}
ASSUME TraceAssumption ==
  /\ \A d \in Netlists : IsNetlist(d)
  /\ \A o \in TraceRequests :
       /\ o.select \in {<<>>} \cup (Int \X Int) /\ {o.depth, o.cone, o.max} \subseteq Nat /\ {o.drivers, o.hop} \subseteq BOOLEAN
       /\ \A d \in Netlists : o.root \in Names(d) /\ o.select # <<>> => \A w \in Whole(d, o.root) : Span(o.select) \subseteq w

EndpointKey(e) == [e EXCEPT !.cover = {}, !.routes = <<>>, !.legacy = FALSE, !.merged = FALSE]
LoadSiteKey(e) == EndpointKey([e EXCEPT !.bits = <<>>, !.approx = FALSE])

---------------------------------------------------------------------------
VARIABLES tracePhase,    \* "idle", "walk" or "done"
          netlist, opts, \* what is asked
          stack,         \* calls and edges that are still to be looked at, the next one first
          routes,        \* visited: <<signal, approximate, domain>>
          capped,        \* node_cap_hit
          logic, ports,  \* what was collected: [key, shown]
          settled,       \* sites of loads that the root has decided
          rootPorts, portSources,  \* of the failed mappings of the root; portSources is optional
          traceStops     \* pairs <<reason, name>>
traceVars == <<tracePhase, netlist, opts, stack, routes, capped, logic, ports, settled, rootPorts, portSources, traceStops>>

NoTrace == [drivers |-> TRUE, root |-> "", select |-> <<>>]
NoNetlist == [names |-> <<>>]
TraceInit ==
  /\ tracePhase = "idle" /\ netlist = NoNetlist /\ opts = NoTrace /\ stack = <<>> /\ routes = {} /\ capped = FALSE
  /\ logic = {} /\ ports = {} /\ settled = {} /\ rootPorts = {} /\ portSources = {} /\ traceStops = {}

RootDomain == {Span(opts.select) : x \in {y \in Whole(netlist, opts.root) : opts.select # <<>>}}
RootMatches(e) ==
  \/ opts.select = <<>>
  \/ IF e.cover # {}
     THEN IF RootDomain = {} THEN e.unresolved ELSE \A b \in RootDomain : e.cover \cap b # {}
     ELSE EndpointMatchesSignalSelect(e, opts.select)
Allowed(e) == e.path \notin opts.exclude

(* The sinks of a compacted net: nothing else is known of its loads.       *)
GlobalNet(s) == ~opts.drivers /\ s \in DOMAIN netlist.globals
Sink(path, selected) ==
  [kind |-> "expr", path |-> path, bits |-> <<>>, approx |-> selected, cover |-> {}, legacy |-> FALSE, merged |-> FALSE,
   routes |-> <<>>, unresolved |-> FALSE, constant |-> FALSE, dir |-> "", lhs |-> <<>>, rhs |-> <<>>, site |-> "global"]
TryRunGlobalNetFastPath(d, o) ==
  LET selected == o.select # <<>>
      sinks == {Sink(p, selected) : p \in d.globals[o.root]}
  IN  /\ ~o.drivers /\ o.root \in DOMAIN d.globals
      /\ logic' = {[key |-> EndpointKey(e), shown |-> e] : e \in sinks}
      /\ traceStops' = {<<"global-net", s>> : s \in {t \in {o.root} : selected}}
      /\ tracePhase' = "done" /\ UNCHANGED stack

Call(s, depth, cone, domain, approx) ==
  [task |-> "visit", sig |-> s, depth |-> depth, cone |-> cone, domain |-> IF approx THEN {} ELSE domain, approx |-> approx]
Trace ==
  /\ tracePhase = "idle"
  /\ \E d \in Netlists, o \in TraceRequests :
       /\ o.root \in Names(d) /\ netlist' = d /\ opts' = o
       /\ \/ TryRunGlobalNetFastPath(d, o)
          \/ /\ o.drivers \/ o.root \notin DOMAIN d.globals
             /\ stack' = <<Call(o.root, 0, 0, {}, FALSE)>> /\ tracePhase' = "walk" /\ UNCHANGED <<logic, traceStops>>
  /\ UNCHANGED <<routes, capped, ports, settled, rootPorts, portSources>>

---------------------------------------------------------------------------
(* A visit of a signal: walk_route.                                        *)
(* Mutant: a signal is visited once, whatever its bits.                    *)
RouteOfSignal(w) == <<w.sig, w.approx, {}>>
Route(w) == <<w.sig, w.approx, w.domain>>
Refusal(w) ==
  CASE w.domain = {{}} -> "empty"
    [] w.depth > opts.depth -> "depth_limit"
    [] capped -> "capped"
    [] Cardinality(routes) >= opts.max -> "node_limit"
    [] Route(w) \in routes -> "cycle"
    [] w.sig \in opts.stopAt -> "stop_at"
    [] OTHER -> "none"
Visiting == tracePhase = "walk" /\ stack # <<>> /\ Head(stack).task = "visit"

RefuseVisit ==
  /\ Visiting /\ Refusal(Head(stack)) # "none"
  /\ LET w == Head(stack) reason == Refusal(w) IN
     /\ capped' = (capped \/ reason = "node_limit")
     /\ routes' = IF reason = "stop_at" THEN routes \cup {Route(w)} ELSE routes
     /\ traceStops' = traceStops \cup {<<r, w.sig>> : r \in {reason} \ {"empty", "capped"}}
  /\ stack' = Tail(stack)
  /\ UNCHANGED <<tracePhase, netlist, opts, logic, ports, settled, rootPorts, portSources>>

WholeGlobal(w) == GlobalNet(w.sig) /\ w.domain # {} /\ w.domain = Whole(netlist, w.sig)
VisitGlobal ==
  /\ Visiting /\ Refusal(Head(stack)) = "none" /\ WholeGlobal(Head(stack))
  /\ logic' = logic \cup {c \in {[key |-> EndpointKey(e), shown |-> e] :
                                   e \in {Sink(p, FALSE) : p \in netlist.globals[Head(stack).sig]}} :
                            Allowed(c.shown) /\ \A l \in logic : l.key # c.key}
  /\ routes' = routes \cup {Route(Head(stack))} /\ stack' = Tail(stack)
  /\ UNCHANGED <<tracePhase, netlist, opts, capped, ports, settled, rootPorts, portSources, traceStops>>

Recorded(s) == IF opts.drivers THEN netlist.drivers[s] ELSE netlist.loads[s]
OfFallback(s) == opts.drivers /\ netlist.drivers[s] = <<>> /\ s = opts.root
Edges(s) == IF OfFallback(s) THEN FindFallbackDriverEndpoints(netlist, s) ELSE Recorded(s)
(* The edges in a domain; one whose part is not known is kept whole.       *)
Constrained(w) == FlattenSeq([i \in DOMAIN Edges(w.sig) |->
  LET e == Edges(w.sig)[i]
      part == SessionConstrainPortEndpoint(netlist, e, w.sig, CHOOSE b \in w.domain : TRUE)
  IN  IF part = {} THEN <<[e EXCEPT !.approx = TRUE]>> ELSE CHOOSE p \in part : TRUE])
Unproven(w) == {e.path : e \in {f \in ToSet(Edges(w.sig)) :
  \E b \in w.domain : SessionConstrainPortEndpoint(netlist, f, w.sig, b) = {}}}

VisitSignal ==
  /\ Visiting /\ Refusal(Head(stack)) = "none" /\ ~WholeGlobal(Head(stack))
  /\ LET w == Head(stack)
         constrain == w.domain # {} /\ ~w.approx
         active == IF constrain THEN Constrained(w)
                   ELSE IF w.approx /\ w.domain = {} THEN SessionLegacyHopEndpointView(netlist, Edges(w.sig))
                   ELSE Edges(w.sig)
         marked == \E e \in ToSet(Edges(w.sig)) : e.unresolved
         failed == marked \/ (constrain /\ Unproven(w) # {})
         copies == {e \in ToSet(Edges(w.sig)) : e.approx /\ e.cover # {} /\ RootMatches(e)}
         sources == {e.path : e \in {f \in copies : f.kind # "port"}}
         own == ~constrain /\ ~w.approx /\ ~OfFallback(w.sig)
         frame(e) == [task |-> "edge", sig |-> w.sig, depth |-> w.depth, cone |-> w.cone, domain |-> w.domain,
                      approx |-> w.approx, failed |-> failed, own |-> own, edge |-> e]
     IN  /\ routes' = routes \cup {Route(w)}
         /\ stack' = [i \in DOMAIN active |-> frame(active[i])] \o Tail(stack)
         /\ settled' = settled \cup
              {LoadSiteKey(e) : e \in {f \in ToSet(Edges(w.sig)) :
                 /\ ~opts.drivers /\ ~w.approx /\ w.domain = {} /\ w.sig = opts.root
                 /\ f.kind = "expr" /\ ~f.approx /\ ~Marker(f)}}
         /\ IF w.sig = opts.root /\ marked
            THEN /\ rootPorts' = rootPorts \cup {e.path : e \in {f \in copies : f.kind = "port"}}
                 /\ portSources' = {UNION portSources \cup sources : x \in {y \in {1} : portSources # {} \/ sources # {}}}
            ELSE UNCHANGED <<rootPorts, portSources>>
         /\ traceStops' = traceStops \cup (IF constrain THEN {<<"target-domain", p>> : p \in Unproven(w)} ELSE {})
  /\ UNCHANGED <<tracePhase, netlist, opts, capped, logic, ports>>

---------------------------------------------------------------------------
(* An edge: what it adds, and the calls it makes, in their order.          *)
Effect == [stops |-> {}, logic |-> {}, ports |-> {}, calls |-> <<>>]
Stop(reason, name) == [Effect EXCEPT !.stops = {<<reason, name>>}]
Approximate(f) == f.approx \/ (f.failed /\ f.edge.approx)
Endpoint(f) == [f.edge EXCEPT !.approx = @ \/ Approximate(f)]
Down(f, s, cone, domain) == Call(s, f.depth + 1, cone, domain, Approximate(f))

(* A compact port: each target with the bits that the domain maps to.      *)
(* Mutant: the place of the piece in its target is forgotten.              *)
MappedFromZero(route, bits) == {b - route.low : b \in bits \cap (route.low .. route.high)}
Mapped(route, bits) == {route.tlow + b - route.low : b \in bits \cap (route.low .. route.high)}
CompactPort(f) ==
  LET e == f.edge
      selected == IF f.domain # {} THEN f.domain
                  ELSE IF f.sig = opts.root /\ RootDomain # {} THEN RootDomain ELSE Whole(netlist, f.sig)
      bits == UNION selected
      runs(r) == ToSet(Runs(bits \cap (r.low .. r.high)))
      pieces == UNION {{i} \X runs(e.routes[i]) : i \in DOMAIN e.routes}
      used == {i \in DOMAIN e.routes : Mapped(e.routes[i], bits) # {}}
      first == {i \in used : \A j \in used : j < i => e.routes[j].target # e.routes[i].target}
      domain(t) == UNION {Mapped(r, bits) : r \in {x \in ToSet(e.routes) : x.target = t}}
  IN  IF selected = {} THEN Stop("owner-layout", e.path)
      ELSE IF Cardinality(pieces) > kRoutePieces THEN Stop("route-cap", e.path)
      ELSE [Effect EXCEPT !.calls = Picked([i \in DOMAIN e.routes |->
              LET t == e.routes[i].target IN Down(f, t, f.cone, {domain(t)})], first)]

Others(f, names) == Picked(names, {i \in DOMAIN names : names[i] # f.sig /\ names[i] \in Names(netlist)})
Direct(f) == Others(f, <<f.edge.path>>)
Bridges(f) == Others(f, SessionBridgeRefs(netlist, opts.drivers, f.edge.path))
CallsTo(f, names, cone) == [k \in DOMAIN names |-> Down(f, names[k], cone, {})]

ClipRootMergedEndpointCopy(e) ==
  LET r == e.bits[1]
      common == Span(r) \cap Span(opts.select)
  IN  IF \/ e.cover # {} \/ ~e.merged \/ e.approx \/ opts.select = <<>> \/ ParseExactBitMapText(e.bits) = {}
         \/ common = {}
      THEN e
      ELSE [e EXCEPT !.bits = << IF r[1] < r[2] THEN <<Min(common), Max(common)>> ELSE FormatBitRange(Max(common), Min(common)) >>]

Assignment(f) ==
  LET e == Endpoint(f)
      shown == IF f.sig = opts.root /\ e.path = f.sig /\ f.own THEN ClipRootMergedEndpointCopy(e) ELSE e
      refs == IF opts.drivers THEN e.rhs ELSE e.lhs
      hops == IF opts.hop THEN Direct(f) \o Bridges(f) ELSE <<>>
      deeper == f.cone + 1 < opts.cone
      next == IF ~deeper THEN <<>> ELSE IF refs = <<>> THEN hops ELSE Others(f, refs)
  IN  [Effect EXCEPT
        !.logic = {[key |-> EndpointKey(e), shown |-> shown]},
        !.calls = CallsTo(f, next, f.cone + 1),
        !.stops = IF deeper /\ refs # <<>> THEN {<<"missing_signal", s>> : s \in ToSet(refs) \ (Names(netlist) \cup {f.sig})}
                  ELSE IF (deeper /\ hops = <<>>) \/ (~deeper /\ (e.rhs # <<>> \/ e.lhs # <<>>))
                  THEN {<<"cone_limit", e.path>>} ELSE {}]

(* A port that is not mapped: to the signal of its path, and over the      *)
(* bridge to the signals that list it on the other side.  From the first   *)
(* bridge whose bits cannot be told the rest is approximate.               *)
FollowBridge(f, s, target) ==
  LET source == f.edge.path
      selected == IF source = f.sig /\ f.domain # {} THEN f.domain
                  ELSE IF source = opts.root THEN RootDomain ELSE {}
      domain == SessionPortBridgeDomain(netlist, opts.drivers, source, target, selected)
      unproven == domain = {} /\ (selected # {} \/ Whole(netlist, target) # {})
  IN  IF s.approx \/ ~netlist.covered THEN [s EXCEPT !.calls = Append(@, Call(target, f.depth + 1, f.cone, {}, s.approx))]
      ELSE [approx |-> unproven,
            stops |-> s.stops \cup {<<"bridge-domain", t>> : t \in {u \in {target} : unproven}},
            calls |-> Append(s.calls, Call(target, f.depth + 1, f.cone, domain, unproven))]
FollowBridges(f, targets) ==
  LET state[k \in 0 .. Len(targets)] ==
        IF k = 0 THEN [approx |-> Approximate(f), stops |-> {}, calls |-> <<>>] ELSE FollowBridge(f, state[k - 1], targets[k])
  IN  state[Len(targets)]
Port(f) ==
  LET e == Endpoint(f)
      bridges == FollowBridges(f, IF f.edge.path \in Names(netlist) THEN Bridges(f) ELSE <<>>)
      calls == CallsTo(f, Direct(f), f.cone) \o bridges.calls
      kept == Allowed(e) /\ (Approximate(f) \/ calls = <<>>)
      undeclared == {p \in {e.path} \ Names(netlist) : Bridges(f) # <<>>}
  IN  [Effect EXCEPT
        !.calls = calls, !.ports = {[key |-> EndpointKey(e), shown |-> e] : x \in {y \in {1} : kept}},
        !.stops = bridges.stops \cup {<<"missing-source", p>> : p \in undeclared}
                  \cup (IF calls = <<>> /\ ~Allowed(e) THEN {<<"filtered", e.path>>} ELSE {})
                  \cup (IF e.cover # {} THEN {<<"port_boundary", e.path>>} ELSE {})]

EdgeEffect(f) ==
  LET e == Endpoint(f)
      isSettled == ~opts.drivers /\ Approximate(f) /\ e.kind = "expr" /\ LoadSiteKey(e) \in settled
      outside == /\ ~Approximate(f) \/ e.cover # {}
                 /\ f.sig = opts.root /\ ~(f.domain # {} /\ e.path = f.sig) /\ ~RootMatches(e)
      terminal == e.kind = "port" /\ e.cover # {} /\ ~Approximate(f)
  IN  IF isSettled THEN Effect
      ELSE IF outside THEN Stop("bit_filter", e.path)
      ELSE IF Marker(e) THEN Stop(IF e.constant THEN "constant_connection" ELSE "mapping-is-unproven", e.path)
      ELSE IF e.routes # <<>> THEN CompactPort(f)
      ELSE IF terminal
      THEN [Stop("port_boundary", e.path) EXCEPT
              !.logic = {[key |-> EndpointKey(e), shown |-> e] : x \in {y \in {1} : Allowed(e)}}]
      ELSE IF e.kind = "port" THEN Port(f)
      ELSE IF ~Allowed(e) THEN Stop("filtered", e.path)
      ELSE Assignment(f)

New(set, found) == set \cup {c \in found : \A k \in set : k.key # c.key}
Edge ==
  /\ tracePhase = "walk" /\ stack # <<>> /\ Head(stack).task = "edge"
  /\ LET effect == EdgeEffect(Head(stack)) IN
     /\ logic' = New(logic, effect.logic)
     /\ ports' = New(ports, effect.ports)
     /\ traceStops' = traceStops \cup effect.stops
     /\ stack' = effect.calls \o Tail(stack)
  /\ UNCHANGED <<tracePhase, netlist, opts, routes, capped, settled, rootPorts, portSources>>

TraceDone ==
  /\ tracePhase = "walk" /\ stack = <<>> /\ tracePhase' = "done"
  /\ UNCHANGED <<netlist, opts, stack, routes, capped, logic, ports, settled, rootPorts, portSources, traceStops>>

TraceNext == Trace \/ RefuseVisit \/ VisitGlobal \/ VisitSignal \/ Edge \/ TraceDone

(* Boundary ports are shown if nothing else was found, or if they may hide *)
(* something that was not.                                                 *)
Boundary(e) ==
  \/ ~opts.drivers /\ ~e.approx
  \/ /\ e.approx /\ (opts.drivers \/ e.path # opts.root \/ e.dir # "input")
     /\ portSources = {} \/ e.path \in rootPorts \cup UNION portSources
TraceResult ==
  {c.shown : c \in logic} \cup {c.shown : c \in {p \in ports : logic = {} \/ Boundary(p.shown)}}

---------------------------------------------------------------------------
(* The reference: what is connected, bit by bit, in any order.  A node is  *)
(* a signal, a bit (NoBit if the layout is not known) and the number of    *)
(* assignments that were crossed.                                          *)
NoBit == -1
Bits(s) == IF netlist.width[s] = 0 THEN {NoBit} ELSE 0 .. netlist.width[s] - 1
Selected == IF opts.select # <<>> THEN Span(opts.select) ELSE Bits(opts.root)
Concerns(e, s, b) ==
  /\ ~Marker(e)
  /\ IF e.cover # {} THEN b \in e.cover
     ELSE e.path # s \/ e.approx \/ b = NoBit \/ \A r \in ParseExactBitMapText(e.bits) : b \in Span(r)

(* Bits of target beyond a port of s; {} if they cannot be told.           *)
BridgeBits(e, s, b, target, any) ==
  LET selected == IF e.path = s THEN {{b} \ {NoBit}} \ {{}} ELSE IF e.path = opts.root THEN RootDomain ELSE {}
      domain == SessionPortBridgeDomain(netlist, opts.drivers, e.path, target, selected)
  IN  IF ~netlist.covered \/ any \/ (domain = {} /\ Whole(netlist, target) = {})
      THEN Bits(target) ELSE UNION domain
Beyond(e, s, b, any) ==
  LET known(names) == (ToSet(names) \cap Names(netlist)) \ {s}
  IN  {<<t, x>> : t \in known(<<e.path>>), x \in UNION {Bits(t) : t \in known(<<e.path>>)}}
      \cup UNION {{<<t, x>> : x \in BridgeBits(e, s, b, t, any)} :
                  t \in {u \in known(SessionBridgeRefs(netlist, opts.drivers, e.path)) : any \/ e.path \in Names(netlist)}}
Neighbours(e, node, any) ==
  LET s == node[1] b == node[2] cone == node[3]
      listed == ToSet(IF opts.drivers THEN e.rhs ELSE e.lhs)
      refs == (listed \cap Names(netlist)) \ {s}
      at(places, c) == {<<p[1], p[2], c>> : p \in places}
  IN  IF e.routes # <<>>
      THEN UNION {at({r.target} \X (IF any THEN Bits(r.target) ELSE {r.tlow + x - r.low : x \in {b} \cap (r.low .. r.high)}), cone) :
                  r \in ToSet(e.routes)}
      ELSE IF e.kind = "port" THEN IF e.cover = {} \/ any THEN at(Beyond(e, s, b, any), cone) ELSE {}
      ELSE IF cone + 1 >= opts.cone THEN {}
      ELSE IF listed = {} THEN IF opts.hop THEN at(Beyond(e, s, b, TRUE), cone + 1) ELSE {}
      ELSE {<<t, x, cone + 1>> : t \in refs, x \in UNION {Bits(t) : t \in refs}}

(* The nodes that are reached over the edges in use, in so many steps;     *)
(* exact leaves out the edges that are approximate and, of a root that is  *)
(* met again, the bits that were not selected; any takes every edge for    *)
(* whole signals.                                                          *)
InUse(node, exact, any) == {e \in ToSet(Edges(node[1])) :
  IF any THEN ~Marker(e) ELSE Concerns(e, node[1], node[2]) /\ (exact => ~e.approx)}
Entered(nodes) == {x \in nodes : x[1] \notin opts.stopAt}
Further(nodes, exact, any) ==
  LET valid(x) == x[2] \in (IF exact /\ x[1] = opts.root THEN Selected ELSE Bits(x[1]))
  IN  {y \in UNION {UNION {Neighbours(e, x, any) : e \in InUse(x, exact, any)} : x \in Entered(nodes)} : any \/ valid(y)}
Steps(exact, any) ==
  LET reach[k \in 0 .. opts.depth + 9] ==
        IF k = 0 THEN {<<opts.root, b, 0>> : b \in Selected}
        ELSE LET nodes == reach[k - 1] IN nodes \cup Further(nodes, exact, any)
  IN  reach
Reached(exact, any) == Entered(Steps(exact, any)[opts.depth + 9])
Sites(exact, any) == UNION {{e.site : e \in {f \in InUse(x, exact, any) : f.kind = "expr"}} : x \in Reached(exact, any)}

Shown == {e \in TraceResult : e.kind = "expr" /\ e.site # "global"}
Excused(reasons) == \E t \in traceStops : t[1] \in reasons
Limits == {"depth_limit", "node_limit", "filtered", "owner-layout", "route-cap"}

(* What is connected is found, whatever the order of the walk and however  *)
(* often it meets a signal with other bits, unless a stop says what was    *)
(* left out; a cycle is no such stop.                                      *)
NothingMissed ==
  (tracePhase = "done" /\ ~Excused(Limits \cup {"cone_limit"}) /\ ~GlobalNet(opts.root))
  => Sites(TRUE, FALSE) \subseteq {e.site : e \in Shown}

(* What is shown as exact is connected to the selected bits; what is shown *)
(* as approximate is connected if the bits of a failed mapping are ignored.*)
NothingForeign ==
  tracePhase = "done" =>
    \A e \in Shown : IF e.approx THEN e.site \in Sites(FALSE, TRUE) ELSE e.site \in Sites(FALSE, FALSE)
============================================================================
