---------------------------- MODULE HierQueries ----------------------------
(***************************************************************************)
(* The instance hierarchy: what a compile records of it, what an old       *)
(* database without it makes of its signal names, and the tree that `hier` *)
(* prints, with its limits (HierQuery.cc, GraphDb.cc).                     *)
(*                                                                         *)
(* A path is a sequence of numbers, the names of its scopes in their       *)
(* order.  A design d has instances, generate blocks and signals;          *)
(* d.recorded says that the database has a table of instances.             *)
(***************************************************************************)
EXTENDS Listings

CONSTANTS Designs,        \* [instances, blocks, signals, recorded]
          HierRequests    \* [root: "" for the first root, or a path, depth, max]

ASSUME HierAssumption ==
  /\ \A d \in Designs :
       /\ d.instances \cap d.blocks = {}
       /\ d.instances \subseteq Seq(Nat) \ {<<>>} /\ IsFiniteSet(d.instances)
       /\ d.signals \subseteq Seq(Nat) /\ IsFiniteSet(d.signals)
  /\ \A r \in HierRequests : r.depth \in Nat /\ r.max \in Nat

ParentPath(p) == Front(p)
HasParent(p) == Len(p) > 1
Ancestors(p) == {SubSeq(p, 1, k) : k \in 1 .. Len(p) - 1}

(* The table has the instances; a generate block is no instance, so one    *)
(* inside a block has a parent that is not in the table.                   *)
CollectInstanceHierarchy(d) == d.instances
BuildHierarchyFromSignals(d) == UNION {Ancestors(s) : s \in d.signals}
EnsureSessionHierarchy(d) ==
  IF d.recorded /\ d.instances # {} THEN CollectInstanceHierarchy(d) ELSE BuildHierarchyFromSignals(d)

(* The order of the paths, and the sequence of a set of them in it.        *)
InOrder(p, q) == Lexicographic(p, q)
Sorted(paths) == InTurn(paths, {x \in paths \X paths : InOrder(x[1], x[2])})
Children(h, p) == Sorted({q \in h : HasParent(q) /\ ParentPath(q) = p})

(* Mutant: a path is a root only if it has no parent at all.               *)
HierTops(h) == Sorted({p \in h : ~HasParent(p)})
HierRoots(h) == Sorted({p \in h : ~HasParent(p) \/ ParentPath(p) \notin h})

---------------------------------------------------------------------------
VARIABLES hierPhase,      \* "idle", "build", "done" or "refused"
          hierarchy,      \* the paths of the session's hierarchy
          hierOpts,       \* the request, with its root
          hierStack,      \* the calls of build: [path, rest: children to come]
          hierTree,       \* the nodes in the order in which they were made
          hierStops,      \* pairs <<reason, path>>
          truncated
hierVars == <<hierPhase, hierarchy, hierOpts, hierStack, hierTree, hierStops, truncated>>

HierInit ==
  /\ hierPhase = "idle" /\ hierarchy = {} /\ hierOpts = [root |-> <<>>, depth |-> 0, max |-> 0]
  /\ hierStack = <<>> /\ hierTree = <<>> /\ hierStops = {} /\ truncated = FALSE

(* A call of build: the checks, and the node with the children to come.    *)
Build(stack, path) ==
  IF Len(hierTree) >= hierOpts.max
  THEN truncated' = TRUE /\ hierStack' = stack /\ UNCHANGED <<hierTree, hierStops>>
  ELSE IF \E i \in DOMAIN stack : stack[i].path = path
  THEN hierStops' = hierStops \cup {<<"cycle", path>>} /\ hierStack' = stack /\ UNCHANGED <<hierTree, truncated>>
  ELSE LET limited == Len(stack) >= hierOpts.depth
           children == Children(hierarchy, path)
       IN  /\ hierTree' = Append(hierTree, path)
           /\ hierStack' = IF limited THEN stack ELSE Append(stack, [path |-> path, rest |-> children])
           /\ hierStops' = hierStops \cup (IF limited /\ children # <<>> THEN {<<"depth_limit", path>>} ELSE {})
           /\ UNCHANGED truncated

HierAsk ==
  /\ hierPhase = "idle"
  /\ \E d \in Designs, r \in HierRequests :
       LET h == EnsureSessionHierarchy(d)
           root == IF r.root = <<>> /\ h # {} THEN HierRoots(h)[1] ELSE r.root
       IN  /\ hierarchy' = h /\ hierOpts' = [r EXCEPT !.root = root]
           /\ hierPhase' = IF root \in h THEN "start" ELSE "refused"
  /\ UNCHANGED <<hierStack, hierTree, hierStops, truncated>>
HierStart ==
  /\ hierPhase = "start" /\ hierPhase' = "build"
  /\ Build(<<>>, hierOpts.root)
  /\ UNCHANGED <<hierarchy, hierOpts>>
HierChild ==
  /\ hierPhase = "build" /\ hierStack # <<>> /\ Last(hierStack).rest # <<>>
  /\ LET top == Last(hierStack) IN
     IF Len(hierTree) >= hierOpts.max
     THEN /\ truncated' = TRUE /\ hierStops' = hierStops \cup {<<"max_nodes", top.path>>}
          /\ hierStack' = Front(hierStack) /\ UNCHANGED hierTree
     ELSE Build(Append(Front(hierStack), [top EXCEPT !.rest = Tail(@)]), Head(top.rest))
  /\ UNCHANGED <<hierPhase, hierarchy, hierOpts>>
HierReturn ==
  /\ hierPhase = "build" /\ hierStack # <<>> /\ Last(hierStack).rest = <<>>
  /\ hierStack' = Front(hierStack)
  /\ UNCHANGED <<hierPhase, hierarchy, hierOpts, hierTree, hierStops, truncated>>
HierDone ==
  /\ hierPhase = "build" /\ hierStack = <<>> /\ hierPhase' = "done"
  /\ UNCHANGED <<hierarchy, hierOpts, hierStack, hierTree, hierStops, truncated>>

HierNext == HierAsk \/ HierStart \/ HierChild \/ HierReturn \/ HierDone

---------------------------------------------------------------------------
(* The tree has the nodes below the root, each after its parent and in     *)
(* order, no more of them than asked for and none too deep; what is left   *)
(* out is below a node for which a stop is reported, and `truncated` is    *)
(* said exactly if nodes were left out for their number.                   *)
Below(h, root) == {p \in h : \E k \in 1 .. Len(p) : SubSeq(p, 1, k) = root /\ \A j \in k .. Len(p) : SubSeq(p, 1, j) \in h}
HierExact ==
  LET all == Below(hierarchy, hierOpts.root)
      shown == ToSet(hierTree)
      told == {s[2] : s \in hierStops}
  IN  hierPhase = "done" =>
        /\ shown \subseteq all /\ Len(hierTree) = Cardinality(shown) /\ Len(hierTree) <= hierOpts.max
        /\ \A i, j \in DOMAIN hierTree : i < j => InOrder(hierTree[i], hierTree[j])
        /\ \A p \in shown : Len(p) <= Len(hierOpts.root) + hierOpts.depth
        /\ \A p \in all \ shown : hierTree = <<>> \/ Ancestors(p) \cap told # {}
        /\ truncated <=> \E p \in all \ shown : Len(p) <= Len(hierOpts.root) + hierOpts.depth

(* Every instance is below one of the roots, and below one only: those of  *)
(* a generate block, whose parent is not in the table, are roots           *)
(* themselves and are not in the tree of the instance around the block.    *)
RootsCover ==
  \A p \in hierarchy : Cardinality({r \in ToSet(HierRoots(hierarchy)) : p \in Below(hierarchy, r)}) = 1

(* The trees from the roots, cut as told, cover the hierarchy (HierQuery.cc:60). *)
HierarchyExact == HierExact /\ RootsCover
============================================================================
