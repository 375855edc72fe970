--------------------------- MODULE VirtualSignals ---------------------------
(***************************************************************************)
(* Virtual signals: named expressions over the signals of a waveform and   *)
(* over each other, kept in the session file that all agents share, and    *)
(* the cache of evaluated transitions that every server process keeps.     *)
(*                                                                         *)
(* Translated from agent_debug_automation/virtual_signals.py and the       *)
(* expression tools of agent_debug_automation/tools.py.                    *)
(*                                                                         *)
(* There is one session and one time window.  A list of transitions is     *)
(* abstracted to what it was computed from: the set of all <<signal,       *)
(* source>> whose expression, recorded transitions or absence went into it.*)
(* An expression is what it refers to, how wide it is, and whether a bus   *)
(* tool wrote it.  The resolution of the session, and its    *)
(* deletion, are in SessionStore.                                          *)
(***************************************************************************)
EXTENDS Integers, Sequences, FiniteSets, SequencesExt

CONSTANTS
    Agents,         \* threads that execute tool calls
    Server(_),      \* the server process, and so the cache, of an agent
    Names,          \* names of signals
    Real,           \* those that the waveform has
    Widths,         \* numbers of bits
    RealWidth(_),   \* how wide those signals are
    Exprs,          \* expressions
    Refs(_),        \* collect_signal_refs: the names in an expression, in order
    Width(_, _),    \* the width of an expression, from those of its operands;
                    \* 0 when they do not fit a bus tool
    BusExprs,       \* the expressions that the bus tools write
    None,           \* no definition, no width, no answer, nobody
    Requests,       \* tool calls that agents make
    MaxDepth,       \* MAX_VIRTUAL_SIGNAL_DEPTH
    MaxCache,       \* _MAX_CACHE_SIZE
    MaxCalls,       \* bound: tool calls
    MaxCrashes      \* bound: deaths of server processes

Servers == {Server(a) : a \in Agents}
Definitions == [expr : Exprs, width : Widths \cup {0, None}]
Sessions == [Names -> Definitions \cup {None}]

Creates == [op : {"create"}, new : UNION {[S -> Exprs] : S \in SUBSET Names}]
Updates == [op : {"update"}, name : Names, expr : Exprs]
Deletes == [op : {"delete"}, name : Names]
Evals == [op : {"eval", "value"}, name : Names]

(* Where a part of a value came from.                                      *)
Sources == Exprs \cup {"recorded", "missing"}
Values == SUBSET (Names \X Sources)
CacheEntries == [name : Names, expr : Exprs, value : Values, age : Nat]
Frames == [name : Names, looked : BOOLEAN, todo : Seq(Names), got : Values]
Answers == [name : Names, expr : Exprs, value : Values]

ASSUME SignalsAssumption ==
    /\ Real \subseteq Names /\ IsFiniteSet(Names)
    /\ Widths \subseteq Nat /\ 0 \notin Widths
    /\ \A n \in Real : RealWidth(n) \in Widths
    /\ BusExprs \subseteq Exprs
    /\ \A e \in Exprs : Refs(e) \in Seq(Names)
    /\ \A e \in Exprs : \A w \in [Range(Refs(e)) -> Widths] : Width(e, w) \in Widths \cup {0}
    /\ {"recorded", "missing"} \cap Exprs = {}
    /\ None \notin Definitions /\ None \notin Answers /\ None \notin Agents /\ None \notin Widths \cup {0}
    /\ MaxDepth \in Nat /\ MaxCache \in Nat \ {0} /\ MaxCalls \in Nat /\ MaxCrashes \in Nat

(* create_slices writes several signals in one call; only the expressions  *)
(* of create_signal_expression can be updated.                             *)
ASSUME VirtualRequestsAssumption ==
    /\ None \notin Requests
    /\ Requests \subseteq Creates \cup Updates \cup Deletes \cup Evals
    /\ \A q \in Requests :
         /\ q.op = "create" => DOMAIN q.new # {}
         /\ q.op = "update" => q.expr \notin BusExprs

VARIABLES
    defs,       \* created_signals of the session file
    holder,     \* who holds the store lock
    pc,         \* next step of each agent
    req,        \* the call it executes
    snap,       \* the definitions it has read from the file
    copy,       \* the definitions it is about to save
    stack,      \* evaluations it is in, the outermost first
    answer,     \* what its last evaluation returned
    cache,      \* _virtual_cache of each server; age counts the entries put later
    editors,    \* history: agents that have saved an edit
    calls, crashes

locals == <<pc, req, snap, copy, stack, answer>>
bounds == <<calls, crashes>>
vars == <<defs, holder, locals, cache, editors, bounds>>

-----------------------------------------------------------------------------
(* Dependencies                                                            *)

Defined(d) == {n \in Names : d[n] # None}

(* The dependencies of a name: a signal of the waveform has none.          *)
RefsIn(d, n) == IF d[n] = None THEN <<>> ELSE Refs(d[n].expr)
DependsOn(d, m, n) == n \in Range(RefsIn(d, m))

(* A call of _visit: the sets that it shares with the others are as they   *)
(* are when it begins.  Its outcome: whether it raised nothing, and the    *)
(* names that have been visited by then.                                   *)
Visits == [name : Names, depth : Nat, path : SUBSET Names, seen : SUBSET Names]
Outcomes == [ok : BOOLEAN, seen : SUBSET Names]

(* The loop over the dependencies refs of v.name: the first that fails is  *)
(* the last that is visited.                                               *)
VisitRefs(visit, refs, v) ==
    LET upto[i \in 0..Len(refs)] ==
            IF i = 0 THEN [ok |-> TRUE, seen |-> v.seen]
            ELSE IF ~upto[i - 1].ok THEN upto[i - 1]
            ELSE visit[[name |-> refs[i], depth |-> v.depth + 1,
                        path |-> v.path \cup {v.name}, seen |-> upto[i - 1].seen]]
    IN upto[Len(refs)]

(* Mutant: a name on the path is taken for one that was visited.           *)
VisitBlind(d, visit, v) ==
    IF v.depth > MaxDepth THEN [ok |-> FALSE, seen |-> v.seen]
    ELSE IF v.name \in v.seen THEN [ok |-> TRUE, seen |-> v.seen]
    ELSE VisitRefs(visit, RefsIn(d, v.name), [v EXCEPT !.seen = @ \cup {v.name}])

(* _visit: a name that was visited is not visited again, at whatever depth.*)
Visit(d, visit, v) ==
    IF v.depth > MaxDepth \/ v.name \in v.path THEN [ok |-> FALSE, seen |-> v.seen]
    ELSE IF v.name \in v.seen THEN [ok |-> TRUE, seen |-> v.seen]
    ELSE LET below == VisitRefs(visit, RefsIn(d, v.name), v)
         IN [below EXCEPT !.seen = @ \cup {v.name}]

(* _topological_sort: whether it succeeds.                                 *)
Sorted(d, start) ==
    LET visit[v \in Visits] == Visit(d, visit, v)
    IN visit[[name |-> start, depth |-> 0, path |-> {}, seen |-> {}]].ok

(* Mutant: only the signals that refer to n themselves.                    *)
DirectDependents(d, n) == {n} \cup {m \in Names : DependsOn(d, m, n)}

(* The signal and all that depend on it, directly or not.                  *)
WithDependents(d, n) ==
    LET reach[i \in Nat] ==
            IF i = 0 THEN {n}
            ELSE LET found == reach[i - 1]
                 IN found \cup {m \in Names : \E k \in found : DependsOn(d, m, k)}
    IN reach[Cardinality(Names)]

(* _infer_ast_width, when the widths w of names are known.                 *)
Sized(e, w) ==
    LET operands == [m \in Range(Refs(e)) |-> w[m]]
    IN IF \A m \in DOMAIN operands : operands[m] \in Widths THEN Width(e, operands) ELSE None

(* _resolve_signal_width: a width that was stored is not inferred again.   *)
(* The waveform may not tell the width of the signals in `failed`.         *)
WidthsIn(d, failed) ==
    LET width[n \in Names] ==
            IF d[n] = None THEN IF n \in Real \ failed THEN RealWidth(n) ELSE None
            ELSE IF d[n].width \in Widths THEN d[n].width
            ELSE Sized(d[n].expr, [m \in Range(Refs(d[n].expr)) |-> width[m]])
    IN width

Infer(e, d, failed) == Sized(e, WidthsIn(d, failed))

-----------------------------------------------------------------------------
(* Edits                                                                   *)

NoDefinitions == [n \in Names |-> None]

Goto(a, label) == pc' = [pc EXCEPT ![a] = label]

(* The call returns or raises; its local variables are gone.               *)
Returns(a) ==
    /\ Goto(a, "idle")
    /\ req' = [req EXCEPT ![a] = None]
    /\ snap' = [snap EXCEPT ![a] = NoDefinitions]
    /\ copy' = [copy EXCEPT ![a] = NoDefinitions]
    /\ stack' = [stack EXCEPT ![a] = <<>>]

Call(a, q) ==
    /\ pc[a] = "idle" /\ calls < MaxCalls
    /\ calls' = calls + 1
    /\ req' = [req EXCEPT ![a] = q]
    /\ answer' = [answer EXCEPT ![a] = None]
    /\ Goto(a, IF q.op \in {"eval", "value"} THEN "read" ELSE "lock")
    /\ UNCHANGED <<defs, holder, snap, copy, stack, cache, editors, crashes>>

(* _mutate_session_payload takes the lock and reads the file again.        *)
Load(a) ==
    /\ pc[a] = "lock" /\ holder = None
    /\ holder' = a
    /\ snap' = [snap EXCEPT ![a] = defs]
    /\ Goto(a, "check")
    /\ UNCHANGED <<defs, req, copy, stack, answer, cache, editors, bounds>>

(* The widths that create_signal_expression and the bus tools store: only  *)
(* the former accepts operands of unknown width.                           *)
NewDefinitions(new, d, failed) ==
    [n \in DOMAIN new |-> [expr |-> new[n], width |-> Infer(new[n], d, failed)]]
Fits(e, w) == w # 0 /\ (e \in BusExprs => w # None)

WithNew(d, new) == [n \in Names |-> IF n \in DOMAIN new THEN new[n] ELSE d[n]]

(* create, create_concat, create_slice, create_reverse, create_slices, and *)
(* _store_entries: all signals of the call are added, or none.             *)
CanCreate(new, d) ==
    /\ \A n \in DOMAIN new : d[n] = None /\ Fits(new[n].expr, new[n].width)
    /\ \A n \in DOMAIN new : Sorted(WithNew(d, new), n)

CanUpdate(q, d) ==
    /\ d[q.name] # None
    /\ q.expr # d[q.name].expr =>
         /\ d[q.name].expr \notin BusExprs
         /\ Sorted([d EXCEPT ![q.name].expr = q.expr], q.name)

(* Mutant: a signal is deleted whatever refers to it.                      *)
CanDeleteAlways(q, d) == d[q.name] # None

(* There are dependents exactly when there are direct ones.                *)
CanDelete(q, d) ==
    /\ d[q.name] # None
    /\ \A m \in Names \ {q.name} : ~DependsOn(d, m, q.name)

(* _cache_invalidate_all, by the dependencies that are about to change.    *)
Invalidate(a, n) ==
    LET gone == WithDependents(snap[a], n)
    IN {e \in cache[Server(a)] : e.name \notin gone}

(* The edited definitions, and what is left of the cache.                  *)
Stage(a, new, kept) ==
    /\ copy' = [copy EXCEPT ![a] = new]
    /\ cache' = [cache EXCEPT ![Server(a)] = kept]
    /\ Goto(a, "save")
    /\ UNCHANGED <<defs, holder, req, snap, stack, answer, editors, bounds>>

Create(a) ==
    /\ pc[a] = "check" /\ req[a].op = "create"
    /\ \E failed \in SUBSET Real :
         LET made == NewDefinitions(req[a].new, snap[a], failed)
         IN /\ CanCreate(made, snap[a])
            /\ Stage(a, WithNew(snap[a], made), cache[Server(a)])

Update(a) ==
    LET q == req[a]
    IN /\ pc[a] = "check" /\ q.op = "update" /\ CanUpdate(q, snap[a])
       /\ \/ /\ q.expr = snap[a][q.name].expr
             /\ Stage(a, snap[a], cache[Server(a)])
          \/ /\ q.expr # snap[a][q.name].expr
             /\ \E failed \in SUBSET Real :
                  LET new == [expr |-> q.expr, width |-> Infer(q.expr, snap[a], failed)]
                  IN Stage(a, [snap[a] EXCEPT ![q.name] = new], Invalidate(a, q.name))

Delete(a) ==
    LET q == req[a]
    IN /\ pc[a] = "check" /\ q.op = "delete" /\ CanDelete(q, snap[a])
       /\ Stage(a, [snap[a] EXCEPT ![q.name] = None], Invalidate(a, q.name))

(* The mutate function raises: nothing is saved.                           *)
Refuse(a) ==
    LET q == req[a]
    IN /\ pc[a] = "check"
       /\ CASE q.op = "create" ->
                  \E failed \in SUBSET Real :
                     ~CanCreate(NewDefinitions(q.new, snap[a], failed), snap[a])
            [] q.op = "update" -> ~CanUpdate(q, snap[a])
            [] q.op = "delete" -> ~CanDelete(q, snap[a])
       /\ holder' = None
       /\ Returns(a)
       /\ UNCHANGED <<defs, answer, cache, editors, bounds>>

(* _save_session_payload, in the service and once more in its caller, and  *)
(* the end of the block that holds the lock.                               *)
Save(a) ==
    /\ pc[a] = "save"
    /\ defs' = copy[a]
    /\ holder' = None
    /\ editors' = editors \cup {a}
    /\ Returns(a)
    /\ UNCHANGED <<answer, cache, bounds>>

-----------------------------------------------------------------------------
(* Evaluation: get_transitions and the like ("eval"), and a value at one   *)
(* time ("value"), which the cache is not asked for and does not keep.     *)

Frame(n, d) ==
    [name |-> n, looked |-> FALSE, todo |-> Refs(d[n].expr), got |-> {<<n, d[n].expr>>}]

(* Mutant: of a chain only the name is looked up.                          *)
LookUpByName(e, a, n) == e.name = n

Matches(e, a, n) == e.name = n /\ e.expr = snap[a][n].expr

(* To the innermost evaluation's value, v is added.                        *)
Got(s, v) == [s EXCEPT ![Len(s)].got = @ \cup v]

(* Its next operand is taken.                                              *)
Taken(s) == [s EXCEPT ![Len(s)].todo = Tail(@)]

(* The evaluation ends with the value v: its caller goes on with it.       *)
Deliver(a, v) ==
    LET s == stack[a]
    IN IF Len(s) = 1
       THEN /\ Returns(a)
            /\ answer' = [answer EXCEPT ![a] =
                 [name |-> s[1].name, expr |-> snap[a][s[1].name].expr, value |-> v]]
       ELSE /\ stack' = [stack EXCEPT ![a] = Got(Front(s), v)]
            /\ UNCHANGED <<pc, req, snap, copy, answer>>

(* The session is read, without the lock.  A name that is no virtual       *)
(* signal is read from the waveform.                                       *)
Read(a) ==
    LET n == req[a].name
    IN /\ pc[a] = "read"
       /\ \/ defs[n] = None /\ Returns(a)
          \/ /\ defs[n] # None
             /\ snap' = [snap EXCEPT ![a] = defs]
             /\ stack' = [stack EXCEPT ![a] = <<Frame(n, defs)>>]
             /\ Goto(a, "eval")
             /\ UNCHANGED <<req, copy>>
       /\ UNCHANGED <<defs, holder, answer, cache, editors, bounds>>

Uncached(a) == req[a].op = "value" /\ Len(stack[a]) = 1

LookUp(a) ==
    LET f == Last(stack[a])
        hits == {e \in cache[Server(a)] : Matches(e, a, f.name)}
    IN /\ pc[a] = "eval" /\ ~f.looked
       /\ IF Uncached(a) \/ hits = {}
          THEN /\ stack' = [stack EXCEPT ![a][Len(stack[a])].looked = TRUE]
               /\ UNCHANGED <<pc, req, snap, copy, answer>>
          ELSE \E e \in hits : Deliver(a, e.value)
       /\ UNCHANGED <<defs, holder, cache, editors, bounds>>

(* The next operand is another virtual signal.                             *)
Descend(a) ==
    LET f == Last(stack[a])
    IN /\ pc[a] = "eval" /\ f.looked /\ f.todo # <<>>
       /\ snap[a][Head(f.todo)] # None
       /\ stack' = [stack EXCEPT ![a] = Append(Taken(@), Frame(Head(f.todo), snap[a]))]
       /\ UNCHANGED <<defs, holder, pc, req, snap, copy, answer, cache, editors, bounds>>

(* It is a signal of the waveform.  Of one that is not there, or when the  *)
(* query fails, the transitions are empty.                                 *)
Fetch(a) ==
    LET n == Head(Last(stack[a]).todo)
    IN /\ pc[a] = "eval" /\ Last(stack[a]).looked /\ Last(stack[a]).todo # <<>>
       /\ snap[a][n] = None
       /\ \E src \in IF n \in Real THEN {"recorded", "missing"} ELSE {"missing"} :
            stack' = [stack EXCEPT ![a] = Got(Taken(@), {<<n, src>>})]
       /\ UNCHANGED <<defs, holder, pc, req, snap, copy, answer, cache, editors, bounds>>

(* It has more transitions than virtual_leaf_max_limit: the call raises.   *)
FetchTooMany(a) ==
    /\ pc[a] = "eval" /\ Last(stack[a]).looked /\ Last(stack[a]).todo # <<>>
    /\ snap[a][Head(Last(stack[a]).todo)] = None /\ Head(Last(stack[a]).todo) \in Real
    /\ Returns(a)
    /\ UNCHANGED <<defs, holder, answer, cache, editors, bounds>>

Oldest(c) == CHOOSE e \in c : \A o \in c : o.age <= e.age

MakeRoom(c) == IF Cardinality(c) >= MaxCache THEN c \ {Oldest(c)} ELSE c

Older(e) == [e EXCEPT !.age = @ + 1]

(* _cache_put: the oldest entry makes room, also for one whose key is      *)
(* there already, which takes the place of the other.                      *)
Put(c, n, x, v) ==
    LET room == MakeRoom(c)
        same == {e \in room : e.name = n /\ e.expr = x}
        new == [name |-> n, expr |-> x, value |-> v, age |-> 0]
    IN IF same = {} THEN {Older(e) : e \in room} \cup {new}
       ELSE (room \ same) \cup {[e EXCEPT !.value = v] : e \in same}

Finish(a) ==
    LET f == Last(stack[a])
    IN /\ pc[a] = "eval" /\ f.looked /\ f.todo = <<>>
       /\ cache' = IF Uncached(a) THEN cache
                   ELSE [cache EXCEPT ![Server(a)] =
                     Put(@, f.name, snap[a][f.name].expr, f.got)]
       /\ Deliver(a, f.got)
       /\ UNCHANGED <<defs, holder, editors, bounds>>

(* The server process dies, and the system releases its lock; another one  *)
(* takes its place.                                                        *)
Crash(s) ==
    LET dead == {a \in Agents : Server(a) = s}
    IN /\ crashes < MaxCrashes
       /\ crashes' = crashes + 1
       /\ cache' = [cache EXCEPT ![s] = {}]
       /\ holder' = IF holder \in dead THEN None ELSE holder
       /\ pc' = [a \in Agents |-> IF a \in dead THEN "idle" ELSE pc[a]]
       /\ req' = [a \in Agents |-> IF a \in dead THEN None ELSE req[a]]
       /\ snap' = [a \in Agents |-> IF a \in dead THEN NoDefinitions ELSE snap[a]]
       /\ copy' = [a \in Agents |-> IF a \in dead THEN NoDefinitions ELSE copy[a]]
       /\ stack' = [a \in Agents |-> IF a \in dead THEN <<>> ELSE stack[a]]
       /\ answer' = [a \in Agents |-> IF a \in dead THEN None ELSE answer[a]]
       /\ UNCHANGED <<defs, editors, calls>>

-----------------------------------------------------------------------------

Init ==
    /\ defs = NoDefinitions /\ holder = None
    /\ pc = [a \in Agents |-> "idle"]
    /\ req = [a \in Agents |-> None]
    /\ snap = [a \in Agents |-> NoDefinitions]
    /\ copy = [a \in Agents |-> NoDefinitions]
    /\ stack = [a \in Agents |-> <<>>]
    /\ answer = [a \in Agents |-> None]
    /\ cache = [s \in Servers |-> {}]
    /\ editors = {} /\ calls = 0 /\ crashes = 0

Next ==
    \/ \E a \in Agents :
         \/ \E q \in Requests : Call(a, q)
         \/ Load(a) \/ Create(a) \/ Update(a) \/ Delete(a) \/ Refuse(a) \/ Save(a)
         \/ Read(a) \/ LookUp(a) \/ Descend(a) \/ Fetch(a) \/ FetchTooMany(a) \/ Finish(a)
    \/ \E s \in Servers : Crash(s)

Spec == Init /\ [][Next]_vars

-----------------------------------------------------------------------------
(* Properties                                                              *)

Steps == {"idle", "lock", "check", "save", "read", "eval"}

(* Every variable keeps its type; a cache holds at most MaxCache entries.  *)
TypeOK ==
    /\ defs \in Sessions
    /\ holder \in Agents \cup {None}
    /\ pc \in [Agents -> Steps]
    /\ req \in [Agents -> Requests \cup {None}]
    /\ snap \in [Agents -> Sessions] /\ copy \in [Agents -> Sessions]
    /\ stack \in [Agents -> Seq(Frames)]
    /\ answer \in [Agents -> Answers \cup {None}]
    /\ cache \in [Servers -> SUBSET CacheEntries]
    /\ \A s \in Servers : IsFiniteSet(cache[s]) /\ Cardinality(cache[s]) <= MaxCache
    /\ editors \subseteq Agents
    /\ calls \in 0..MaxCalls /\ crashes \in 0..MaxCrashes

(* No signal depends on itself, directly or through others, in whatever    *)
(* order the agents create, update and delete signals: a name that has no  *)
(* definition yet may be referred to, and be defined later.                *)
Acyclic ==
    \A n \in Names : \A m \in Names :
        m \in WithDependents(defs, n) => ~DependsOn(defs, n, m)

(* A definition disappears only when no definition that remains refers to  *)
(* it, also one that another agent has just added.                         *)
DeletesOnlyUnused ==
    [][\A n \in Names : defs[n] # None /\ defs'[n] = None =>
         \A m \in Names : ~DependsOn(defs', m, n)]_defs

Alone(a) == \A b \in Agents \ {a} : Server(b) # Server(a)

(* An agent that has its server to itself, and makes all the edits, has no *)
(* cached transitions that were computed from an expression that has been  *)
(* updated or deleted, at whatever distance.                               *)
AloneIsCurrent ==
    \A a \in Agents : Alone(a) /\ editors \subseteq {a} =>
        \A e \in cache[Server(a)] : \A n \in Names : \A x \in Exprs :
            <<n, x>> \in e.value => defs[n] # None /\ defs[n].expr = x

(* Whatever other agents change in the meantime, on whatever servers, an   *)
(* answer comes from the expression that the call read for its signal.     *)
AnswersOwnExpression ==
    \A a \in Agents : answer[a] # None =>
        <<answer[a].name, answer[a].expr>> \in answer[a].value
=============================================================================
