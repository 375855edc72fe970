# TLA+ models of the waveform debugger

This directory models the waveform debugger: processes that publish a structural
graph database, agents that share session files and backend processes, signals
that are defined in terms of each other, the program that reads waveforms and
answers queries about them, and the queries to the structural database. TLC
checks the modules on small instances; TLAPS proves theorems about instances of
any size.

Paths below are relative to the repository root (`src/` in `PROJECT.json`).
Short forms: **clients.py**, **sessions.py**, **tools.py**,
**virtual_signals.py** are in `agent_debug_automation/`; **GraphPublication.h**,
**GraphDb.cc** and **ParallelTopK.h** in `standalone_trace/db/`; **TraceQuery.cc**
in `standalone_trace/query/`; **AgentAPI.cpp**, **WaveDatabase.cpp** and
**main.cpp** in `waveform_explorer/src/`.

## 1. The system

| Part | Where | State it keeps | Operations |
|---|---|---|---|
| `rtl_trace compile` | `standalone_trace/compile`, `standalone_trace/db` | `<db>`, `<db>.meta`, `<db>.lock`, two staging files | fingerprint, cache check, elaborate, save, publish |
| guardian | GraphPublication.h:212 | the socket to its compiler, the inherited lock | remove staging after the compiler's death |
| endpoint lists | GraphDb.cc, `EndpointDedup.h` | a hash table per worker of a compile | unite adjacent ranges, remove equal records |
| `rtl_trace serve` and one-shot queries | `standalone_trace/serve`, `standalone_trace/query` | one mapped database | `open`, `close`, `reload`, `status`, `quit` |
| trace, find, hier, whereis | `standalone_trace/query`, GraphDb.cc, ParallelTopK.h | none between requests; a walk's stack, visited signals and result; a search's threads and their best names | read arguments, resolve a name and a selection, walk drivers or loads, search names, print a tree |
| `wave_agent_cli` | `waveform_explorer/src` | one waveform: transitions per signal, an index of paths; the file of a dump | load, value, edge, condition, interval, count, overview and paging queries, dump |
| debug server, waveform daemons | clients.py:430 | registry of daemons, their query locks and pipes | get or start, query, time out, stop |
| debug server, backend sessions | clients.py, tools.py | registry of serve processes, pipes, stderr pump | get or start, query, stop, clean up |
| debug server, session store | sessions.py, tools.py | JSON file per session, active session, lock file | create, get, list, switch, delete, cursor, bookmarks, groups, created signals |
| debug server, virtual signals | `virtual_signals.py`, `expression_*.py` | definitions in session files, cache of evaluated transitions | create, update, delete, evaluate |
| debug server, path mapping | `mapping.py` | three caches per waveform | structural path to waveform path |
| debug server, ranking and trace tools | `tools.py`, `ranking.py` | none | combine structural and waveform answers |

How they interact:

* An agent calls a tool of the debug server. Several server processes, and
  several threads of each, may run at once. They share the session store
  through the file system, and the threads of one server share its backends.
* A tool resolves a session (session store), translates signal names (path
  mapping, virtual signals), sends commands to an `rtl_trace serve` process and
  a `wave_agent_cli` process (waveform daemons), and combines the answers.
* A serve process maps a graph database that some compile process published.
  Compile processes, their guardians and the readers meet only in the file
  system.

What makes each part correct:

* **Publication.** A reader sees a complete database or none; a cache hit is
  never about another database than the one it finds; a killed compile leaves
  neither a lock nor a staging file for good; the published database never goes
  back to an older one.
* **Session store.** An edit is not lost and not applied to another session than
  the call's; a deleted session stays deleted; there is always a session to fall
  back to.
* **Backend sessions.** Each call gets the response to its own command, about its
  own database; one process per database; no process that nobody can stop.
* **Virtual signals.** Definitions have no cycle, no dangling reference that a
  deletion made, and the widths their expressions have; an answer, cached or not,
  is computed from the definitions.
* **Waveform daemons.** Each query gets its own answer; one process per
  waveform; the file of a dump is whole, and an existing one is not lost.
* **Waveform database and queries.** A signal has the values of the file, under
  one path; a summary says nothing that the transitions do not; searches, counts
  and point queries agree; pages and limits lose nothing.
* **Structural queries.** A selection stands for the bits that it names; a walk
  shows every driver or load that is connected, or says why not, and nothing that
  is not; a tree is complete within its limits and says where it is cut; the best
  names are the best, for every number of threads.
* **Endpoint lists.** Uniting ranges and removing copies changes no bit and no
  source place.
* **Path mapping, ranking.** What they return is a function of the waveform or the
  graph alone, whatever was cached before.

### What is hard about it

* **Crashes.** A compile can be killed between any two system calls. What it
  leaves must not mislead the next compile or a reader, and its staging files
  must go although it can no longer remove them.
* **Inherited locks.** The guardian shares its compiler's lock through `fork`;
  the lock outlives the compiler exactly as long as the guardian needs it.
* **Stale certificates.** `--incremental` trusts metadata that compares only the
  size and the header of the database.
* **Two critical sections.** A session call reads the active session and other
  files in one critical section or in none, and edits in another.
* **Nested critical sections.** The virtual-signal service saves within the
  critical section of the tool that called it.
* **One pair of pipes for all agents.** A response belongs to a command only by
  its position; diagnostics arrive on another pipe through another thread.
* **Derived data in two places.** Definitions are in a file that all servers
  share; widths inferred from them are in the same file, and transitions computed
  from them in the memory of each server. An edit of one definition makes others
  stale, at any distance.
* **Processes that die or do not answer**, at their start or in a transaction,
  with agents waiting for their lock.

* **Files replaced by steps.** A dump is written next to its target, the target
  is removed, and the new file gets its name; the process may be killed, by a
  timeout of its own caller, between any two of these.
* **Bits in three coordinate systems.** A signal's bits are counted by declared
  indices, by offsets from the right, and by the bits of the port on the other
  side; a walk maps ranges from one to the next, in pieces, and must say so when
  it cannot.
* **Cuts.** Limits on depth, nodes, cones, pieces, names, lines of a page or
  segments: what lies beyond must be told, and nothing before it may be lost.

Each of these is listed with its line under `hazards` in `PROJECT.json`.

## 2. The modules

| Module | Models | Extends or uses |
|---|---|---|
| `GraphPublication` | compile, guardian, readers | |
| `GraphCache` | what a database promises: the abstract specification | |
| `GraphPublicationProofs` | theorems | `GraphPublication`, `GraphCache` by INSTANCE |
| `MCGraphPublication`, `MCGraphFreshness` | instances; history variable for one claim | `GraphPublication` |
| `SessionStore` | session files, lock, all session tools | |
| `SessionStoreProofs` | theorems | `SessionStore` |
| `MCSessionStore` | instances | `SessionStore` |
| `ServeSessions` | registry, pipes, protocol, serve loop | |
| `ServeSessionsProofs` | theorems: registry, protocol, databases | `ServeSessions` |
| `MCServeSessions` | instances | `ServeSessions` |
| `VirtualSignals` | definitions, edits, evaluation, the cache of each server | |
| `Listings` | finite sets listed in an order, the order of strings, parts of a list | |
| `FiniteInduction` | lemmas: induction over numbers, functions built step by step, listings | `Listings` |
| `VirtualSignalsProofs` | theorems: the cycle check and the search for dependents, agents, caches | `VirtualSignals`, `FiniteInduction` |
| `MCVirtualSignals` | instances | `VirtualSignals` |
| `WaveServer` | registry of daemons, the command loop, dumps | |
| `MCWaveServer` | instance | `WaveServer` |
| `WaveDatabase` | reading a waveform file, the index of paths | |
| `WaveProofs` | theorems: the daemons, the database, answers in parts, the queries, the summaries | `WaveServer`, `WaveQueries`, `FiniteInduction` |
| `WaveQueries` | the queries over transitions and over paths | `WaveDatabase`, `Listings` |
| `MCWaveQueries` | instance | `WaveQueries` |
| `EndpointLists` | endpoint records, uniting their ranges | `Listings` |
| `EndpointDedup` | removing copies, with the table that is reused | `EndpointLists` |
| `Coordinates` | names, selections, bits of a declaration | `EndpointLists` |
| `TraceQueries` | the walk of a trace | `EndpointLists` |
| `NameMatching` | patterns, the run a pattern requires, edit distances | |
| `NameSearch` | `find`: requests, threads, the best K | `NameMatching`, `Listings` |
| `HierQueries` | the instance hierarchy and its tree | `Listings` |
| `QueryArgs` | the arguments of the query commands | |
| `NameQueriesProofs` | theorems: distances, patterns, collectors, the threads of a search; the hierarchy, the arguments | `NameSearch`, `HierQueries`, `QueryArgs`, `FiniteInduction` |
| `GraphQueries` | one request at a time, of any of the six kinds | the six above |
| `GraphQueriesProofs` | theorems: the endpoint lists, selections, the walk of a trace | `EndpointDedup`, `Coordinates`, `TraceQueries`, `FiniteInduction` |
| `MCGraphQueries`, `MCTraceQueries` | instances | `GraphQueries`, `TraceQueries` |

Definitions that begin with the comment "Mutant:" are not part of a model. Each
is a version of the definition after it with a plausible error; a property is
kept only if such an error violates it.

The properties of `WaveQueries` and of the query modules are conjunctions of
named parts, each with a comment of its own: `SummariesExact` is
`OverviewExact /\ OverviewCounts /\ ...`, and so on. A run checks the
conjunction.

### GraphPublication

One action is one system call that another process can observe. `pc[c]` runs
through the code of `RunCompile` in order:

| `pc` | Code |
|---|---|
| `stamp` | `ComputeCompileFingerprint`: one modification time after another, without a lock |
| `probe`, `header`, `compare`, `hit` | `GraphCompileCacheHit`: shared lock, envelope, comparison |
| `open`, `wait` | `ScopedFileLock::Acquire`: create the sidecar, `flock(LOCK_EX)` |
| `recover`, `guard`, `createDb`, `createMeta` | `AtomicGraphOutput::Prepare` |
| `elaborate`, `write` | the driver reads the sources, `SaveGraphDb` fills the staging file |
| `describe`, `invalidate`, `renameDb`, `renameMeta` | `AtomicGraphOutput::Publish` |
| `disarm`, `reap`, `release` | `FinishGuardian` after success, the destructor |
| `fail`, `reapFailed`, `sweepDb`, `sweepMeta` | the destructor after a failure |

A lock belongs to an open file description: `ex = c` holds until both the
compiler and its guardian have closed it (`CompilerCloses`, `GuardianCloses`).
A database is the command line it was built with and the version of every
source file that was read; an inode holds one database or `Partial`. A reader
opens the inode the name leads to, then validates and maps that descriptor
(`LoadGraphDb`), so it may map a database that has been replaced meanwhile.

`GraphCache` says what all this is for: one cell that is replaced as a whole and
never by older contents, a certificate that is only ever about the cell, and
snapshots that nobody changes. `Cache` in `GraphPublication` is the refinement
mapping: the cell is what `<db>` leads to, the certificate is metadata in the
current format without its envelope.

Abstractions: elaboration and the text of a database (a database is what it was
made from); edits change the modification time; a process can unlink its own
file in its own directory, except in `RecoverFails`; the header bytes that
metadata keeps are `Envelope(d)`, in the runs the worst case where all databases
have the same.

### SessionStore

One action is one access to a file, or taking or leaving the store lock. A tool
call is a record (`Requests`): the operation, the waveform and name it was
given, and its arguments. The steps `resolve` ... `setActive` are
`_resolve_session` and `_get_or_create_session`, `lock` ... `unlock` are
`_create_session_payload` and `_mutate_session_payload`, and `exists` ...
`repair` are `delete_session`, which takes no lock around its unlink.

Bookmarks, signal groups and created signals are three maps with the same
operations; the model has one map from keys to times. The `mutate` functions are
`Accepts` (do they raise?) and `Effect`. `Slot(n)` is the file name made from a
session name: different names may have the same. A virtual-signal tool saves
twice within one critical section (`virtual = "yes"`), and a name with blanks
around it makes its last lookup fail (`"padded"`). `Crash` ends a call anywhere:
the process was killed, or a file operation raised.

### ServeSessions

Agents, serve processes and the pump are separate actors. `Write`, `Poll`,
`ReadLine`, `Settle` are `RtlTraceServeSession.query`; `GetLine`, `Report`,
`Respond` are one round of `RunServe`; `Pump` is the stderr thread;
`Reuse`, `StartProcess` are `_get_rtl_serve_session`, and `Find`, `Withdraw`,
`Stop` the `rtl_trace_serve_*` tools. `rlock` is `runtime_state_lock`, held from
the lookup of a process until the banner of a new one has been read; `qlock[s]`
is the session's `_query_lock`. A process may die (`Die`) or not answer in time
(`ReadTimeout`), and what a dead process has written can still be read.

A response is one line that names the command it answers and the database it was
made from, and the end marker. Diagnostics are pieces tagged with their command;
the stderr pipe holds `PipeSize` of them and blocks the process when it is full.

Not in this model: cleanup at interpreter exit; output that cannot be decoded;
the 5 s limit of `take_settled` (the pump is assumed to drain a pipe within it);
the serve loop's reaction to a truncated database.

### VirtualSignals

`Load`, one of `Create`, `Update`, `Delete`, `Refuse`, and `Save` are a tool of
tools.py that edits definitions: `_mutate_session_payload` takes the lock and
reads the file, the method of `VirtualSignalService` checks and edits the
payload, and the file is written. `Read` and the steps after it are an
evaluation, without the lock: `LookUp` asks the cache, `Descend` goes on to an
operand that is virtual, `Fetch` reads one from the waveform, `Finish` puts the
result in the cache and hands it to the evaluation that waits for it. The Python
call stack of `iter_transitions` and `_resolve_deps` is `stack[a]`, a frame per
signal with the operands still to be resolved.

| Operator | Code |
|---|---|
| `Sorted`, `Visit`, `VisitRefs` | `_topological_sort`, `_visit` and its loop: path, visited names, depth limit |
| `WithDependents` | the search of `_cache_invalidate_all` |
| `WidthsIn`, `Infer` | `_resolve_signal_width`, `_infer_ast_width` |
| `CanCreate`, `CanUpdate`, `CanDelete` | the checks that raise, before anything is saved |
| `Put`, `MakeRoom` | `_cache_put` |

A list of transitions is what it was computed from: a set of pairs of a signal
and its expression, or "recorded" or "missing" for a signal of the waveform. This
is what tells a current result from a stale one, and one signal's from
another's. An expression is the names it refers to, in order, and its width as a
function of theirs.

Other abstractions: one session and one time window, so that a key of the cache
is a name and an expression; a cache lookup, an insertion and an invalidation are
one step each, although threads may share the cache; the service and the tool
that calls it write the same payload in the same critical section, which is one
`Save`; a query that fails yields no transitions, like a signal that is not
there; an update that changes nothing but the description is a save. How a
session is resolved, and its deletion, are in `SessionStore`.

### WaveServer

One waveform, the processes that were started for it, and the agents that share
them. `Get` is `_get_wave_daemon` under `runtime_state_lock`; `Enter`, `Send`,
`Read`, `Timeout` are `WaveformDaemon.query` under `_query_lock`; `Load`,
`GetLine` are main.cpp; `Forward` is the thread of the `StdoutLineFilter`, which
drops the banners of reader libraries; the `Dump...` actions are
`dump_waveform_data`, one for each step on the two files. `job` is the command
that is executed, `out` and `tmp` are the contents of `OUT` and `OUT.tmp`: the
calls that wrote their records. A process may die at any step, be killed by the
timeout of its caller in the middle of a dump, fail to load, and fail at each
step of a dump.

Abstractions: an answer is the number of its call; all queries but the dump are
one; only one output path is looked at, because two do not meet; one agent's
process holds the registry (two servers have one daemon each, and then dumps to
one path do meet: section 4).

### WaveDatabase, WaveQueries

`WaveDatabase` reads a file line by line: scopes, variables, times, changes; a
line may come in any order that the reader accepts. `trans` are the transition
lists, `index` the map from paths without a bit range. `Resolve` is the lookup of
a path in a query, with its fallbacks. A path is a sequence of characters of which
only the dot, the bracket and the name of the top are told apart.

`WaveQueries` has an operator per query, over the list of one signal:
`get_value_at_time`, `find_edge`, `find_condition`, `find_value_intervals`,
`get_transitions`, `count_transitions`, `build_signal_overview_segments`,
`choose_auto_resolution`, `list_signals`, `list_signal_paths_page`, and the
formats of values. A search that the code makes by bisection is the set of
indices with the property, of which the least or greatest is taken.

| Property | Parts |
|---|---|
| `DatabaseExact` | every signal of the file, and nothing else, is found under its path and under its path without range; transitions are in order and those that share a time are marked |
| `SummariesExact` | the segments of an overview cover the window, and say what the signal does in them; their counts add up, except where two bursts merge (section 4); the automatic resolution is the smallest that fits |
| `QueriesAgree` | what is shown can be searched for; conditions, intervals, edges and counts are what point queries say at every time (conditions and edges: of signals without glitches) |
| `PartsAreWhole` | pages of paths, and parts of a list of transitions, are the whole list |

### EndpointLists, EndpointDedup

An endpoint is a record with its path, its range, its flags, and the owner's bits
that it covers. `MergeEndpointBitRangesInPlace` sorts the exact ones of a path
and sweeps; `DeduplicateEndpointsInPlace` looks every record up in an
open-addressing table, which grows when it is half full and is cleared slot by
slot after each list. `DedupPass` gives a list to both; `ListsExact` says that
the first of equal records stay in order and the table is left empty
(`FirstsAreKept`), and that a merge leaves the same bits to the same source
places, in ranges that do not touch (`MergeExact`).

### Coordinates

`PortOwnerSelection` turns declared indices into flat bits, `Rectangles` flat bits
into rectangles of indices, `flat_rewrite` makes the hint for a flat index,
`EndpointMatchesSignalAxes` filters endpoints by a selection, `Checks` are the
refusals of a selection in their order, `ParseSignalQuery` and
`ResolveSignalQuery` find the longest stored name that a query begins with. All
of them must agree on `Elements`: the tuples of indices that a selection names,
in the order of the declaration. They must when the layout is known
(`LayoutKnown`): fixed axes, and for a member of a struct a place that was verified; a
member without one is refused like a signal of an old database.

### TraceQueries

One action is one visit of a signal or one endpoint of its list; `stack` is the
recursion of `walk_route` with the endpoints that remain, in order, so the walk is
depth first as the code's. `RefuseVisit` has the refusals in their order (depth,
node limit, visited, stop). `VisitSignal` builds the list of a signal: recorded
endpoints, fallback drivers, the copies that a domain clips. `Edge` is one
endpoint: a compact port with its pieces, a direct port, a bridge to the signals
that share a port, a hop whose mapping is not known, an assignment with its cone.

The reference is `Reached`: nodes are a signal, a bit and a number of crossed
assignments, reached in any order, in `depth + 9` steps (`Steps`), which is more than
a walk takes. `NothingMissed` compares what is shown with the exact part of it, unless a
stop says what was left out; `NothingForeign` compares it with the whole of it, and what is shown as approximate with
the closure that takes every edge for whole signals (`any`), since nobody can tell the
bits.

`TraceAssumption` says which netlists a trace may meet (`IsNetlist`, `IsEndpointOf`):

* A record covers bits of its owner, unless the layout is unknown and it only marks
  that.
* A port has no bits of its own (GraphDb.cc:2499-2545), and a range of bits is one of
  the signal it names: a constant index out of bounds, whose record would concern no
  bit, is left out.
* A compact port leads to bits its targets have, which the reader of a database
  verifies (`validate_route`, GraphDb.cc:4040-4056).
* A selected range is one of the root (GraphDb.cc:4496-4500).
* A statement that assigns a signal without drivers has no coverage.

### NameMatching, NameSearch, HierQueries, QueryArgs, GraphQueries

`NameMatching`: whether a pattern matches within a name, the run of characters
that `find` requires of a name before it tries the pattern, and the edit distance,
with and without the bound at which it gives up. `NameSearch`: the threads of
`ParallelTopK.h`, which claim chunks of the names from a counter; one may throw, and
others may not start. What each does with a chunk (`Scan`) is `find`'s: name after
name, into a collector of the best `limit`; `Unbounded` is the bound of a collector
that is not full, the largest `size_t` (GraphDb.cc:5401).
`SearchExact` compares with sorting all the names, and `SearchEnds` is its
liveness.

`HierQueries`: what a compile records of the hierarchy, what a session infers from
signal names in an old database, and the tree with its limits, a node per step.
`HierarchyExact`: every instance within the limits is shown once, below its
parent and in order, and a stop is told exactly where something is missing.

`QueryArgs`: the options of each command, what values an option takes, and one reader for the
command line and for a line of `serve`. `ArgumentsExact`: what is accepted can be
run, and the order of options does not matter unless one is repeated.

`GraphQueries` composes the six: one request of any kind, on one database. They
share no state that a request changes; composing them in one specification checks
that each leaves the others' state alone.

## 3. What the runs check

| Run | Question | Instance | States |
|---|---|---|---|
| `graph_publication` | metadata never stale, writers exclude each other and guardians, no leak, fresh hits, no partial database visible, implements `GraphCache` (and so never goes back to older contents, nor changes a snapshot) | 2 compiles, 2 command lines, 1 reader, 1 source file, 1 edit, 2 kills, 4 inodes | 1.3 million (symmetry) |
| `graph_liveness` | the lock is released, staging is swept | 2 compiles, 2 kills | 156 thousand |
| `graph_freshness` | a documented claim, refuted | 1 compile, 1 edit | |
| `session_edits` | saves are current, edits serial, creation new | 2 clients, 1 waveform, 2 names, 3 calls, 1 crash | 88 thousand (symmetry) |
| `session_context` | explicit calls do not depend on the active session; every call returns | 2 clients, 2 waveforms, 2 names, 3 calls, 1 crash | 435 thousand |
| `session_lost` | a documented claim, refuted | | |
| `serve_protocol` | own response, own diagnostics, nothing left in the pipes; every call returns | 2 agents, 1 database, 3 calls, 1 fault, a pipe of one piece | 573 thousand |
| `serve_registry` | one process per database, no orphan, the right database | 2 agents, 2 databases, 3 calls, 1 fault | 804 thousand (symmetry) |
| `virtual_signals` | no cycle, no deletion of what is used, no stale cache for an agent that makes all the edits, answers from their own expression | 2 agents on 2 servers, a chain of 3 names, 6 expressions, 5 calls, 1 death, a depth limit of 2, a cache of 2 | 633 thousand (symmetry) |
| `wave_server` | own answer, one process, the file of a dump whole, kept and reported rightly; every call returns | 2 agents, 3 calls, 2 faults, dumps of 2 records | 756 thousand |
| `wave_queries` | the four properties of the table in section 2 | files of up to 4 lines, 4 names, times 0 to 3, widths 1 and 2, 7 values, an overview of at most 3 segments | 59 thousand |
| `graph_queries` | lists, selections, searches, walks, trees, arguments against their references; every search ends | see below | 118 thousand |

**Why the bounds are enough to be of interest.** Two actors make every pair of
critical sections overlap; a third call or run meets what two others left
behind. One edit separates what was stamped, what was read and what is on disk.
Two kills are a compiler and its guardian, the only way to leave staging files
behind. Four inodes are the published one, the one in staging, and two that
readers may still hold. Responses with two diagnostics do not fit a pipe of one.
Five calls define a chain of three signals, evaluate it and edit its start; a
cache of two is full before the chain is evaluated, and a depth limit of two is
exceeded by the same chain when it is built from its end.
Three calls and one fault reach a session that is started, dies in use, is
replaced, and used again by the agent that waited for it. Two faults kill a daemon
in a dump and let the next one fail at the file that it finds; two records make a
dump that is written in part.

`wave_queries`: four lines are a declaration and three changes, which make every
pattern of edges, glitches and bursts that a query distinguishes, and every
resolution up to the window; the properties look at every window of every prefix
of every file. Values change only in files with one signal, since a query looks at
one; files with several signals vary names, scopes and ranges.

`graph_queries`: lists of three of six endpoints (ranges that touch, overlap and
run both ways, and a symbolic one) with hashes that collide and a table of two
slots that must grow; thirteen declarations of up to three axes of two to four
indices, with selections inside, across and outside; netlists of three signals of
up to two bits with every kind of record that a compile writes, in both
directions, with each limit at a value that cuts; four names in three orders, up
to three threads, a chunk of one name; designs with nested instances and a
generate block, and every depth and node limit around their size; every list of up
to three options, with good and bad values. Numbers are read modulo 256 instead of
2^64.

`CHECK_DEADLOCK FALSE`: the bounds on runs, calls, edits and faults end every
behaviour of these instances. Symmetry is used for safety only, over sets whose
members no constant and no property tells apart.

**Fairness.** `FairSpec` gives weak fairness to what an operating system
schedules: each step of a process or thread that runs. Nothing forces an edit, a
call, a kill, a failure or a timeout to happen. The steps that wait for a lock
are part of their process's step: with bounded calls a lock is free for good in
the end, and a waiting process then proceeds, so weak fairness is enough. In
`ServeSessions` and `WaveServer` a timeout is not fair: `CallsReturn` holds also
where it never happens. In `WaveServer` the steps of an agent and those of a
daemon with its filter thread are fair: each line read is answered, in a finite
dump or with an error. In `NameSearch` the threads of a search are fair; that they
fail to start or throw is not.

## 4. Where code and documents disagree

Each of these is a run that TLC finds violated; the trace shows how.

1. `graph_freshness`: the fingerprint stamps the files named on the command line
   or directly in a `-f` list. An edited include file is a cache hit.
2. `session_lost`: `_get_or_create_session` looks for the default session without
   the lock and then saves an empty one, over the first edit of another agent.

Others that were met while modelling, and that no run shows. Of the session
store, backends and virtual signals:

* `delete_session` unlinks between the reload and the save of an edit, which
  brings the session back (tools.py:1708). `CopyIsCurrent` allows for it.
* A command with a newline (clients.py:294) has two responses, and one is read.
  Every later response of this process goes to the wrong call. The calls of
  `serve_protocol` are of one line.
* `update` infers the width of the updated signal only
  (virtual_signals.py:323). The widths stored with the signals that refer to it
  stay, are listed, and are used where those signals are operands.

* "Default Session" and `Default_Session` share a file (`SessionStore`, `Slot`),
  and the default session can be deleted under the first name.
* `open` through `rtl_trace_serve_query` changes the database of the process that
  stays registered for another one. `ServeSessions` models the command; the calls
  of its runs do not include it.
* docs/MCP_SIGNATURES.md:377 says that the cache is invalidated when a definition
  is updated. Only the cache of the server that updates it is, and an evaluation
  under way in another thread may put a result back that was computed before the
  update. This is why `AloneIsCurrent` is about an agent that has its server to
  itself and makes all the edits.
* docs/MCP_SIGNATURES.md:30 limits the depth of dependencies to 16. The check
  counts downwards from the signal that is edited, so a chain built from its end
  can be deeper.

Of the waveform server:

* `find_edge` compares the value at a time with the one a tick before; with
  records that share a time, forward and backward searches disagree
  (AgentAPI.cpp:1021 and 1047). `EdgesAgree` is about lists without glitches.
* At resolution 1 two bursts that touch become one segment, which counts the
  changes of the first only (AgentAPI.cpp:478).
* `strip_bit_suffix` cuts at the first bracket (WaveDatabase.cpp:18), so a path
  with a bracket in a scope loses more than its range.
* "bx" is extended with zeros (AgentAPI.cpp:229), and a hexadecimal value that
  begins with b or d is read as binary or decimal (AgentAPI.cpp:301).
* A dump of "samples" without a period throws and leaves `OUT.tmp`
  (AgentAPI.cpp:1391). `OUT.tmp` and the check for an existing `OUT` are shared by
  processes of different servers (1326, 1330). The existing file is removed before
  the rename (1420): a kill in between leaves only `OUT.tmp`, which `NothingLost`
  allows and the next dump truncates. The read timeout of the caller is such a kill
  (clients.py:454).
* The records of a dump are sorted by time with `std::sort` (AgentAPI.cpp:1402),
  which may exchange the records of a glitch.
* A partial traversal of an FSDB signal is cached as if it were complete
  (`FsdbAdapter.cpp`:314). The registry of daemons knows a waveform by its path
  only (clients.py:473), so a file that was replaced is answered from the old one.

Of the structural queries:

* A walk of loads that comes to a compacted global net with the whole signal
  through a cone or an unmapped hop has no domain, finds an empty list, and shows
  neither sinks nor a stop (TraceQuery.cc:199). `NothingMissed` is about assignments,
  not these sinks; tests/global_port_compaction_regression.py:41 expects them only
  for an alias that is mapped.
* A signal that was met first at the edge of a cone is not expanded when it is met
  again nearer to the root; only the stops "cone_limit" and "cycle" show it
  (README.md:86). `NothingMissed` excuses the former.
* The node limit is tested before the visited set (TraceQuery.cc:181), so a signal
  that was visited can be reported as cut. A root that is reached again as a whole
  is looked at only for the selected bits.
* A walk gives up at 512 pieces of a route (TraceQuery.cc:326), a map at 256
  (GraphDb.cc:403). Fallback drivers of a selected root are filtered in the
  coordinates of the source (TraceQuery.cc:301), where the comment at 364 speaks of
  those of the owner.
* The hint for a flat index of a struct member or of a compacted net is itself
  refused. `find --limit 0` gives one suggestion (GraphDb.cc:5394). Numbers are read
  with `stoull`, which accepts "-1" as a limit (GraphDb.cc:4931). Instances inside a
  generate block are roots of their own and are missing below `--root top`, without
  a stop (GraphDb.cc:2903).

## 5. What is proved

All theorems hold for every value of the constants that satisfies the named
assumptions of the module.

**GraphPublicationProofs.** `InductiveInvariant` establishes `IInv`:

* `TypeInv`, `VersionInv`: types, and nothing was read or stamped at a version
  that does not exist yet.
* `LockInv`: who holds the lock at which step, and what the guardian of the
  holder may be doing. `WritersExclude` follows: all writers and guardians are
  the one owner.
* `StageInv`: no name and no reader leads to the staging inode; what a build has
  read is at least as new as its stamps and as the published database. The
  second fact needs the lock: while a writer builds, nobody else publishes.
* `NoPartialDb`, `StageIsOwn`, `MetaDescribesDb` themselves.

`NoPartialDb` alone is not inductive: that a writer does not truncate an inode a
reader holds needs `StageInv`. `MetaDescribesDb` needs that the old metadata is
gone before the first rename (`StageInv`) and that staging is what this writer
built (`StageIsOwn`), which needs exclusion (`LockInv`). From `IInv`:
`TypeCorrect`, `ReadersSeeCompleteDbs`, `MetadataNeverStale`, `MutualExclusion`,
`WritersPublishOwnWork`, `NoStagingLeak`, the action properties `HitsAreFresh`,
`Monotone`, `SnapshotsAreImmutable`, and `Refinement`: `Spec => Cache!Spec`.

**SessionStoreProofs.** `StoreInvariant` establishes `IInv`: types, that every
payload is in the file its name leads to (`NamesFit`), and `Mine(c)` for every
client, which says what its call has established at each step: where it may be
(`Flow`), when it holds the lock (`Holds`), how its copy relates to the file
(`Current`), and which session it works on (`Own`). `Current` cannot say that
the file is unchanged since it was loaded: deletion takes no lock. It says "gone,
or unchanged", and creation of a default session preserves this because it
takes the lock. From `IInv`: `StoreTypes`, `SavesAreCurrent`, `EditsSerialized`,
`CreationIsNew`, `ExplicitCallsAreIndependent`.

**ServeSessionsProofs.** `ServeInvariant` establishes `IInv`: types, `Flow(a)`
(what a call has locked and which session it uses at each step), `Registered`
(the two tables agree) and `NoOrphans`. `OneServePerDb` follows because a session
that is being started is in neither table, and no session of its database is:
`runtime_state_lock`, which its starter holds, is what nobody else can pass. From
`IInv`: `ServeTypes`, `OneProcessPerDatabase`, `NoProcessIsLost`.

The protocol, for tool calls whose commands contain no
newline (`OneLine`, a hypothesis of each theorem; section 4 says what a command
with one does). `ProtocolInvariant` adds to `IInv`: `Alone`, that a call which
starts a session, or is in its lock, is the only one that has it; `Stage`, that its
command or the response is in one place of that process: in stdin (`Asked`), in
execution (`Working`), in stdout and what has been read of it (`Answered`,
`Complete`), or nowhere, because the process exited (`Died`); and `Rest`, that a
session nobody has is clean or its process has exited. `OwnResponse` alone is not
inductive: it needs that nothing was left by the call before, which is `Aligned`,
and `Aligned` needs to know where the command is when the call gives up. Two facts
carry the argument: a call gives up on a process only if that has exited or by
killing it, and the lock of a session that is being started is not needed, as
no other call can know it (`Exclusive`). Each diagnostic is counted (`Missing`): written, in
the pipe, or with the pump. From this: `SessionsAlign`, `ResponsesAreOwn`. With
`NoOpen` (no command opens another database), what a process has open, executes
and writes is of the database it was started with (`FromKey`), and a trace has a
process of its database (`Answers`): `TracesAreOfTheirDatabase`.

**VirtualSignalsProofs.** What two recursive functions of `VirtualSignals` compute for
every set of definitions. A recursive function is a `CHOOSE`, so a function with
its equation has to exist before anything follows from the equation. For
`WithDependents` it is built from one set per number of steps (`StepsExist` of
`FiniteInduction`, with `SetInduction`: a set of naturals with 0 and with successors
is all of `Nat`, from the well-foundedness of inclusion on finite sets). For `Sorted` it is built from the
depth where `_visit` gives up towards depth 0, because a call's outcome depends on
calls one deeper (`VisitRefsSame`, `VisitSame`, `VisitExists`). Then
`DependentsFound` and `DependentsOnly`: the search gives the least set that has the
signal and whatever refers to a member; the bound on its steps is enough, as
every step before the last adds a name. `SortedClear`: after a successful
`_topological_sort` the signal is in a set that is closed under references and in
which every subset has a member that refers to none of it (`Clear`). The
invariant of the visit is `Sound`: what has been visited is `Clear` and avoids
the path.

`SignalsInvariant` establishes `IInv`: types,
`CacheOwn` (a cached value has in it the expression of its key) and `Mine(a)`:
where a call is at each step, that every frame of its stack is about a signal
that is defined in what the call has read and has that signal's expression in its
value (`Flow`), that it is past `Load` exactly while it holds the lock
(`Holds`), and that an edit is made from what the file holds and drops no
definition that another one refers to (`Current`, `KeepsUsed`). The bound of the
cache needs `Oldest` to be one of its entries, which is that a finite set has an
element of greatest age (by the well-foundedness of inclusion), and that merging
entries does not make a set larger. From `IInv`: `SignalTypes`,
`AnswersFromOwnExpression`, `UsedSignalsStay`. The argument for the last one uses
the lock: the check of `delete` is made of the definitions that `Save` replaces.

`NoSignalDependsOnItself` (`Acyclic`) says the absence of cycles as "every set of names
has a member that refers to none of them" (`NoCycles`), which needs no paths and is
inductive with what is staged (`NoCyclesAnywhere`): a new definition only closes
a cycle through itself, and that one `SortedClear` excludes, as the set it
gives is closed. `OwnEditsInvalidate` (`AloneIsCurrent`) rests on
`AloneUndisturbed`: as long as an agent has its server to itself and makes all the
edits, each cached value has in it only expressions that the file holds, of
signals on which its own signal depends (`ComputedFrom`); while an edit is staged
this also holds of the edited definitions, because `DependentsFound` says that the
invalidation reached everything else; and each frame of an evaluation is of a
signal on which the one below it depends (`StackFrom`).

**WaveProofs.** *The daemons.* `ServerInvariant` establishes `IInv`: types; `Ordered`, that
the processes before the registered one are dead, those after it not yet started,
and that each was ended by a fault; `Flow` and `Locked`, where a call is and that
the query lock is the one of its reader; and of every process that runs that the
command of the call in its lock, or the answer to it, is in exactly one place:
in stdin (`Asked`), in execution (`Executed`), with the filter (`Filtered`) or in
stdout (`Answers`). `OwnAnswer` alone is not inductive: the line that `Forward`
passes on is the caller's because nothing else can be with the filter. `Recorded`
says what a dump has done at each step, which needs that only one process works
on the files (`Ordered`) and only for a call that waits (`Executed`). From `IInv`:
`ServerTypes`, `OneProcess`, `OwnAnswers`, and the action property
`OutputIsSafe`, for any number of agents, calls, records and faults.

*The database.* `DatabaseIsExact` states `DatabaseExact` for every file:
any names, types, identifiers, values, number of lines and order of the loop over
the hash table. The invariant adds to the types: no transition is later than the
time read last (`Timed`, without which an appended transition need not be in order),
and, of the paths that the loop has visited (`Visited`), an entry of the index is the
only one with its stem, and an ambiguous stem has two (`Indexes`). That a stem
resolves to its path is then a fact about strings: a stem has no bracket
(`StemHasNoBracket`), and the prefix `TOP.` is taken off where it was put
(`TopOfTop`). The proof needed one exception more than TLC's instance: a stem `s` for
which `TOP.TOP.s` is itself a signal, which `resolve_query_path` finds for `TOP.s`.

*Answers in parts.* `PartsAreWholeAlways` states `PartsAreWhole` for every file. `Collected`
is the client that asks again from where an answer ended. `CollectedIs` is what both halves
share: if every continuation has a position in the list and every answer is the part from
there to where its own continuation is (`Part`), then after `k` further answers the whole
list or more than `k` entries of it were given (`Reached`), so `n` of them are enough for
a list of `n` entries. For pages (`PagesContinue`) a position is the place of the cursor in
the sorted list: the paths with a prefix are next to each other in the order of strings
(`PrefixBlock`), so the page that stops at the first path behind the prefix loses none
(`PageIs`), and what sorts after the `k`-th path is the rest of the list (`BehindIs`, from
`ListedOnce`: a set has one list in an order). For transitions (`WindowContinues`) it is
the number of transitions before the time that is asked for: without glitches the
times increase strictly (`Strictly`), so the answer that starts one after the last time begins with the
next transition (`StopIs`). The invariant (`Declared`) adds that paths are
finitely many and none is empty, because the empty cursor means the beginning: of names
`WaveAssumption` says that they are not empty and do not end in a dot, so that no
name is consumed whole by taking `TOP.` off (`StrippedIsNamed`).

*Queries.* `QueriesAgreeAlways` states `QueriesAgree` for every file. `QueryAssumption` is
what it assumes of the values: a scalar changes to one of the six characters that the
reader accepts (VcdAdapter.cpp:115), a vector to at most as many digits as it is wide.
Each part reduces a query to the number of transitions up to a time (`UpTo`):

* A decimal number that was read from `n` bits has these bits (`NumberReadsBack`: what
  halving leaves after `k` steps is the number of the first `n - k` bits), a sharp
  hexadecimal digit stands for its four bits (`HexIsSharp`), and the zeros in front are cut
  off again (`FitsBack`): `AskedAsShown`.
* Without glitches a transition is the only one at its time (`AloneAtItsTime`), so the
  first transition that wrote a value is the first time at which it is shown
  (`ConditionAhead`, `ConditionBack`).
* The pieces between transitions are exactly the times with the same number of
  transitions up to them (`PieceIs`), also where several transitions share a time
  and the piece between them is empty: `IntervalsCover`.
* The forward search compares with the value one time unit before, the backward one with
  the transition before: without glitches both see the same edges (`BeforeIs`), at the
  times that point queries show (`ShownIs`), one after the other (`StepsAhead`,
  `StepsBack`), and as many as are counted (`CountsEdges`). With glitches the last
  transition at a time still is an edge that the forward search sees (`RisingIsFound`),
  and counts add up (`CountSplits`).

*Summaries.* `SummariesAreExact` states `SummariesExact` for every file. `QueryAssumption`
adds that the target is at least 3, the segments of a window with one cluster (20 in the
code): otherwise no resolution need fit. The overview and its estimate are recursive
functions with one turn per cluster (`Overview`, `Estimate`), and what each turn keeps
holds after the last (`OverviewsIn`, `EstimatesIn`). Kept is `Summarised`, of the first `e`
transitions, up to the end of a cluster:

* the segments cover the window up to the cursor (`Tiled`), and the value that is kept is
  the one shown from there to the next transition (`KeptValue`), so a stable segment tells
  the truth; merging two that look alike preserves both (`AppendTiles`, `AppendTruthful`);
* from resolution 2 on a stable segment lies between two bursts, since a gap of two leaves
  a time behind the burst before it. Two bursts are never merged, and the numbers of
  transitions add up to those in a burst (`BurstsGrow`, `AppendCounts`);
* there are at most as many segments as transitions that start one (`Marks`), which is
  what the estimate counts (`EstimateIs`).

The binary search needs that the estimate never grows with the resolution
(`EstimateFalls`). What starts a segment at a coarser resolution starts one at a finer one
(`FinerMarks`). The segment behind the last cluster is the exception: only the coarser
summary has it when the finer one ends with a burst at the last time of the window. That
burst then has a mark of its own, which the coarser summary lacks (`LastBurst`). So
the range that is halved keeps the smallest resolution that fits (`Halved`), and
the length of the window always fits (`WholeFits`).

**NameQueriesProofs.** *`find`.* `SearchesAreExact` states `SearchExact` for all names, queries,
patterns and limits, any number of threads and size of chunks. `SearchAssumption` is
what it assumes of the constants: a database lists no name twice, the threads are
finitely many, and no name and query together are longer than `Unbounded`. Four
arguments meet in it.

*The threads.* `SearchInvariant`: threads run only while something is
searched (`Running`); a scan that has thrown is remembered by a thread that has
ended, and nothing has been answered (`Failing`); a chunk in a scan ends before
the next one to be claimed, if any is left (`Claimed`: an exception stores the end
in the counter, which may set it back, and then nothing more is claimed). From it:
`ThreadsScanDisjointChunks` and `NothingPartialIsAnswered`. `Collecting` adds what has
been collected: there is a set of names for each thread (`WereGiven`), no name is in two of
them, each name that was claimed is in one of them or in a chunk that is being scanned
unless a scan has thrown, and the thread's collector holds the best of its set. Threads
end only when all names are claimed (`AllClaimed`).

*The collectors.* `Holds(c, U, k)`: `c` is the whole of `U`, or `k` keys of it to which
every other key of `U` compares as greater. `Push` preserves it (`PushHolds`). A key
that its collector has dropped has `k` lesser ones in the union of the collectors,
so the first `k` of the union are the first `k` of all keys (`FirstOfPart`); that a
finite set of keys has one sorted list is `RankedIs`.

*The bound.* What `Suggest` does not push it would not have kept (`SuggestIs`).
`BoundedEditDistance` gives up on a difference of lengths or on a row whose least
entry is above the bound; the first is below the distance (`EntryBounds`), and the
least entry of a row never decreases (`RowsGrow`), so a distance is either exact or
both it and the exact one are above the bound (`BoundedIs`).

*The required run.* A name without it does not match (`LiteralIsRequired`), so asking
for it first changes nothing. The invariant over the prefixes of a pattern
(`Evident`) says of every place that a prefix reaches in a name that the name has the
best run so far and that the current run ends at that place; after a character that a
quantifier makes optional there is no current run, and `a+` may be left at the end of
any repetition. For this `Closure`, `MatchToken` and `ReadToken` are shown to exist as the
recursive functions they are (`MatchingExists`, `ReadingExists`).

*The hierarchy.* `TreesAreExact` states `HierarchyExact` for every finite hierarchy,
root, depth and number of nodes. First the paths: `InOrder` is a strict total order
in which a scope comes before what is in it, and what is in one scope before or
after all that is in its neighbour (`OrderTotal`, `ParentFirst`, `ChildBefore`); so a
finite set has exactly one sequence in that order and `Children` and `HierRoots`
list what they should (`InTurnExists`, `ListedOnce`, `ChildrenAre`, `RootsAre`). `RootsCover` is
about the definitions only: the root of a path is the shortest of its scopes from
which all scopes down to it are in the table (`RootsCoverAll`). `HierExact` holds
when the walk is done, and the invariant says what holds on the way (`Built`):

* `StackFits`: the calls of `build` are nodes of the tree, one level below each
  other, within the depth, and what each has still to build are its children in
  order.
* `TreeFits`: the tree is in order, of nodes below the root, within the limits.
* `Ahead`: all that is still to be built comes after all that is there.
* `Covered`: what is missing is below a node that has been told, or below one that
  is still to be built.
* `CutFits`: `truncated` is said only when the tree is full and a node within the
  depth is missing; until then every stop is at the greatest depth.

The last is why the two kinds of stop do not hide each other: without it a node
below a stop for the depth could be counted as left out for the number.

*The arguments.* `ArgumentsAreExact` states `ArgumentsExact` for all words and numbers.
`ArgsAssumption`: what is given is a sequence of options, each of one word or of two.
That an accepted command can be run is an invariant of the reader (`ReadStates`: every
value that is stored suits its option, and a session stores no `--db`), which each word
preserves (`ReadWordKeeps`). For the order, reading the words of two groups is reading the
first and then the second (`ReadsAppend`); a complete option is read as a whole
(`GroupRead`); so the result says only whether all of them are accepted and what each
means (`MeansFirst`), which no ordering changes (`OrderLost`).

**GraphQueriesProofs.** *The lists of endpoints.* `ListsAreExact` states `ListsExact` for every set of lists,
every record in them and every hash. `DedupAssumption` is what it assumes: a hash is a
number, and no record that is given is marked as merged, which only
`MergeEndpointBitRangesInPlace` does (`bit_map_merged` is false until
`GraphDb.cc:1989`, and `SaveGraphDb` calls it once for each list, `GraphDb.cc:3527`);
the same pass over the hops of a stored graph, where records may have the mark, is
not covered. Between two lists every slot of the table is free (`TableIsFree`), which
is the invariant of `DedupSpec`; during one, `LookInv`: the records that are kept are
in the table, each with no free slot between its hash and its place, and there are
no more of them than half of the slots (`GrownIs`). So a search ends, and it ends
at an equal record whenever there is one (`SlotIs`): collisions neither hide a
repetition nor make one. For the union of ranges the invariant of the sweep is
`SweepInv`: each run is exactly the bits of its members, runs leave a bit between
them, and the last begins no later than the range that comes next, which is what the
sort is for. Then every record that can be merged is in one run (`RunsCover`,
`RunsDisjoint`), and the one record left of a run has the run's bits (`UnitedIs`):
`BitsKept`, `LeftApart` and `RestKept` are the three parts of `MergeExact`. Both passes
are recursive functions; that these exist is `StepsInside` of `FiniteInduction`.

*Selections.* `SelectionsAreExact` states `SelectionsExact` for every declaration (any
number of axes, of any width and direction), selection, bitmap, set of stored names and
bound on the pieces. `CoordinateAssumption` types them, and says that a database that is
old has no row of coordinates: rows are read from version 6 on (`GraphDb.cc:4270`).
The total width is a number without bound here; that the code refuses a signal of more
than 2^31 - 1 bits (`GraphDb.cc:4491`) is not modelled. All parts rest on one fact: a
signal's bit is a number in mixed radix, whose digits are the offsets on its axes, so
a bit and a tuple of indices determine each other and `Chosen`, the bits whose digits
are selected, are the bits of `Elements` (`ElementsAreBits`). The parts are then:

* *Ranges* (`SelectionIsExact`). After the first `a` axes the ranges of
  `PortOwnerSelection` are the first bits of the blocks whose first `a` digits are
  selected (`Starts`, `CutInv`), each there once, so that the division by their number
  is exact: it gives up only when there are more pieces than the bound. When the axes
  that follow are whole the blocks are, too (`LastRows`).
* *Rectangles* (`RectanglesAreExact`). The pieces that `emit` makes of a range of the
  bits of the last `k` axes tile it: they cover it and no two share a bit (`Tiles`).
  The part of the first row, the whole rows and the part of the last are disjoint
  since their digits on the axis are.
* *Hint* (`HintIsExact`). One index on each axis is one bit, within bounds, so no check
  of the selection refuses it but those of the kind of signal.
* *Filter* (`FilterIsExact`). Ranges that overlap on each axis have a tuple in common.
* *Names* (`NamesAreLongest`). The split is at the last place where a stored name ends
  and only selects follow.

`CutsAre` and its like show that the recursive functions of the model exist.

*The walk of a trace.* `NothingIsForeign` states `NothingForeign` for every netlist that
satisfies `TraceAssumption`, of any size and with cycles, every request and every bound
on the pieces of a route. What has been collected must be connected to the selection, and
that needs the same of what is still to be done. The invariant is `TraceInv`:

* `VisitFits`, of a call: in as many steps as its depth its signal is reached if bits are
  ignored, and, if it is not approximate, each of its bits over bits that are recorded.
* `EdgeFits`, of an endpoint on the stack: it is a copy of a record of its signal, and
  unless what follows is approximate it has that record's coverage and concerns one of
  the bits of the call.
* `EntryFits`, of what was collected: an exact endpoint has a bit in a place that is
  reached, an approximate one has it if bits are ignored.

The lists of a visit are those of the signal, clipped to a domain and with copies merged
(`FramesFit`). An endpoint of a call is one of the reference's edges in use (`UsedBit`),
so what it leads to is one step further: through the pieces of a compact port
(`CompactCalls`), a port or a bridge of the session (`BridgeCalls`), or an assignment
(`AssignmentCalls`); `EffectFits` joins them. What has been visited
only removes calls, so nothing depends on the order of the endpoints, the limits or the
copies that are left out, and the invariant does not mention them.

**Model-checked only.** Liveness under fairness (`SearchEnds` and the others).
`NothingMissed` of `TraceQueries`: it needs more of a netlist than `TraceAssumption` says,
and an account of what an earlier visit did, or left, of a place for which a later one is
refused. The claims of
`graph_freshness` and `session_lost` are refuted, so nothing is to be proved of them.

## 6. What is not modelled

* Elaboration with the slang library, and the collection of references from its
  syntax tree: a step is a visit of vendored data structures. The endpoint lists of
  `TraceQueries` are of the kinds that a compile writes, not computed from a design.
* Members of structs in a walk, references that are inferred from the text of an
  assignment, and the historical repair of scalar indices of unpacked arrays
  (`SessionRestoreLegacyScalarUnpackedNative`).
* The order and the format of what the queries print; `whereis` beyond its
  arguments, which is a lookup.
* `analyze_pattern`, regular expressions over signal names, `get_snapshot` (the
  point query for several signals), the order of records in a dump.
* The FST and FSDB bindings: they feed the lists that `WaveDatabase` models; the
  FSDB one is compiled only with a vendor's kit.
* The expression parser and evaluator: pure functions of a text, and of a tree
  and the values of its operands.
* The stand-alone waveform server: one process per file and query, with the locks
  of `WaveServer`'s registry and no other state.
* Path mapping: three caches, filled once per waveform and session and never
  refreshed; each is a function of the waveform until the file changes.
* `daemon_client.py`, `waveform_mcp.py`, ranking, wrappers, formatting, documents,
  tests.

## 7. What is left

In this order, each with its proofs where the prover reaches:

1. `PathMapping`: the three caches and a cleanup between two of their uses.
2. Two servers, each with a daemon of its own, that dump to one path.
3. Struct members in `TraceQueries`, with their offsets.
