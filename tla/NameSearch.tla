----------------------------- MODULE NameSearch -----------------------------
(***************************************************************************)
(* `find` and the suggestions for a name that is not there: the names of   *)
(* the database are scanned in chunks by several threads, each with a      *)
(* bounded collector of its own (ParallelTopK.h), and the best are merged. *)
(* `find` asks for the names that match, in their order; if there are none *)
(* it asks again, for the names with the least edit distance.              *)
(***************************************************************************)
EXTENDS NameMatching, Listings

CONSTANTS Text,        \* the names in their order: rank |-> characters
          Orders,      \* orders of the ranks in the database
          Requests,    \* [query, regex, limit]
          Workers,     \* threads; 0 is the one that asked
          Cores,       \* number of threads that the machine offers
          Chunk,       \* kParallelScanChunk, 8192 in the code
          MinItems,    \* kParallelScanMinItems, 32768 in the code
          Unbounded    \* the largest size_t, above every distance

ASSUME SearchAssumption ==
  /\ Workers \subseteq Nat /\ 0 \in Workers /\ IsFiniteSet(Workers)
  /\ DOMAIN Text \subseteq Nat /\ \A r \in DOMAIN Text : Text[r] \in Strings
  /\ \A o \in Orders : o \in Seq(DOMAIN Text) /\ \A i, j \in DOMAIN o : o[i] = o[j] => i = j
  /\ \A q \in Requests : q.query \in Strings /\ q.regex \in BOOLEAN /\ q.limit \in Nat
  /\ \A r \in DOMAIN Text, q \in Requests : Len(Text[r]) + Len(q.query) <= Unbounded
  /\ Chunk \in Nat \ {0} /\ MinItems \in Nat /\ Cores \in Nat \ {0} /\ Unbounded \in Nat

---------------------------------------------------------------------------
VARIABLES request,    \* what was asked
          order,      \* the names of the database: index + 1 |-> rank
          phase,      \* "idle", "find", "suggest", "done" or "failed"
          pc,         \* of each worker: "off", "ready", "scan" or "joined"
          starting,   \* the next thread to start, 0 when all that can have started
          next,       \* the first index that no worker has claimed
          begin,      \* where the chunk of a worker begins
          best,       \* what a worker has collected: pairs <<score, rank>>
          error,      \* a scan has thrown
          found, suggestions
searchVars == <<request, order, phase, pc, starting, next, begin, best, error, found, suggestions>>

n == Len(order)
AtLeastOne(k) == IF k = 0 THEN 1 ELSE k
limit == IF phase = "find" THEN request.limit ELSE AtLeastOne(request.limit)
threads == IF n < MinItems THEN 1 ELSE Min({Cores, Cardinality(Workers), (n + Chunk - 1) \div Chunk})
Less(a, b) == a[1] < b[1] \/ (a[1] = b[1] /\ a[2] < b[2])
Worst(c) == CHOOSE k \in c : \A l \in c : ~Less(k, l)

Push(c, key) ==
  IF limit = 0 THEN c
  ELSE IF Cardinality(c) < limit THEN c \cup {key}
  ELSE IF Less(key, Worst(c)) THEN (c \ {Worst(c)}) \cup {key}
  ELSE c

(* What a thread does with one name: find keeps a match, which a pattern   *)
(* may rule out by its required run; a suggestion needs its distance only  *)
(* as far as it can beat the worst of a full collector.                    *)
Matches(name) ==
  IF request.regex
  THEN HasRun(name, RequiredLiteral(request.query)) /\ regex_search(request.query, name)
  ELSE HasRun(name, request.query)
Bound(c) == IF Cardinality(c) >= limit THEN Worst(c)[1] ELSE Unbounded
Suggest(c, rank) ==
  LET d == BoundedEditDistance(Text[rank], request.query, Bound(c))
  IN  IF d <= Bound(c) THEN Push(c, <<d, rank>>) ELSE c
ScanName(c, rank) ==
  IF phase = "suggest" THEN Suggest(c, rank)
  ELSE IF Matches(Text[rank]) THEN Push(c, <<0, rank>>) ELSE c
Scan(c, from, to) ==
  LET after[i \in 0 .. to - from] == IF i = 0 THEN c ELSE ScanName(after[i - 1], order[from + i])
  IN  after[to - from]

(* The collectors are merged, sorted and cut; `find` without a match is    *)
(* followed by the suggestions.                                            *)
First(keys, k) ==
  LET s == InTurn(keys, {p \in keys \X keys : Less(p[1], p[2])})
  IN  [i \in 1 .. Min({k, Len(s)}) |-> s[i][2]]
Top(keys) == First(keys, limit)
Idle == /\ pc' = [t \in Workers |-> "off"] /\ starting' = 0 /\ next' = 0
        /\ begin' = [t \in Workers |-> 0] /\ best' = [t \in Workers |-> {}]
Return(names) ==
  /\ Idle
  /\ IF phase = "find"
     THEN /\ found' = names /\ suggestions' = <<>>
          /\ phase' = IF names = <<>> THEN "suggest" ELSE "done"
     ELSE /\ suggestions' = names /\ phase' = "done" /\ UNCHANGED found

SearchInit ==
  /\ request = [query |-> <<>>, regex |-> FALSE, limit |-> 0] /\ order = <<>> /\ phase = "idle"
  /\ pc = [t \in Workers |-> "off"] /\ starting = 0 /\ next = 0
  /\ begin = [t \in Workers |-> 0] /\ best = [t \in Workers |-> {}]
  /\ error = FALSE /\ found = <<>> /\ suggestions = <<>>

(* A pattern that std::regex refuses was refused with the arguments.       *)
Ask ==
  /\ phase = "idle" /\ phase' = "find"
  /\ \E r \in Requests, o \in Orders : (r.regex => Valid(r.query)) /\ request' = r /\ order' = o
  /\ UNCHANGED <<pc, starting, next, begin, best, error, found, suggestions>>

Searching == phase \in {"find", "suggest"}
Quiet == Searching /\ \A t \in Workers : pc[t] = "off"

(* Few names, or none wanted: on the calling thread.                       *)
SearchInline ==
  /\ Quiet /\ starting = 0 /\ (threads <= 1 \/ limit = 0 \/ n = 0)
  /\ Return(Top(IF limit = 0 THEN {} ELSE Scan({}, 0, n)))
  /\ UNCHANGED <<request, order, error>>
InlineThrows ==
  /\ Quiet /\ starting = 0 /\ threads <= 1 /\ limit # 0 /\ n # 0
  /\ phase' = "failed" /\ error' = TRUE
  /\ UNCHANGED <<request, order, pc, starting, next, begin, best, found, suggestions>>

(* Threads are started one after the other; when one does not start the    *)
(* search goes on with those that did.  The calling thread is worker 0.    *)
StartPool ==
  /\ Quiet /\ starting = 0 /\ threads > 1 /\ limit # 0 /\ n # 0
  /\ starting' = 1
  /\ UNCHANGED <<request, order, phase, pc, next, begin, best, error, found, suggestions>>
StartThread ==
  /\ Searching /\ starting > 0
  /\ IF starting < threads
     THEN pc' = [pc EXCEPT ![starting] = "ready"] /\ starting' = starting + 1
     ELSE pc' = [pc EXCEPT ![0] = "ready"] /\ starting' = 0
  /\ UNCHANGED <<request, order, phase, next, begin, best, error, found, suggestions>>
ThreadFailsToStart ==
  /\ Searching /\ starting \in 1 .. threads - 1
  /\ pc' = [pc EXCEPT ![0] = "ready"] /\ starting' = 0
  /\ UNCHANGED <<request, order, phase, next, begin, best, error, found, suggestions>>

(* Mutant: the counter is stored from an old value, not added to.          *)
ClaimLate(t) ==
  /\ pc[t] = "ready"
  /\ begin' = [begin EXCEPT ![t] = next]
  /\ next' = begin[t] + Chunk
  /\ pc' = [pc EXCEPT ![t] = IF next >= n THEN "joined" ELSE "scan"]
  /\ UNCHANGED <<request, order, phase, starting, best, error, found, suggestions>>
Claim(t) ==    \* next.fetch_add
  /\ pc[t] = "ready"
  /\ begin' = [begin EXCEPT ![t] = next]
  /\ next' = next + Chunk
  /\ pc' = [pc EXCEPT ![t] = IF next >= n THEN "joined" ELSE "scan"]
  /\ UNCHANGED <<request, order, phase, starting, best, error, found, suggestions>>
ScanChunk(t) ==
  /\ pc[t] = "scan"
  /\ best' = [best EXCEPT ![t] = Scan(@, begin[t], Min({n, begin[t] + Chunk}))]
  /\ pc' = [pc EXCEPT ![t] = "ready"]
  /\ UNCHANGED <<request, order, phase, starting, next, begin, error, found, suggestions>>
(* Mutant: a thread that threw is not joined.                              *)
ScanThrowsOut(t) ==
  /\ pc[t] = "scan"
  /\ error' = TRUE /\ next' = n
  /\ pc' = [pc EXCEPT ![t] = "lost"]
  /\ UNCHANGED <<request, order, phase, starting, begin, best, found, suggestions>>
ScanThrows(t) ==
  /\ pc[t] = "scan"
  /\ error' = TRUE /\ next' = n
  /\ pc' = [pc EXCEPT ![t] = "joined"]
  /\ UNCHANGED <<request, order, phase, starting, begin, best, found, suggestions>>

Joined == pc[0] = "joined" /\ \A t \in Workers : pc[t] \in {"off", "joined"}
Merge ==
  /\ Searching /\ Joined /\ ~error
  /\ Return(Top(UNION {best[t] : t \in Workers}))
  /\ UNCHANGED <<request, order, error>>
Rethrow ==
  /\ Searching /\ Joined /\ error
  /\ phase' = "failed"
  /\ UNCHANGED <<request, order, pc, starting, next, begin, best, error, found, suggestions>>

SearchStep == SearchInline \/ StartPool \/ StartThread \/ Merge \/ Rethrow
           \/ \E t \in Workers : Claim(t) \/ ScanChunk(t)
SearchFault == InlineThrows \/ ThreadFailsToStart \/ \E t \in Workers : ScanThrows(t)
SearchNext == Ask \/ SearchStep \/ SearchFault
SearchFairness == WF_searchVars(SearchStep)

---------------------------------------------------------------------------
(* What is answered is what sorting all names would give: the first names  *)
(* that match (by the pattern alone), and if there are none the names of   *)
(* the least edit distance, at least one; however the chunks fell to the   *)
(* threads and whichever threads started.                                  *)
TopIsExact ==
  phase = "done" =>
    LET names == ToSet(order)
        hits == {r \in names : IF request.regex THEN regex_search(request.query, Text[r]) ELSE HasRun(Text[r], request.query)}
        near == {<<EditDistance(Text[r], request.query), r>> : r \in names}
    IN  /\ found = First({<<0, r>> : r \in hits}, request.limit)
        /\ suggestions = IF found = <<>> THEN First(near, AtLeastOne(request.limit)) ELSE <<>>

(* No name is collected twice: the merged list would repeat it.            *)
CollectedOnce == \A t, u \in Workers : t # u => best[t] \cap best[u] = {}

(* An exception of a scan ends the request after all threads have ended:   *)
(* nothing that is incomplete is answered, and no thread is left running.  *)
NothingPartial ==
  /\ error => phase # "done" /\ suggestions = <<>>
  /\ ~Searching => \A t \in Workers : pc[t] \in {"off", "joined"}

(* Every request ends, if the threads run.                                 *)
SearchEnds == phase = "find" ~> phase \in {"done", "failed"}

(* The parallel search answers as sorting would, or fails as a whole       *)
(* (ParallelTopK.h:33).                                                    *)
SearchExact == TopIsExact /\ CollectedOnce /\ NothingPartial
============================================================================
