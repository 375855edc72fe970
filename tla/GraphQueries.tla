---------------------------- MODULE GraphQueries ----------------------------
(***************************************************************************)
(* One request to rtl_trace at a time: the arguments of a command are      *)
(* read, a signal's name and selection are resolved, the names of the      *)
(* database are searched, its drivers or loads are traced, or the instance  *)
(* hierarchy is printed; and the pass of a compile over the endpoint lists *)
(* of its signals.  The requests share nothing that a request changes,     *)
(* except the hash table that a worker of the compile keeps from one list  *)
(* to the next.                                                            *)
(***************************************************************************)
EXTENDS EndpointDedup, Coordinates, NameSearch, TraceQueries, HierQueries, QueryArgs

queryVars == <<dedupVars, coordVars, searchVars, traceVars, hierVars, argVars>>

QueryInit == DedupInit /\ CoordInit /\ SearchInit /\ TraceInit /\ HierInit /\ ArgsInit

NoLists == given = <<>> /\ Slots(dedupTable) = 0
NoSelection == asked = NoSignal /\ named = NoName
NoSearch == phase = "idle"
NoTraces == tracePhase = "idle"
NoHierarchy == hierPhase = "idle"
NoArguments == call = NoCall

Dedup  == NoSelection /\ NoSearch /\ NoTraces /\ NoHierarchy /\ NoArguments /\ DedupPass
          /\ UNCHANGED <<coordVars, searchVars, traceVars, hierVars, argVars>>
Select == NoLists /\ NoSearch /\ NoTraces /\ NoHierarchy /\ NoArguments /\ CoordNext
          /\ UNCHANGED <<dedupVars, searchVars, traceVars, hierVars, argVars>>
Find   == NoLists /\ NoSelection /\ NoTraces /\ NoHierarchy /\ NoArguments /\ SearchNext
          /\ UNCHANGED <<dedupVars, coordVars, traceVars, hierVars, argVars>>
Walk   == NoLists /\ NoSelection /\ NoSearch /\ NoHierarchy /\ NoArguments /\ TraceNext
          /\ UNCHANGED <<dedupVars, coordVars, searchVars, hierVars, argVars>>
Hier   == NoLists /\ NoSelection /\ NoSearch /\ NoTraces /\ NoArguments /\ HierNext
          /\ UNCHANGED <<dedupVars, coordVars, searchVars, traceVars, argVars>>
Args   == NoLists /\ NoSelection /\ NoSearch /\ NoTraces /\ NoHierarchy /\ ReadCall
          /\ UNCHANGED <<dedupVars, coordVars, searchVars, traceVars, hierVars>>

QueryNext == Dedup \/ Select \/ Find \/ Walk \/ Hier \/ Args

QuerySpec == QueryInit /\ [][QueryNext]_queryVars /\ SearchFairness
============================================================================
