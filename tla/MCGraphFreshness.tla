-------------------------- MODULE MCGraphFreshness --------------------------
(***************************************************************************)
(* GraphPublication with the versions of all source files at the start of  *)
(* each compile remembered, to state what a user expects of --incremental. *)
(***************************************************************************)
EXTENDS MCGraphPublication

VARIABLE began      \* src when the compile process started

FreshInit == Init /\ began = [c \in Compilers |-> src]

FreshNext ==
    /\ Next
    /\ began' = [c \in Compilers |->
                    IF pc[c] = "idle" /\ pc'[c] = "stamp" THEN src ELSE began[c]]

FreshSpec == FreshInit /\ [][FreshNext]_<<vars, began>>

(* A hit means that no source file has changed since the database was      *)
(* built: "--incremental - reuse previous compilation, only recompile      *)
(* changed files" (agent_debug_textbook/02_STRUCTURAL_EXPLORATION.md:45).  *)
(* GraphCompileCacheHit answers from the stamps of the listed files only.  *)
HitCoversEveryFile ==
    [][\A c \in Compilers :
         pc[c] = "compare" /\ pc'[c] = "hit" =>
             \A f \in Files : began[c][f] <= data[db].read[f]]_<<vars, began>>

=============================================================================
