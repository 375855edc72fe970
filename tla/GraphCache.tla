----------------------------- MODULE GraphCache -----------------------------
(***************************************************************************)
(* What a graph database promises to the processes that share it, without  *)
(* files, locks or crashes: one cell that is replaced as a whole, never by *)
(* older contents; a certificate that is only ever about the contents of   *)
(* the cell; and sessions whose view is a copy of the cell that nothing    *)
(* but the session itself changes.                                         *)
(*                                                                         *)
(* GraphPublication implements this specification.                         *)
(***************************************************************************)
EXTENDS Naturals

CONSTANTS Readers, Args, Files, Listed, Versions, None

VARIABLES
    src,        \* version of every source file
    current,    \* the contents of the cell, or None
    certified,  \* the fingerprint that the cell is certified to answer, or None
    fetched,    \* copies on their way to a session
    view        \* what each session works on, or None

vars == <<src, current, certified, fetched, view>>

Contents == [args : Args, read : [Files -> Versions]]
Fingerprints == [args : Args, stamp : [Listed -> Versions]]

Covers(d, fp) ==
    /\ d.args = fp.args
    /\ \A f \in Listed : fp.stamp[f] <= d.read[f]

Init ==
    /\ src \in [Files -> Versions]
    /\ current \in Contents \cup {None}
    /\ \/ certified = None
       \/ /\ current # None
          /\ certified \in Fingerprints /\ Covers(current, certified)
    /\ fetched = [r \in Readers |-> None]
    /\ view = [r \in Readers |-> None]

Edit ==
    /\ \E f \in Files : src' = [src EXCEPT ![f] = @ + 1]
    /\ UNCHANGED <<current, certified, fetched, view>>

(* Only an uncertified cell is replaced, by what some compile read while   *)
(* nobody else could replace it.                                           *)
Replace ==
    /\ certified = None
    /\ \E d \in Contents :
         /\ \A f \in Files : d.read[f] <= src[f]
         /\ current # None => \A f \in Files : current.read[f] <= d.read[f]
         /\ current' = d
    /\ UNCHANGED <<src, certified, fetched, view>>

Certify ==
    /\ certified = None /\ current # None
    /\ \E fp \in Fingerprints : Covers(current, fp) /\ certified' = fp
    /\ UNCHANGED <<src, current, fetched, view>>

Withdraw ==
    /\ certified' = None
    /\ UNCHANGED <<src, current, fetched, view>>

Fetch(r) ==
    /\ current # None
    /\ fetched' = [fetched EXCEPT ![r] = current]
    /\ UNCHANGED <<src, current, certified, view>>

Show(r) ==
    /\ fetched[r] # None
    /\ view' = [view EXCEPT ![r] = fetched[r]]
    /\ fetched' = [fetched EXCEPT ![r] = None]
    /\ UNCHANGED <<src, current, certified>>

Drop(r) ==
    /\ view' = [view EXCEPT ![r] = None]
    /\ UNCHANGED <<src, current, certified, fetched>>

Next ==
    \/ Edit \/ Replace \/ Certify \/ Withdraw
    \/ \E r \in Readers : Fetch(r) \/ Show(r) \/ Drop(r)

Spec == Init /\ [][Next]_vars

=============================================================================
