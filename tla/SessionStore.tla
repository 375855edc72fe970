---------------------------- MODULE SessionStore ----------------------------
(***************************************************************************)
(* The session store of the debug automation server: one JSON file per     *)
(* session of a waveform, a file with the active session, a store lock,    *)
(* and the tool calls that several agents run against them.                *)
(*                                                                         *)
(* Translated from agent_debug_automation/sessions.py and the session      *)
(* tools of agent_debug_automation/tools.py.                               *)
(*                                                                         *)
(* Bookmarks, signal groups and created signals are three maps that the    *)
(* tools treat alike: here they are one map from keys to times.  One       *)
(* action is one access to a file or to the lock.  A file is replaced by   *)
(* renaming a private temporary file over it, so a write is one step.      *)
(***************************************************************************)
EXTENDS Integers, FiniteSets

CONSTANTS
    Clients,        \* threads and processes that execute tool calls
    Waves,          \* waveform paths
    Names,          \* session names
    Slot(_),        \* _safe_session_name: what is left of a name in a file name
    DefaultName,    \* Default_Session
    Keys,           \* names of bookmarks, signal groups and created signals
    Times,          \* time stamps and cursor deltas, negative ones too
    CursorRef,      \* the time reference "Cursor"
    None,           \* no file, no argument, nobody
    Requests,       \* tool calls that agents make
    MaxCalls,       \* bound: tool calls
    MaxCrashes      \* bound: clients killed in a call

Places == [wave : Waves, slot : {Slot(n) : n \in Names}]
Refs == [wave : Waves, name : Names]
Entries == [Keys -> Int \cup {None}]
Payloads == [name : Names, cursor : Nat, entries : Entries]

Edits == {"put", "add", "update", "drop", "jump", "move"}
Ops == {"create", "get", "switch", "delete"} \cup Edits

ASSUME StoreAssumption ==
    /\ DefaultName \in Names
    /\ Times \subseteq Int
    /\ None \notin Clients /\ None \notin Waves /\ None \notin Names /\ None \notin Int
    /\ None \notin Payloads /\ None \notin Refs
    /\ CursorRef \notin Int /\ CursorRef \notin Keys /\ Keys \cap Int = {}
    /\ MaxCalls \in Nat /\ MaxCrashes \in Nat

(* What a call carries: the session it selects, and for an edit the keys   *)
(* it names, its time reference, and whether the virtual-signal service    *)
(* makes the edit, which saves the payload once more by itself: "padded"   *)
(* says that blanks surround the name of the new signal.                   *)
ASSUME RequestsAssumption ==
    /\ None \notin Requests
    /\ Requests \subseteq
         [op : Ops, wave : Waves \cup {None}, name : Names \cup {None},
          keys : SUBSET Keys, at : Times \cup Keys \cup {CursorRef, None},
          virtual : {"no", "yes", "padded"}]
    /\ \A q \in Requests :
         /\ q.op = "create" => q.wave # None /\ q.name # None
         /\ q.op \in {"put", "update", "jump", "move"} => q.at # None
         /\ q.op \in {"add", "update", "move"} => q.at \in Times
         /\ q.virtual # "no" => q.op \in {"add", "update", "drop"}
         /\ q.virtual = "padded" => q.op = "add"

VARIABLES
    file,       \* session files: the payload at each place, or None
    active,     \* active_session.json: a waveform and a session name, or None
    holder,     \* who holds the store lock
    pc,         \* next step of each client
    req,        \* the call it executes
    ref,        \* the active session as _resolve_session read it
    target,     \* the session it has resolved to
    copy,       \* the payload it is about to save
    todo,       \* files its search has still to read
    found,      \* sessions its search has found
    calls, crashes

store == <<file, active>>
locals == <<req, ref, target, copy, todo, found>>
vars == <<store, holder, pc, locals, calls, crashes>>

-----------------------------------------------------------------------------

Place(r) == [wave |-> r.wave, slot |-> Slot(r.name)]

Fresh(n) == [name |-> n, cursor |-> 0, entries |-> [k \in Keys |-> None]]

AtLeast0(t) == IF t < 0 THEN 0 ELSE t

(* _resolve_time_reference_in_session                                      *)
Known(at, p) == at \in Keys => p.entries[at] # None
TimeOf(at, p) ==
    IF at = CursorRef THEN p.cursor ELSE IF at \in Keys THEN p.entries[at] ELSE at

(* The mutate functions of the tools: when they raise, and what they do.   *)
Accepts(q, p) ==
    /\ q.op \in {"put", "jump"} => Known(q.at, p)
    /\ q.op = "add" => \A k \in q.keys : p.entries[k] = None
    /\ q.op \in {"update", "drop"} => \A k \in q.keys : p.entries[k] # None

Store(p, keys, t) == [p EXCEPT !.entries = [k \in Keys |-> IF k \in keys THEN t ELSE p.entries[k]]]

Effect(q, p) ==
    CASE q.op = "put" -> Store(p, q.keys, TimeOf(q.at, p))
      [] q.op \in {"add", "update"} -> Store(p, q.keys, q.at)
      [] q.op = "drop" -> Store(p, q.keys, None)
      [] q.op = "jump" -> [p EXCEPT !.cursor = AtLeast0(TimeOf(q.at, p))]
      [] q.op = "move" -> [p EXCEPT !.cursor = AtLeast0(p.cursor + q.at)]

Goto(c, label) == pc' = [pc EXCEPT ![c] = label]

(* The call returns or raises; its local variables are gone.               *)
Returns(c) ==
    /\ Goto(c, "idle")
    /\ req' = [req EXCEPT ![c] = None]
    /\ ref' = [ref EXCEPT ![c] = None]
    /\ target' = [target EXCEPT ![c] = None]
    /\ copy' = [copy EXCEPT ![c] = None]
    /\ todo' = [todo EXCEPT ![c] = {}]
    /\ found' = [found EXCEPT ![c] = {}]

(* Leaving the `with` block, also by an exception, releases the lock.      *)
Unlocks == holder' = None

Refuses(c) == Returns(c) /\ UNCHANGED <<store, holder, calls, crashes>>

(* What a tool does once its session is resolved to r.                     *)
AfterResolve(c) ==
    CASE req[c].op \in Edits -> "lock"
      [] req[c].op = "switch" -> "setActive"
      [] req[c].op = "delete" -> "exists"
      [] OTHER -> "return"

Resolves(c, r) ==
    /\ Goto(c, AfterResolve(c))
    /\ target' = [target EXCEPT ![c] = r]
    /\ UNCHANGED <<store, holder, req, ref, copy, todo, found, calls, crashes>>

Loaded(r) == file[Place(r)]
Named(r) == [wave |-> r.wave, name |-> Loaded(r).name]

-----------------------------------------------------------------------------

(* A tool is called.  create_session goes to the store at once, and        *)
(* delete_session refuses the default session before anything else.        *)
Call(c, q) ==
    /\ calls < MaxCalls
    /\ pc[c] = "idle"
    /\ ~(q.op = "delete" /\ q.name = DefaultName)
    /\ Goto(c, IF q.op = "create" THEN "lock" ELSE "resolve")
    /\ req' = [req EXCEPT ![c] = q]
    /\ target' = [target EXCEPT ![c] =
                    IF q.op = "create" THEN [wave |-> q.wave, name |-> q.name] ELSE None]
    /\ calls' = calls + 1
    /\ UNCHANGED <<store, holder, ref, copy, todo, found, crashes>>

Return(c) == pc[c] = "return" /\ Refuses(c)

-----------------------------------------------------------------------------
(* _resolve_session                                                        *)

(* Mutant: a name that is the active one selects the active waveform.      *)
PreferActive(c) ==
    /\ pc[c] = "resolve"
    /\ req[c].name # None
    /\ LET w == IF active # None /\ active.name = req[c].name THEN active.wave ELSE req[c].wave
       IN  /\ w # None
           /\ Goto(c, "load")
           /\ target' = [target EXCEPT ![c] = [wave |-> w, name |-> req[c].name]]
    /\ ref' = [ref EXCEPT ![c] = active]
    /\ UNCHANGED <<store, holder, req, copy, todo, found, calls, crashes>>

(* With a name: the waveform given, or else that of the active session     *)
(* when it has this name.                                                  *)
ResolveNamed(c) ==
    /\ pc[c] = "resolve"
    /\ req[c].name # None
    /\ LET w == IF req[c].wave # None THEN req[c].wave
                ELSE IF active # None /\ active.name = req[c].name THEN active.wave ELSE None
       IN  /\ w # None
           /\ Goto(c, "load")
           /\ target' = [target EXCEPT ![c] = [wave |-> w, name |-> req[c].name]]
    /\ ref' = [ref EXCEPT ![c] = active]
    /\ UNCHANGED <<store, holder, req, copy, todo, found, calls, crashes>>

(* A name alone: every session file is searched for it ...                 *)
ResolveBySearch(c) ==
    /\ pc[c] = "resolve"
    /\ req[c].name # None /\ req[c].wave = None
    /\ ~(active # None /\ active.name = req[c].name)
    /\ Goto(c, "search")
    /\ ref' = [ref EXCEPT ![c] = active]
    /\ todo' = [todo EXCEPT ![c] = Places]
    /\ UNCHANGED <<store, holder, req, target, copy, found, calls, crashes>>

(* ... one file after another, without the lock ...                        *)
SearchFile(c, place) ==
    /\ pc[c] = "search" /\ place \in todo[c]
    /\ todo' = [todo EXCEPT ![c] = @ \ {place}]
    /\ found' = [found EXCEPT ![c] =
                   IF file[place] # None /\ file[place].name = req[c].name
                   THEN @ \cup {[wave |-> place.wave, name |-> req[c].name]} ELSE @]
    /\ UNCHANGED <<store, holder, pc, req, ref, target, copy, calls, crashes>>

(* ... and it must be the name of one session only.                        *)
Searched(c) ==
    /\ pc[c] = "search" /\ todo[c] = {}
    /\ \/ \E r \in found[c] :
            /\ found[c] = {r}
            /\ Goto(c, "load")
            /\ target' = [target EXCEPT ![c] = r]
            /\ UNCHANGED <<store, holder, req, ref, copy, todo, found, calls, crashes>>
       \/ Cardinality(found[c]) # 1 /\ Refuses(c)

(* Neither name nor waveform: the active session, which must be there.     *)
ResolveActive(c) ==
    /\ pc[c] = "resolve"
    /\ req[c].name = None /\ req[c].wave = None
    /\ \/ /\ active # None
          /\ Goto(c, "load")
          /\ target' = [target EXCEPT ![c] = active]
          /\ ref' = [ref EXCEPT ![c] = active]
          /\ UNCHANGED <<store, holder, req, copy, todo, found, calls, crashes>>
       \/ active = None /\ Refuses(c)

(* A waveform alone: the active session if it is of this waveform, else    *)
(* the default session.                                                    *)
ResolveWave(c) ==
    /\ pc[c] = "resolve"
    /\ req[c].name = None /\ req[c].wave # None
    /\ ref' = [ref EXCEPT ![c] = active]
    /\ IF active # None /\ active.wave = req[c].wave
       THEN Goto(c, "try") /\ target' = [target EXCEPT ![c] = active]
       ELSE Goto(c, "default")
            /\ target' = [target EXCEPT ![c] = [wave |-> req[c].wave, name |-> DefaultName]]
    /\ UNCHANGED <<store, holder, req, copy, todo, found, calls, crashes>>

Load(c) ==
    /\ pc[c] = "load"
    /\ \/ Loaded(target[c]) # None /\ Resolves(c, Named(target[c]))
       \/ Loaded(target[c]) = None /\ Refuses(c)

(* An active session whose file is gone gives way to the default one.  One *)
(* whose file exists is loaded, and if it is gone by then the call fails.  *)
TryActive(c) ==
    /\ pc[c] = "try"
    /\ IF Loaded(target[c]) # None
       THEN Goto(c, "load") /\ UNCHANGED target
       ELSE /\ Goto(c, "default")
            /\ target' = [target EXCEPT ![c].name = DefaultName]
    /\ UNCHANGED <<store, holder, req, ref, copy, todo, found, calls, crashes>>

(* switch_session and delete_session do not create a default session.      *)
NoDefault(c) ==
    pc[c] = "default" /\ req[c].op \in {"switch", "delete"} /\ Refuses(c)

-----------------------------------------------------------------------------
(* _get_or_create_session, for a waveform without a session or for the one *)
(* that has lost its active session                                        *)

(* The first caller without an active session makes it active.             *)
AfterDefault(c) ==
    IF req[c].op = "delete" \/ ref[c] = None THEN "setActive" ELSE AfterResolve(c)

FindDefault(c) ==
    /\ \/ pc[c] = "default" /\ req[c].op \notin {"switch", "delete"}
       \/ pc[c] = "repair"
    /\ Goto(c, IF Loaded(target[c]) = None THEN "makeDefault" ELSE "loadDefault")
    /\ UNCHANGED <<store, holder, locals, calls, crashes>>

LoadDefault(c) ==
    /\ pc[c] = "loadDefault"
    /\ \/ /\ Loaded(target[c]) # None
          /\ Goto(c, AfterDefault(c))
          /\ target' = [target EXCEPT ![c] = Named(@)]
          /\ UNCHANGED <<store, holder, req, ref, copy, todo, found, calls, crashes>>
       \/ Loaded(target[c]) = None /\ Refuses(c)

(* The save takes the lock, and does not look again.                       *)
MakeDefault(c) ==
    /\ holder = None /\ pc[c] = "makeDefault"
    /\ Goto(c, AfterDefault(c))
    /\ file' = [file EXCEPT ![Place(target[c])] = Fresh(DefaultName)]
    /\ UNCHANGED <<active, holder, locals, calls, crashes>>

SetActive(c) ==
    /\ holder = None /\ pc[c] = "setActive"
    /\ Goto(c, IF req[c].op \in {"switch", "delete"} THEN "return" ELSE AfterResolve(c))
    /\ active' = target[c]
    /\ UNCHANGED <<file, holder, locals, calls, crashes>>

-----------------------------------------------------------------------------
(* _create_session_payload and _mutate_session_payload                     *)

(* Mutant: the lock is taken for the save only, after the load.            *)
LoadUnlocked(c) ==
    /\ pc[c] = "lock"
    /\ Goto(c, IF req[c].op = "create" THEN "check" ELSE "reload")
    /\ UNCHANGED <<store, holder, locals, calls, crashes>>

Lock(c) ==
    /\ holder = None /\ pc[c] = "lock"
    /\ Goto(c, IF req[c].op = "create" THEN "check" ELSE "reload")
    /\ holder' = c
    /\ UNCHANGED <<store, locals, calls, crashes>>

(* Mutant: an existing session is created again.                           *)
CreateAnyway(c) ==
    /\ pc[c] = "check"
    /\ Goto(c, "save")
    /\ copy' = [copy EXCEPT ![c] = Fresh(target[c].name)]
    /\ UNCHANGED <<store, holder, req, ref, target, todo, found, calls, crashes>>

CheckNew(c) ==
    /\ pc[c] = "check"
    /\ \/ /\ Loaded(target[c]) = None
          /\ Goto(c, "save")
          /\ copy' = [copy EXCEPT ![c] = Fresh(target[c].name)]
          /\ UNCHANGED <<store, holder, req, ref, target, todo, found, calls, crashes>>
       \/ /\ Loaded(target[c]) # None
          /\ Returns(c) /\ Unlocks
          /\ UNCHANGED <<store, calls, crashes>>

(* Mutant: an exception in the mutate function leaves the lock taken.      *)
ReloadKeepsLock(c) ==
    /\ pc[c] = "reload"
    /\ LET p == Loaded(target[c]) IN
       \/ /\ p # None /\ Accepts(req[c], p)
          /\ Goto(c, "save")
          /\ copy' = [copy EXCEPT ![c] = Effect(req[c], p)]
          /\ UNCHANGED <<store, holder, req, ref, target, todo, found, calls, crashes>>
       \/ ~(p # None /\ Accepts(req[c], p)) /\ Refuses(c)

(* The payload is loaded again under the lock, and edited in memory.       *)
Reload(c) ==
    /\ pc[c] = "reload"
    /\ LET p == Loaded(target[c]) IN
       \/ /\ p # None /\ Accepts(req[c], p)
          /\ Goto(c, "save")
          /\ copy' = [copy EXCEPT ![c] = Effect(req[c], p)]
          /\ UNCHANGED <<store, holder, req, ref, target, todo, found, calls, crashes>>
       \/ /\ ~(p # None /\ Accepts(req[c], p))
          /\ Returns(c) /\ Unlocks
          /\ UNCHANGED <<store, calls, crashes>>

(* Mutant: the nested save ends by releasing the lock of the whole call.   *)
NestedSaveUnlocks(c) ==
    /\ \/ pc[c] = "save" /\ Goto(c, IF req[c].virtual = "no" THEN "unlock" ELSE "saveAgain")
       \/ pc[c] = "saveAgain" /\ req[c].virtual # "padded" /\ Goto(c, "unlock")
    /\ file' = [file EXCEPT ![Place(target[c])] = copy[c]]
    /\ holder' = IF req[c].virtual = "no" THEN holder ELSE None
    /\ UNCHANGED <<active, locals, calls, crashes>>

Save(c) ==
    /\ \/ pc[c] = "save" /\ Goto(c, IF req[c].virtual = "no" THEN "unlock" ELSE "saveAgain")
       \/ pc[c] = "saveAgain" /\ req[c].virtual # "padded" /\ Goto(c, "unlock")
    /\ file' = [file EXCEPT ![Place(target[c])] = copy[c]]
    /\ UNCHANGED <<active, holder, locals, calls, crashes>>

(* The service has stored the new signal under its stripped name, and the  *)
(* tool does not find it under the name it was given.                      *)
LookUpPadded(c) ==
    /\ pc[c] = "saveAgain" /\ req[c].virtual = "padded"
    /\ Returns(c) /\ Unlocks
    /\ UNCHANGED <<store, calls, crashes>>

Unlock(c) ==
    /\ pc[c] = "unlock"
    /\ Returns(c) /\ Unlocks
    /\ UNCHANGED <<store, calls, crashes>>

-----------------------------------------------------------------------------
(* delete_session, which does not take the lock                            *)

(* The session that was resolved must not be the default one.              *)
CheckExists(c) ==
    /\ pc[c] = "exists"
    /\ \/ target[c].name = DefaultName /\ Refuses(c)
       \/ /\ target[c].name # DefaultName
          /\ Goto(c, IF Loaded(target[c]) # None THEN "unlink" ELSE "checkActive")
          /\ UNCHANGED <<store, holder, locals, calls, crashes>>

(* A file that another call has removed in the meantime is an error.       *)
Unlink(c) ==
    /\ pc[c] = "unlink"
    /\ \/ /\ Loaded(target[c]) # None
          /\ file' = [file EXCEPT ![Place(target[c])] = None]
          /\ Goto(c, "checkActive")
          /\ UNCHANGED <<active, holder, locals, calls, crashes>>
       \/ Loaded(target[c]) = None /\ Refuses(c)

(* If it was the active session, the default session becomes active.       *)
CheckActive(c) ==
    /\ pc[c] = "checkActive"
    /\ IF active = target[c]
       THEN /\ Goto(c, "repair")
            /\ target' = [target EXCEPT ![c].name = DefaultName]
       ELSE Goto(c, "return") /\ UNCHANGED target
    /\ UNCHANGED <<store, holder, req, ref, copy, todo, found, calls, crashes>>

-----------------------------------------------------------------------------

(* The client is killed, or an access to the store fails and the tool      *)
(* reports the error.  The lock is released, by the kernel or on leaving   *)
(* the `with` block, and a temporary file that was not renamed is not read.*)
Crash(c) ==
    /\ crashes < MaxCrashes
    /\ pc[c] # "idle"
    /\ Returns(c)
    /\ holder' = IF holder = c THEN None ELSE holder
    /\ crashes' = crashes + 1
    /\ UNCHANGED <<store, calls>>

Resolve(c) ==
    \/ ResolveNamed(c) \/ ResolveBySearch(c) \/ Searched(c) \/ ResolveActive(c) \/ ResolveWave(c)
    \/ Load(c) \/ TryActive(c) \/ NoDefault(c)
    \/ \E place \in Places : SearchFile(c, place)

UseDefault(c) == FindDefault(c) \/ LoadDefault(c) \/ MakeDefault(c) \/ SetActive(c)

Locked(c) == Lock(c) \/ CheckNew(c) \/ Reload(c) \/ Save(c) \/ LookUpPadded(c) \/ Unlock(c)

Delete(c) == CheckExists(c) \/ Unlink(c) \/ CheckActive(c)

Step(c) == Resolve(c) \/ UseDefault(c) \/ Locked(c) \/ Delete(c) \/ Return(c)

Next == \E c \in Clients : (\E q \in Requests : Call(c, q)) \/ Step(c) \/ Crash(c)

(* A new store, or one that earlier calls have left with some sessions.    *)
Init ==
    /\ \E names \in SUBSET Names :
         /\ \A m, n \in names : Slot(m) = Slot(n) => m = n
         /\ file = [place \in Places |->
                      IF \E n \in names : Slot(n) = place.slot
                      THEN Fresh(CHOOSE n \in names : Slot(n) = place.slot) ELSE None]
         /\ active \in [wave : Waves, name : names] \cup {None}
    /\ holder = None
    /\ pc = [c \in Clients |-> "idle"]
    /\ req = [c \in Clients |-> None] /\ ref = [c \in Clients |-> None]
    /\ target = [c \in Clients |-> None] /\ copy = [c \in Clients |-> None]
    /\ todo = [c \in Clients |-> {}] /\ found = [c \in Clients |-> {}]
    /\ calls = 0 /\ crashes = 0

Spec == Init /\ [][Next]_vars

(* A call that has started is executed; agents need not make calls.        *)
FairSpec == Spec /\ \A c \in Clients : WF_vars(Step(c))

-----------------------------------------------------------------------------

Critical == {"check", "reload", "save", "saveAgain", "unlock"}

TypeOK ==
    /\ file \in [Places -> Payloads \cup {None}]
    /\ active \in Refs \cup {None}
    /\ holder \in Clients \cup {None}
    /\ pc \in [Clients -> Critical \cup
                 {"idle", "resolve", "search", "load", "try", "default", "loadDefault",
                  "makeDefault", "setActive", "return", "lock", "exists", "unlink",
                  "checkActive", "repair"}]
    /\ req \in [Clients -> Requests \cup {None}]
    /\ ref \in [Clients -> Refs \cup {None}]
    /\ target \in [Clients -> Refs \cup {None}]
    /\ copy \in [Clients -> Payloads \cup {None}]
    /\ todo \in [Clients -> SUBSET Places]
    /\ found \in [Clients -> SUBSET Refs]
    /\ calls \in 0 .. MaxCalls
    /\ crashes \in 0 .. MaxCrashes

(* What a client is about to save was made from what the file holds now:   *)
(* a session that still exists has not changed since the client loaded it  *)
(* in _mutate_session_payload, one that it creates does not exist yet, and *)
(* the second save of a virtual-signal tool repeats the first.             *)
CopyIsCurrent ==
    \A c \in Clients :
        LET p == Loaded(target[c]) IN
        /\ pc[c] = "save" /\ req[c].op = "create" => p = None
        /\ pc[c] = "save" /\ req[c].op # "create" =>
             p = None \/ (Accepts(req[c], p) /\ copy[c] = Effect(req[c], p))
        /\ pc[c] = "saveAgain" => p \in {copy[c], None}

Edited(place, q) ==
    /\ q.op \in Edits /\ Accepts(q, file[place])
    /\ file'[place] = Effect(q, file[place])

(* An existing session changes only by one edit of one tool call, applied  *)
(* to the session as it is: no call undoes part of another one's work.     *)
(* The exception is a default session, which _get_or_create_session may    *)
(* replace by an empty one.                                                *)
EditsAreSerial ==
    [][\A place \in Places :
         file[place] # None /\ file'[place] # None /\ file'[place] # file[place] =>
           \/ \E c \in Clients : pc[c] = "save" /\ Edited(place, req[c])
           \/ /\ place.slot = Slot(DefaultName) /\ file'[place] = Fresh(DefaultName)
              /\ \E c \in Clients : pc[c] = "makeDefault"
      ]_vars

(* create_session never replaces a session, whoever else creates, edits or *)
(* deletes one at the same time.                                           *)
CreateIsNew ==
    [][\A c \in Clients :
         pc[c] = "save" /\ req[c].op = "create" /\ pc'[c] = "unlock" =>
           Loaded(target[c]) = None
      ]_vars

(* A call with an explicit waveform and session name depends on no other   *)
(* agent's choice of the active session: it touches no other session, and  *)
(* moves the active session only to switch to its own, or, when it deletes *)
(* its own, back to the default session of its waveform.                   *)
ExplicitCallsIndependent ==
    [][\A c \in Clients :
         pc'[c] # pc[c] /\ pc[c] # "idle" /\ req[c].wave # None /\ req[c].name # None =>
           LET own == [wave |-> req[c].wave, slot |-> Slot(req[c].name)]
               default == [wave |-> req[c].wave, slot |-> Slot(DefaultName)]
           IN  /\ \A place \in Places \ {own} :
                    file'[place] # file[place] => req[c].op = "delete" /\ place = default
               /\ active' # active =>
                    \/ req[c].op = "switch" /\ Place(active') = own
                    \/ req[c].op = "delete" /\ Place(active') = default
      ]_vars

(* Every call returns, although calls wait for each other at the lock.     *)
CallsReturn == \A c \in Clients : pc[c] # "idle" ~> pc[c] = "idle"

-----------------------------------------------------------------------------
(* What the documentation says of the store                                *)

(* Concurrent updates of a session are preserved: what an existing session *)
(* becomes is an edit of what it was, also for a default session.          *)
NoLostUpdates ==
    [][\A place \in Places :
         file[place] # None /\ file'[place] # None /\ file'[place] # file[place] =>
           \E c \in Clients : pc[c] = "save" /\ Edited(place, req[c])
      ]_vars
=============================================================================
