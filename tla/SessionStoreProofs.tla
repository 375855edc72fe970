------------------------- MODULE SessionStoreProofs -------------------------
(***************************************************************************)
(* What holds of the session store for any number of agents, waveforms,    *)
(* sessions and calls, with proofs.                                        *)
(*                                                                         *)
(* Everything rests on one inductive invariant.  Holds says that the       *)
(* client between Lock and Unlock is the holder of the lock, so that only  *)
(* deletions can come between its reload and its save; Current, the part   *)
(* of CopyIsCurrent about one client, follows from it.  Flow and Own say   *)
(* what a call has established at each of its steps.                       *)
(***************************************************************************)
EXTENDS SessionStore, TLAPS

USE DEF vars, store, locals, Goto

(* What a call knows about itself at each step.                            *)
Flow(c) ==
    /\ pc[c] # "idle" => req[c] \in Requests
    /\ pc[c] \notin {"idle", "resolve", "search"} => target[c] \in Refs
    /\ pc[c] = "lock" => req[c].op \in Edits \cup {"create"}
    /\ pc[c] = "check" => req[c].op = "create"
    /\ pc[c] = "reload" => req[c].op \in Edits
    /\ pc[c] = "save" => req[c].op \in Edits \cup {"create"}
    /\ pc[c] = "saveAgain" => req[c].op \in Edits
    /\ pc[c] \in {"save", "saveAgain"} =>
         copy[c] \in Payloads /\ Slot(copy[c].name) = Slot(target[c].name)
    /\ pc[c] \in {"default", "repair", "loadDefault", "makeDefault"} => target[c].name = DefaultName

Holds(c) == pc[c] \in Critical <=> holder = c

Current(c) ==
    LET p == Loaded(target[c]) IN
    /\ pc[c] = "save" /\ req[c].op = "create" => p = None
    /\ pc[c] = "save" /\ req[c].op # "create" =>
         p = None \/ (Accepts(req[c], p) /\ copy[c] = Effect(req[c], p))
    /\ pc[c] = "saveAgain" => p \in {copy[c], None}

OwnPlace(c) == [wave |-> req[c].wave, slot |-> Slot(req[c].name)]
DefaultPlace(c) == [wave |-> req[c].wave, slot |-> Slot(DefaultName)]

(* Where a call with an explicit waveform and name is, and on which file.  *)
Own(c) ==
    pc[c] # "idle" /\ req[c].wave # None /\ req[c].name # None =>
      /\ pc[c] \notin {"search", "try", "default"}
      /\ pc[c] \in {"load", "exists", "unlink", "checkActive", "lock"} \cup Critical =>
           Place(target[c]) = OwnPlace(c)
      /\ pc[c] \in {"exists", "unlink", "checkActive"} => req[c].op = "delete"
      /\ pc[c] \in {"repair", "loadDefault", "makeDefault"} =>
           req[c].op = "delete" /\ Place(target[c]) = DefaultPlace(c)
      /\ pc[c] = "setActive" =>
           \/ req[c].op = "switch" /\ Place(target[c]) = OwnPlace(c)
           \/ req[c].op = "delete" /\ Place(target[c]) = DefaultPlace(c)

(* The name in a file is one that belongs there.                           *)
NamesFit == \A place \in Places : file[place] # None => Slot(file[place].name) = place.slot

Mine(c) == Flow(c) /\ Holds(c) /\ Current(c) /\ Own(c)

IInv == TypeOK /\ NamesFit /\ \A c \in Clients : Mine(c)

(* One step of client c, of any kind.                                      *)
Act(c) == (\E q \in Requests : Call(c, q)) \/ Step(c) \/ Crash(c)

-----------------------------------------------------------------------------
(* The operators                                                           *)

(* A reference has a place, and only its name's slot matters there.        *)
LEMMA PlaceType ==
    ASSUME NEW r \in Refs
    PROVE  /\ Place(r) \in Places
           /\ Place(r).wave = r.wave /\ Place(r).slot = Slot(r.name)
           /\ r.wave \in Waves /\ r.name \in Names /\ r # None
BY StoreAssumption DEF Place, Places, Refs

LEMMA FreshType ==
    ASSUME NEW n \in Names
    PROVE  Fresh(n) \in Payloads /\ Fresh(n).name = n /\ Fresh(n) # None
BY StoreAssumption DEF Fresh, Payloads, Entries

LEMMA RequestType ==
    ASSUME NEW q \in Requests
    PROVE  /\ q # None /\ q.op \in Ops /\ q.wave \in Waves \cup {None} /\ q.name \in Names \cup {None}
           /\ q.keys \subseteq Keys /\ q.at \in Times \cup Keys \cup {CursorRef, None}
           /\ q.virtual \in {"no", "yes", "padded"}
           /\ q.op = "create" => q.wave # None /\ q.name # None
           /\ q.op \in {"put", "jump"} => q.at # None
           /\ q.op \in {"add", "update", "move"} => q.at \in Int
           /\ q.virtual # "no" => q.op \in Edits
BY RequestsAssumption, StoreAssumption DEF Edits

(* An accepted edit turns a payload into a payload of the same name.       *)
LEMMA EffectType ==
    ASSUME NEW q \in Requests, NEW p \in Payloads, q.op \in Edits, Accepts(q, p)
    PROVE  Effect(q, p) \in Payloads /\ Effect(q, p).name = p.name /\ Effect(q, p) # None
<1>1. /\ p.cursor \in Nat /\ p.entries \in [Keys -> Int \cup {None}] /\ p.name \in Names
      /\ p = [name |-> p.name, cursor |-> p.cursor, entries |-> p.entries]
  BY DEF Payloads, Entries
<1>2. ASSUME NEW t \in Int \cup {None}
      PROVE  Store(p, q.keys, t) \in Payloads /\ Store(p, q.keys, t).name = p.name
  BY <1>1 DEF Store, Payloads, Entries
<1>3. ASSUME NEW t \in Int
      PROVE  [p EXCEPT !.cursor = AtLeast0(t)] \in Payloads
             /\ [p EXCEPT !.cursor = AtLeast0(t)].name = p.name
  <2>1. AtLeast0(t) \in Nat
    BY DEF AtLeast0
  <2> QED
    BY <1>1, <2>1 DEF Payloads
<1>4. q.op \in {"put", "jump"} => TimeOf(q.at, p) \in Int
  BY <1>1, RequestType, StoreAssumption DEF TimeOf, Accepts, Known
<1>5. Effect(q, p) \in Payloads /\ Effect(q, p).name = p.name
  <2>1. CASE q.op = "put"
    BY <2>1, <1>2, <1>4 DEF Effect
  <2>2. CASE q.op \in {"add", "update"}
    BY <2>2, <1>2, RequestType DEF Effect
  <2>3. CASE q.op = "drop"
    BY <2>3, <1>2 DEF Effect
  <2>4. CASE q.op = "jump"
    BY <2>4, <1>3, <1>4 DEF Effect
  <2>5. CASE q.op = "move"
    <3>1. q.at \in Int /\ p.cursor + q.at \in Int
      BY <2>5, <1>1, RequestType
    <3> QED
      BY <2>5, <3>1, <1>3 DEF Effect
  <2> QED
    BY <2>1, <2>2, <2>3, <2>4, <2>5 DEF Edits
<1> QED
  BY <1>5, StoreAssumption

-----------------------------------------------------------------------------
(* What a step of one client leaves to the others                          *)

(* A client writes its own variables only.                                 *)
LEMMA OthersKeep ==
    ASSUME TypeOK, NEW c \in Clients, NEW d \in Clients \ {c}, Act(c)
    PROVE  /\ pc'[d] = pc[d] /\ req'[d] = req[d]
           /\ target'[d] = target[d] /\ copy'[d] = copy[d]
<1> USE DEF Returns, Refuses
<1>1. CASE \E q \in Requests : Call(c, q)
  BY <1>1 DEF Call, TypeOK
<1>2. CASE Resolve(c)
  BY <1>2 DEF Resolve, ResolveNamed, ResolveBySearch, SearchFile, Searched, ResolveActive,
              ResolveWave, Load, TryActive, NoDefault, Resolves, TypeOK
<1>3. CASE UseDefault(c)
  BY <1>3 DEF UseDefault, FindDefault, LoadDefault, MakeDefault, SetActive, TypeOK
<1>4. CASE Locked(c)
  BY <1>4 DEF Locked, Lock, CheckNew, Reload, Save, LookUpPadded, Unlock, TypeOK
<1>5. CASE Delete(c)
  BY <1>5 DEF Delete, CheckExists, Unlink, CheckActive, TypeOK
<1>6. CASE Return(c) \/ Crash(c)
  BY <1>6 DEF Return, Crash, TypeOK
<1> QED
  BY <1>1, <1>2, <1>3, <1>4, <1>5, <1>6 DEF Act, Step

(* The lock passes between nobody and the client that makes the step.      *)
LEMMA LockPasses ==
    ASSUME TypeOK, NEW c \in Clients, Holds(c), Act(c)
    PROVE  /\ holder' # holder => {holder, holder'} = {c, None}
           /\ holder' # holder => holder = c \/ pc[c] = "lock"
<1> USE DEF Returns, Refuses, Unlocks, Holds, Critical
<1>1. CASE \E q \in Requests : Call(c, q)
  BY <1>1 DEF Call
<1>2. CASE Resolve(c)
  BY <1>2 DEF Resolve, ResolveNamed, ResolveBySearch, SearchFile, Searched, ResolveActive,
              ResolveWave, Load, TryActive, NoDefault, Resolves
<1>3. CASE UseDefault(c)
  BY <1>3 DEF UseDefault, FindDefault, LoadDefault, MakeDefault, SetActive
<1>4. CASE Locked(c)
  BY <1>4 DEF Locked, Lock, CheckNew, Reload, Save, LookUpPadded, Unlock
<1>5. CASE Delete(c)
  BY <1>5 DEF Delete, CheckExists, Unlink, CheckActive
<1>6. CASE Return(c) \/ Crash(c)
  BY <1>6 DEF Return, Crash
<1> QED
  BY <1>1, <1>2, <1>3, <1>4, <1>5, <1>6 DEF Act, Step

(* Three actions write a session file, and each writes one.                *)
LEMMA FileSteps ==
    ASSUME NEW c \in Clients, Act(c), file' # file
    PROVE  MakeDefault(c) \/ Save(c) \/ Unlink(c)
<1> USE DEF Returns, Refuses, Unlocks
<1>1. CASE \E q \in Requests : Call(c, q)
  BY <1>1 DEF Call
<1>2. CASE Resolve(c)
  BY <1>2 DEF Resolve, ResolveNamed, ResolveBySearch, SearchFile, Searched, ResolveActive,
              ResolveWave, Load, TryActive, NoDefault, Resolves
<1>3. CASE UseDefault(c)
  BY <1>3 DEF UseDefault, FindDefault, LoadDefault, SetActive
<1>4. CASE Locked(c)
  BY <1>4 DEF Locked, Lock, CheckNew, Reload, LookUpPadded, Unlock
<1>5. CASE Delete(c)
  BY <1>5 DEF Delete, CheckExists, CheckActive
<1>6. CASE Return(c) \/ Crash(c)
  BY <1>6 DEF Return, Crash
<1> QED
  BY <1>1, <1>2, <1>3, <1>4, <1>5, <1>6 DEF Act, Step

(* One action writes the active session.                                   *)
LEMMA ActiveSteps ==
    ASSUME NEW c \in Clients, Act(c), active' # active
    PROVE  SetActive(c)
<1> USE DEF Returns, Refuses, Unlocks
<1>1. CASE \E q \in Requests : Call(c, q)
  BY <1>1 DEF Call
<1>2. CASE Resolve(c)
  BY <1>2 DEF Resolve, ResolveNamed, ResolveBySearch, SearchFile, Searched, ResolveActive,
              ResolveWave, Load, TryActive, NoDefault, Resolves
<1>3. CASE UseDefault(c)
  BY <1>3 DEF UseDefault, FindDefault, LoadDefault, MakeDefault
<1>4. CASE Locked(c)
  BY <1>4 DEF Locked, Lock, CheckNew, Reload, Save, LookUpPadded, Unlock
<1>5. CASE Delete(c)
  BY <1>5 DEF Delete, CheckExists, Unlink, CheckActive
<1>6. CASE Return(c) \/ Crash(c)
  BY <1>6 DEF Return, Crash
<1> QED
  BY <1>1, <1>2, <1>3, <1>4, <1>5, <1>6 DEF Act, Step

(* What Mine says of a client survives the steps of all others: while it   *)
(* is between reload and save they can only delete its file.               *)
LEMMA OthersRespect ==
    ASSUME IInv, NEW c \in Clients, NEW d \in Clients \ {c}, Act(c)
    PROVE  Mine(d)'
<1>1. /\ pc'[d] = pc[d] /\ req'[d] = req[d] /\ target'[d] = target[d] /\ copy'[d] = copy[d]
  BY OthersKeep DEF IInv
<1>2. Flow(d)' /\ Own(d)'
  BY <1>1 DEF IInv, Mine, Flow, Own, Place, OwnPlace, DefaultPlace
<1>3. Holds(d)'
  BY <1>1, LockPasses, StoreAssumption DEF IInv, Mine, Holds
<1>4. Current(d)'
  <2>1. SUFFICES ASSUME pc[d] \in {"save", "saveAgain"}, file' # file
                 PROVE  Current(d)'
    BY <1>1 DEF IInv, Mine, Current, Loaded, Place
  <2>2. holder = d /\ holder # c /\ holder # None
    BY <2>1, StoreAssumption DEF IInv, Mine, Holds, Critical
  <2>3. Unlink(c)
    BY <2>1, <2>2, FileSteps DEF IInv, Mine, Holds, Critical, MakeDefault, Save
  <2>4. Loaded(target[d])' \in {Loaded(target[d]), None}
    <3>1. Place(target[d]) \in Places /\ Place(target[d])' = Place(target[d])
      BY <1>1, <2>1, PlaceType DEF IInv, Mine, Flow, Place
    <3> QED
      BY <2>1, <2>3, <3>1 DEF Unlink, Refuses, Loaded, IInv, TypeOK
  <2> QED
    BY <1>1, <2>4 DEF IInv, Mine, Current
<1> QED
  BY <1>2, <1>3, <1>4 DEF Mine

-----------------------------------------------------------------------------
(* The invariant is inductive                                              *)

LEMMA TypeStep ==
    ASSUME IInv, NEW c \in Clients, Act(c)
    PROVE  TypeOK'
<1> USE DEF TypeOK, Returns, Refuses, Unlocks, Critical
<1>0. TypeOK /\ Mine(c) /\ Flow(c)
  BY DEF IInv, Mine
<1>a. \A q \in Requests : q.op \in Ops /\ q.name # None => q.name \in Names
  BY RequestType
<1>1. ASSUME NEW q \in Requests, Call(c, q)
      PROVE  TypeOK'
  <2>1. q.op = "create" => [wave |-> q.wave, name |-> q.name] \in Refs
    BY RequestType DEF Refs
  <2>2. calls + 1 \in 0 .. MaxCalls
    BY <1>0, <1>1, StoreAssumption DEF Call
  <2> QED
    BY <1>0, <1>1, <2>1, <2>2 DEF Call
<1>2. CASE Resolve(c)
  <2>1. CASE ResolveNamed(c)
    BY <1>0, <2>1, RequestType DEF ResolveNamed, Flow, Refs
  <2>2. CASE ResolveBySearch(c)
    BY <1>0, <2>2 DEF ResolveBySearch
  <2>3. CASE \E place \in Places : SearchFile(c, place)
    <3>1. PICK place \in Places : SearchFile(c, place)
      BY <2>3
    <3>2. req[c].name \in Names => [wave |-> place.wave, name |-> req[c].name] \in Refs
      BY DEF Places, Refs
    <3>3. file[place] # None => file[place].name \in Names
      BY <1>0 DEF Payloads
    <3> QED
      BY <1>0, <3>1, <3>2, <3>3 DEF SearchFile
  <2>4. CASE Searched(c)
    BY <1>0, <2>4 DEF Searched
  <2>5. CASE ResolveActive(c)
    BY <1>0, <2>5 DEF ResolveActive
  <2>6. CASE ResolveWave(c)
    <3>1. pc[c] = "resolve" /\ req[c].wave # None => [wave |-> req[c].wave, name |-> DefaultName] \in Refs
      BY <1>0, RequestType, StoreAssumption DEF Flow, Refs
    <3> QED
      BY <1>0, <2>6, <3>1 DEF ResolveWave
  <2>7. CASE Load(c)
    <3>1. pc[c] = "load" /\ Loaded(target[c]) # None => Named(target[c]) \in Refs
      BY <1>0, PlaceType DEF Flow, Loaded, Named, Payloads, Refs
    <3> QED
      BY <1>0, <2>7, <3>1 DEF Load, Resolves, AfterResolve
  <2>8. CASE TryActive(c)
    <3>1. pc[c] = "try" => [target[c] EXCEPT !.name = DefaultName] \in Refs
      BY <1>0, StoreAssumption DEF Flow, Refs
    <3> QED
      BY <1>0, <2>8, <3>1 DEF TryActive
  <2>9. CASE NoDefault(c)
    BY <1>0, <2>9 DEF NoDefault
  <2> QED
    BY <1>2, <2>1, <2>2, <2>3, <2>4, <2>5, <2>6, <2>7, <2>8, <2>9 DEF Resolve
<1>3. CASE UseDefault(c)
  <2>1. CASE FindDefault(c)
    BY <1>0, <2>1 DEF FindDefault
  <2>2. CASE LoadDefault(c)
    <3>1. pc[c] = "loadDefault" /\ Loaded(target[c]) # None => Named(target[c]) \in Refs
      BY <1>0, PlaceType DEF Flow, Loaded, Named, Payloads, Refs
    <3> QED
      BY <1>0, <2>2, <3>1 DEF LoadDefault, AfterDefault, AfterResolve
  <2>3. CASE MakeDefault(c)
    BY <1>0, <2>3, FreshType, StoreAssumption DEF MakeDefault, AfterDefault, AfterResolve
  <2>4. CASE SetActive(c)
    BY <1>0, <2>4 DEF SetActive, AfterResolve, Flow
  <2> QED
    BY <1>3, <2>1, <2>2, <2>3, <2>4 DEF UseDefault
<1>4. CASE Locked(c)
  <2>1. CASE Lock(c)
    BY <1>0, <2>1 DEF Lock
  <2>2. CASE CheckNew(c)
    <3>1. pc[c] = "check" => Fresh(target[c].name) \in Payloads
      BY <1>0, PlaceType, FreshType DEF Flow
    <3> QED
      BY <1>0, <2>2, <3>1 DEF CheckNew
  <2>3. CASE Reload(c)
    <3>1. pc[c] = "reload" /\ Loaded(target[c]) # None /\ Accepts(req[c], Loaded(target[c])) =>
            Effect(req[c], Loaded(target[c])) \in Payloads
      BY <1>0, PlaceType, EffectType DEF Flow, Loaded
    <3> QED
      BY <1>0, <2>3, <3>1 DEF Reload
  <2>4. CASE Save(c)
    BY <1>0, <2>4 DEF Save, Flow
  <2>5. CASE LookUpPadded(c) \/ Unlock(c)
    BY <1>0, <2>5 DEF LookUpPadded, Unlock
  <2> QED
    BY <1>4, <2>1, <2>2, <2>3, <2>4, <2>5 DEF Locked
<1>5. CASE Delete(c)
  <2>1. CASE CheckExists(c) \/ Unlink(c)
    BY <1>0, <2>1 DEF CheckExists, Unlink
  <2>2. CASE CheckActive(c)
    <3>1. pc[c] = "checkActive" => [target[c] EXCEPT !.name = DefaultName] \in Refs
      BY <1>0, StoreAssumption DEF Flow, Refs
    <3> QED
      BY <1>0, <2>2, <3>1 DEF CheckActive
  <2> QED
    BY <1>5, <2>1, <2>2 DEF Delete
<1>6. CASE Return(c)
  BY <1>0, <1>6 DEF Return
<1>7. CASE Crash(c)
  <2>1. crashes + 1 \in 0 .. MaxCrashes
    BY <1>0, <1>7, StoreAssumption DEF Crash
  <2> QED
    BY <1>0, <1>7, <2>1 DEF Crash
<1> QED
  BY <1>1, <1>2, <1>3, <1>4, <1>5, <1>6, <1>7 DEF Act, Step

(* Every write puts into a file a session whose name belongs there.        *)
LEMMA FitStep ==
    ASSUME IInv, NEW c \in Clients, Act(c)
    PROVE  NamesFit'
<1>0. TypeOK /\ NamesFit /\ Flow(c)
  BY DEF IInv, Mine
<1>1. CASE file' = file
  BY <1>0, <1>1 DEF NamesFit
<1>2. CASE MakeDefault(c)
  <2>1. target[c] \in Refs /\ target[c].name = DefaultName
    BY <1>0, <1>2 DEF MakeDefault, Flow
  <2> QED
    BY <1>0, <1>2, <2>1, PlaceType, FreshType, StoreAssumption DEF MakeDefault, NamesFit, TypeOK
<1>3. CASE Save(c)
  BY <1>0, <1>3, PlaceType DEF Save, Flow, NamesFit, TypeOK
<1>4. CASE Unlink(c)
  BY <1>0, <1>4, PlaceType DEF Unlink, Refuses, Flow, NamesFit, TypeOK
<1> QED
  BY <1>1, <1>2, <1>3, <1>4, FileSteps

(* The step of a client keeps what the invariant says of this client.      *)
LEMMA FlowStep ==
    ASSUME IInv, NEW c \in Clients, Act(c)
    PROVE  Flow(c)'
<1> USE DEF TypeOK, Returns, Refuses, Flow
<1>0. TypeOK /\ NamesFit /\ Flow(c)
  BY DEF IInv, Mine
<1>1. ASSUME NEW q \in Requests, Call(c, q)
      PROVE  Flow(c)'
  <2>1. q.op = "create" => [wave |-> q.wave, name |-> q.name] \in Refs
    BY RequestType DEF Refs
  <2> QED
    BY <1>0, <1>1, <2>1 DEF Call
<1>2. CASE Resolve(c)
  <2>1. CASE ResolveNamed(c)
    BY <1>0, <2>1, RequestType DEF ResolveNamed, Refs
  <2>2. CASE ResolveBySearch(c) \/ NoDefault(c) \/ \E place \in Places : SearchFile(c, place)
    BY <1>0, <2>2 DEF ResolveBySearch, NoDefault, SearchFile
  <2>3. CASE Searched(c)
    BY <1>0, <2>3 DEF Searched
  <2>4. CASE ResolveActive(c)
    BY <1>0, <2>4 DEF ResolveActive
  <2>5. CASE ResolveWave(c)
    <3>1. pc[c] = "resolve" /\ req[c].wave # None => [wave |-> req[c].wave, name |-> DefaultName] \in Refs
      BY <1>0, RequestType, StoreAssumption DEF Refs
    <3> QED
      BY <1>0, <2>5, <3>1 DEF ResolveWave
  <2>6. CASE Load(c)
    <3>1. pc[c] = "load" /\ Loaded(target[c]) # None => Named(target[c]) \in Refs
      BY <1>0, PlaceType DEF Loaded, Named, Payloads, Refs
    <3> QED
      BY <1>0, <2>6, <3>1 DEF Load, Resolves, AfterResolve
  <2>7. CASE TryActive(c)
    BY <1>0, <2>7, StoreAssumption DEF TryActive, Refs
  <2> QED
    BY <1>2, <2>1, <2>2, <2>3, <2>4, <2>5, <2>6, <2>7 DEF Resolve
<1>3. CASE UseDefault(c)
  <2>1. CASE FindDefault(c)
    BY <1>0, <2>1 DEF FindDefault
  <2>2. CASE LoadDefault(c)
    <3>1. pc[c] = "loadDefault" /\ Loaded(target[c]) # None => Named(target[c]) \in Refs
      BY <1>0, PlaceType DEF Loaded, Named, Payloads, Refs
    <3> QED
      BY <1>0, <2>2, <3>1 DEF LoadDefault, AfterDefault, AfterResolve
  <2>3. CASE MakeDefault(c)
    BY <1>0, <2>3 DEF MakeDefault, AfterDefault, AfterResolve
  <2>4. CASE SetActive(c)
    BY <1>0, <2>4 DEF SetActive, AfterResolve
  <2> QED
    BY <1>3, <2>1, <2>2, <2>3, <2>4 DEF UseDefault
<1>4. CASE Locked(c)
  <2>1. CASE Lock(c)
    BY <1>0, <2>1 DEF Lock
  <2>2. CASE CheckNew(c)
    <3>1. pc[c] = "check" => Fresh(target[c].name) \in Payloads /\ Fresh(target[c].name).name = target[c].name
      BY <1>0, PlaceType, FreshType
    <3> QED
      BY <1>0, <2>2, <3>1 DEF CheckNew
  <2>3. CASE Reload(c)
    <3>1. pc[c] = "reload" /\ Loaded(target[c]) # None /\ Accepts(req[c], Loaded(target[c])) =>
            /\ Effect(req[c], Loaded(target[c])) \in Payloads
            /\ Slot(Effect(req[c], Loaded(target[c])).name) = Slot(target[c].name)
      BY <1>0, PlaceType, EffectType DEF Loaded, NamesFit
    <3> QED
      BY <1>0, <2>3, <3>1 DEF Reload
  <2>4. CASE Save(c)
    BY <1>0, <2>4, RequestType DEF Save
  <2>5. CASE LookUpPadded(c) \/ Unlock(c)
    BY <1>0, <2>5 DEF LookUpPadded, Unlock
  <2> QED
    BY <1>4, <2>1, <2>2, <2>3, <2>4, <2>5 DEF Locked
<1>5. CASE Delete(c)
  <2>1. CASE CheckExists(c) \/ Unlink(c)
    BY <1>0, <2>1 DEF CheckExists, Unlink
  <2>2. CASE CheckActive(c)
    BY <1>0, <2>2, StoreAssumption DEF CheckActive, Refs
  <2> QED
    BY <1>5, <2>1, <2>2 DEF Delete
<1>6. CASE Return(c) \/ Crash(c)
  BY <1>0, <1>6 DEF Return, Crash
<1> QED
  BY <1>1, <1>2, <1>3, <1>4, <1>5, <1>6 DEF Act, Step

LEMMA HoldsStep ==
    ASSUME IInv, NEW c \in Clients, Act(c)
    PROVE  Holds(c)'
<1> USE DEF Returns, Refuses, Unlocks, Critical, Holds, TypeOK
<1>0. TypeOK /\ Holds(c) /\ None \notin Clients
  BY StoreAssumption DEF IInv, Mine
<1>1. CASE \E q \in Requests : Call(c, q)
  BY <1>0, <1>1 DEF Call
<1>2. CASE Resolve(c)
  BY <1>0, <1>2 DEF Resolve, ResolveNamed, ResolveBySearch, SearchFile, Searched, ResolveActive,
                    ResolveWave, Load, TryActive, NoDefault, Resolves, AfterResolve
<1>3. CASE UseDefault(c)
  BY <1>0, <1>3 DEF UseDefault, FindDefault, LoadDefault, MakeDefault, SetActive,
                    AfterDefault, AfterResolve
<1>4. CASE Locked(c)
  BY <1>0, <1>4 DEF Locked, Lock, CheckNew, Reload, Save, LookUpPadded, Unlock
<1>5. CASE Delete(c)
  BY <1>0, <1>5 DEF Delete, CheckExists, Unlink, CheckActive
<1>6. CASE Return(c) \/ Crash(c)
  BY <1>0, <1>6 DEF Return, Crash
<1> QED
  BY <1>1, <1>2, <1>3, <1>4, <1>5, <1>6 DEF Act, Step

(* Only three steps lead a client to a save.                               *)
LEMMA CurrentStep ==
    ASSUME IInv, NEW c \in Clients, Act(c)
    PROVE  Current(c)'
<1> USE DEF Returns, Refuses, TypeOK, Current, Loaded, Place
<1>0. TypeOK /\ Current(c) /\ Flow(c)
  BY DEF IInv, Mine
<1>1. CASE CheckNew(c)
  BY <1>0, <1>1 DEF CheckNew, Flow
<1>2. CASE Reload(c)
  <2>1. pc[c] = "reload" => req[c].op # "create"
    BY <1>0 DEF Flow, Edits
  <2> QED
    BY <1>0, <1>2, <2>1 DEF Reload
<1>3. CASE Save(c)
  <2>1. pc[c] \in {"save", "saveAgain"} => Place(target[c]) \in Places
    BY <1>0, PlaceType DEF Flow
  <2> QED
    BY <1>0, <1>3, <2>1 DEF Save
<1>4. CASE pc'[c] \notin {"save", "saveAgain"}
  BY <1>4
<1>5. SUFFICES ASSUME ~CheckNew(c), ~Reload(c), ~Save(c)
               PROVE  pc'[c] \notin {"save", "saveAgain"}
  BY <1>1, <1>2, <1>3, <1>4
<1>6. CASE \E q \in Requests : Call(c, q)
  BY <1>0, <1>6 DEF Call
<1>7. CASE Resolve(c)
  BY <1>0, <1>7 DEF Resolve, ResolveNamed, ResolveBySearch, SearchFile, Searched, ResolveActive,
                    ResolveWave, Load, TryActive, NoDefault, Resolves, AfterResolve
<1>8. CASE UseDefault(c)
  BY <1>0, <1>8 DEF UseDefault, FindDefault, LoadDefault, MakeDefault, SetActive,
                    AfterDefault, AfterResolve
<1>9. CASE Lock(c) \/ LookUpPadded(c) \/ Unlock(c)
  BY <1>0, <1>9 DEF Lock, LookUpPadded, Unlock
<1>10. CASE Delete(c)
  BY <1>0, <1>10 DEF Delete, CheckExists, Unlink, CheckActive
<1>11. CASE Return(c) \/ Crash(c)
  BY <1>0, <1>11 DEF Return, Crash
<1> QED
  BY <1>5, <1>6, <1>7, <1>8, <1>9, <1>10, <1>11 DEF Act, Step, Locked

LEMMA OwnStep ==
    ASSUME IInv, NEW c \in Clients, Act(c)
    PROVE  Own(c)'
<1> USE DEF Returns, Refuses, TypeOK, Own, OwnPlace, DefaultPlace, Critical, Place
<1>0. TypeOK /\ NamesFit /\ Flow(c) /\ Own(c)
  BY DEF IInv, Mine
<1>1. ASSUME NEW q \in Requests, Call(c, q)
      PROVE  Own(c)'
  <2>1. req'[c] = q /\ (q.op = "create" => target'[c] = [wave |-> q.wave, name |-> q.name])
    BY <1>0, <1>1 DEF Call
  <2>2. pc'[c] = IF q.op = "create" THEN "lock" ELSE "resolve"
    BY <1>0, <1>1 DEF Call
  <2> QED
    BY <2>1, <2>2
<1>2. CASE Resolve(c)
  <2>1. CASE ResolveNamed(c)
    BY <1>0, <2>1 DEF ResolveNamed
  <2>2. CASE ResolveBySearch(c) \/ Searched(c) \/ \E place \in Places : SearchFile(c, place)
    BY <1>0, <2>2 DEF ResolveBySearch, Searched, SearchFile
  <2>3. CASE ResolveActive(c) \/ ResolveWave(c)
    BY <1>0, <2>3 DEF ResolveActive, ResolveWave
  <2>4. CASE Load(c)
    <3>1. pc[c] = "load" /\ Loaded(target[c]) # None =>
            Place(Named(target[c])) = Place(target[c])
      BY <1>0, PlaceType DEF Flow, Loaded, Named, NamesFit
    <3>2. AfterResolve(c) \in {"lock", "setActive", "exists", "return"}
          /\ (AfterResolve(c) = "setActive" => req[c].op = "switch")
          /\ (AfterResolve(c) = "exists" => req[c].op = "delete")
      BY DEF AfterResolve, Edits
    <3> QED
      BY <1>0, <2>4, <3>1, <3>2 DEF Load, Resolves
  <2>5. CASE TryActive(c) \/ NoDefault(c)
    BY <1>0, <2>5 DEF TryActive, NoDefault
  <2> QED
    BY <1>2, <2>1, <2>2, <2>3, <2>4, <2>5 DEF Resolve
<1>3. CASE UseDefault(c)
  <2>1. CASE FindDefault(c)
    BY <1>0, <2>1 DEF FindDefault
  <2>2. CASE LoadDefault(c)
    <3>1. pc[c] = "loadDefault" /\ Loaded(target[c]) # None =>
            Place(Named(target[c])) = Place(target[c])
      BY <1>0, PlaceType DEF Flow, Loaded, Named, NamesFit
    <3> QED
      BY <1>0, <2>2, <3>1 DEF LoadDefault, AfterDefault
  <2>3. CASE MakeDefault(c)
    BY <1>0, <2>3 DEF MakeDefault, AfterDefault
  <2>4. CASE SetActive(c)
    BY <1>0, <2>4 DEF SetActive
  <2> QED
    BY <1>3, <2>1, <2>2, <2>3, <2>4 DEF UseDefault
<1>4. CASE Locked(c)
  BY <1>0, <1>4 DEF Locked, Lock, CheckNew, Reload, Save, LookUpPadded, Unlock
<1>5. CASE Delete(c)
  <2>1. CASE CheckExists(c) \/ Unlink(c)
    BY <1>0, <2>1 DEF CheckExists, Unlink
  <2>2. CASE CheckActive(c)
    <3>1. pc[c] = "checkActive" =>
            /\ [target[c] EXCEPT !.name = DefaultName].name = DefaultName
            /\ [target[c] EXCEPT !.name = DefaultName].wave = target[c].wave
      BY <1>0 DEF Flow, Refs
    <3> QED
      BY <1>0, <2>2, <3>1 DEF CheckActive
  <2> QED
    BY <1>5, <2>1, <2>2 DEF Delete
<1>6. CASE Return(c) \/ Crash(c)
  BY <1>0, <1>6 DEF Return, Crash
<1> QED
  BY <1>1, <1>2, <1>3, <1>4, <1>5, <1>6 DEF Act, Step

LEMMA InvStep ==
    ASSUME IInv, [Next]_vars
    PROVE  IInv'
<1>1. CASE UNCHANGED vars
  BY <1>1 DEF IInv, TypeOK, NamesFit, Mine, Flow, Holds, Current, Own, Loaded, Place, OwnPlace, DefaultPlace
<1>2. ASSUME NEW c \in Clients, Act(c)
      PROVE  IInv'
  <2>1. Mine(c)'
    BY <1>2, FlowStep, HoldsStep, CurrentStep, OwnStep DEF Mine
  <2> QED
    BY <1>2, <2>1, TypeStep, FitStep, OthersRespect DEF IInv
<1> QED
  BY <1>1, <1>2 DEF Next, Act

LEMMA InvInit == Init => IInv
<1> SUFFICES ASSUME Init PROVE IInv
  OBVIOUS
<1>1. PICK names \in SUBSET Names :
        /\ file = [place \in Places |->
                     IF \E n \in names : Slot(n) = place.slot
                     THEN Fresh(CHOOSE n \in names : Slot(n) = place.slot) ELSE None]
        /\ active \in [wave : Waves, name : names] \cup {None}
  BY DEF Init
<1>2. ASSUME NEW place \in Places, file[place] # None
      PROVE  file[place] \in Payloads /\ Slot(file[place].name) = place.slot
  <2>1. PICK n \in names : Slot(n) = place.slot /\ file[place] = Fresh(n)
    BY <1>1, <1>2
  <2> QED
    BY <2>1, FreshType
<1>3. file \in [Places -> Payloads \cup {None}]
  <2>1. file = [place \in Places |-> file[place]]
    BY <1>1
  <2> QED
    BY <1>2, <2>1
<1>4. active \in Refs \cup {None}
  BY <1>1 DEF Refs
<1>5. TypeOK /\ NamesFit
  BY <1>2, <1>3, <1>4, StoreAssumption DEF Init, TypeOK, NamesFit
<1>6. \A c \in Clients : Mine(c)
  BY StoreAssumption DEF Init, Mine, Flow, Holds, Current, Own, Critical
<1> QED
  BY <1>5, <1>6 DEF IInv

(* The strengthened invariant holds in every reachable state.              *)
THEOREM StoreInvariant == Spec => []IInv
BY InvInit, InvStep, PTL DEF Spec

-----------------------------------------------------------------------------
(* What follows for users of the store                                     *)

(* Every variable keeps its type; in particular no cursor is negative.     *)
THEOREM StoreTypes == Spec => []TypeOK
<1>1. IInv => TypeOK
  BY DEF IInv
<1> QED
  BY <1>1, StoreInvariant, PTL

(* A payload about to be saved was made from what its file holds: the lock *)
(* keeps all but deletions away between the reload and the save.           *)
THEOREM SavesAreCurrent == Spec => []CopyIsCurrent
<1>1. IInv => CopyIsCurrent
  BY DEF IInv, Mine, Current, CopyIsCurrent
<1> QED
  BY <1>1, StoreInvariant, PTL

(* An existing session changes only by one accepted edit of what it is, or *)
(* by the creation of a default session.                                   *)
THEOREM EditsSerialized == Spec => EditsAreSerial
<1> DEFINE Serial(place) ==
      file[place] # None /\ file'[place] # None /\ file'[place] # file[place] =>
        \/ \E c \in Clients : pc[c] = "save" /\ Edited(place, req[c])
        \/ /\ place.slot = Slot(DefaultName) /\ file'[place] = Fresh(DefaultName)
           /\ \E c \in Clients : pc[c] = "makeDefault"
<1>1. ASSUME IInv, [Next]_vars, NEW place \in Places
      PROVE  Serial(place)
  <2>1. SUFFICES ASSUME file[place] # None, file'[place] # None, file'[place] # file[place]
                 PROVE  Serial(place)
    OBVIOUS
  <2>2. PICK c \in Clients : MakeDefault(c) \/ Save(c) \/ Unlink(c)
    BY <1>1, <2>1, FileSteps DEF Next, Act
  <2>3. TypeOK /\ Flow(c) /\ Current(c)
    BY <1>1 DEF IInv, Mine
  <2>4. CASE MakeDefault(c)
    BY <2>1, <2>3, <2>4, PlaceType DEF MakeDefault, Flow, TypeOK
  <2>5. CASE Save(c)
    <3>1. place = Place(target[c]) /\ file'[place] = copy[c]
      BY <2>1, <2>3, <2>5 DEF Save, TypeOK
    <3>2. pc[c] = "save" /\ req[c].op \in Edits
      BY <2>1, <2>3, <2>5, <3>1 DEF Save, Current, Loaded, Flow
    <3>3. req[c].op # "create"
      BY <3>2 DEF Edits
    <3> QED
      BY <2>1, <2>3, <3>1, <3>2, <3>3 DEF Current, Loaded, Edited
  <2>6. CASE Unlink(c)
    BY <2>1, <2>3, <2>6 DEF Unlink, Refuses, TypeOK
  <2> QED
    BY <2>2, <2>4, <2>5, <2>6
<1>2. IInv /\ [Next]_vars => [\A place \in Places : Serial(place)]_vars
  BY <1>1
<1> QED
  BY <1>2, StoreInvariant, PTL DEF Spec, EditsAreSerial

(* create_session saves only where there is no session.                    *)
THEOREM CreationIsNew == Spec => CreateIsNew
<1>1. IInv => \A c \in Clients :
        pc[c] = "save" /\ req[c].op = "create" /\ pc'[c] = "unlock" => Loaded(target[c]) = None
  BY DEF IInv, Mine, Current
<1> QED
  BY <1>1, StoreInvariant, PTL DEF CreateIsNew

(* A call with an explicit waveform and name touches no session but its    *)
(* own and, when it deletes that, the default session of its waveform,     *)
(* whatever other agents do to the active session.                         *)
THEOREM ExplicitCallsAreIndependent == Spec => ExplicitCallsIndependent
<1> DEFINE Explicit(c) ==
             pc'[c] # pc[c] /\ pc[c] # "idle" /\ req[c].wave # None /\ req[c].name # None
           Alone(c) ==
             /\ \A place \in Places \ {OwnPlace(c)} :
                  file'[place] # file[place] => req[c].op = "delete" /\ place = DefaultPlace(c)
             /\ active' # active =>
                  \/ req[c].op = "switch" /\ Place(active') = OwnPlace(c)
                  \/ req[c].op = "delete" /\ Place(active') = DefaultPlace(c)
<1>1. ASSUME IInv, [Next]_vars, NEW c \in Clients, Explicit(c)
      PROVE  Alone(c)
  <2>1. Act(c)
    <3>1. PICK d \in Clients : Act(d)
      BY <1>1 DEF Next, Act
    <3>2. d = c
      BY <1>1, <3>1, OthersKeep DEF IInv
    <3> QED
      BY <3>1, <3>2
  <2>2. TypeOK /\ Flow(c) /\ Own(c)
    BY <1>1 DEF IInv, Mine
  <2>3. ASSUME NEW place \in Places \ {OwnPlace(c)}, file'[place] # file[place]
        PROVE  req[c].op = "delete" /\ place = DefaultPlace(c)
    <3>1. CASE MakeDefault(c)
      <4>1. place = Place(target[c])
        BY <2>2, <2>3, <3>1 DEF MakeDefault, TypeOK
      <4> QED
        BY <1>1, <2>2, <3>1, <4>1 DEF MakeDefault, Own
    <3>2. CASE Save(c)
      <4>1. place = Place(target[c]) /\ pc[c] \in Critical
        BY <2>2, <2>3, <3>2 DEF Save, TypeOK, Critical
      <4> QED
        BY <1>1, <2>2, <2>3, <4>1 DEF Own
    <3>3. CASE Unlink(c)
      <4>1. place = Place(target[c]) /\ pc[c] = "unlink"
        BY <2>2, <2>3, <3>3 DEF Unlink, Refuses, TypeOK
      <4> QED
        BY <1>1, <2>2, <2>3, <4>1 DEF Own
    <3> QED
      BY <2>1, <2>3, <3>1, <3>2, <3>3, FileSteps
  <2>4. ASSUME active' # active
        PROVE  \/ req[c].op = "switch" /\ Place(active') = OwnPlace(c)
               \/ req[c].op = "delete" /\ Place(active') = DefaultPlace(c)
    BY <1>1, <2>1, <2>2, <2>4, ActiveSteps DEF SetActive, Own
  <2> QED
    BY <2>3, <2>4
<1>2. IInv /\ [Next]_vars => [\A c \in Clients : Explicit(c) => Alone(c)]_vars
  BY <1>1
<1> QED
  BY <1>2, StoreInvariant, PTL DEF Spec, ExplicitCallsIndependent, OwnPlace, DefaultPlace

=============================================================================
