--------------------------- MODULE MCSessionStore ---------------------------
(***************************************************************************)
(* Instances of SessionStore: the tool calls that the agents of each run   *)
(* may make.                                                               *)
(***************************************************************************)
EXTENDS SessionStore, TLC

CONSTANTS c1, c2, w1, w2, dflt, sess, sig

(* dflt is Default_Session; every name has a file of its own.              *)
MCSlot(n) == IF n = dflt THEN "dflt" ELSE "sess"

MCTimes == {-1, 2}

Ask(op, w, n) ==
    [op |-> op, wave |-> w, name |-> n, keys |-> {}, at |-> None, virtual |-> "no"]

On(keys, t, q) == [q EXCEPT !.keys = keys, !.at = t]
ByService(v, q) == [q EXCEPT !.virtual = v]

(* Two agents edit, create and delete the same session of one waveform.    *)
EditRequests ==
    {Ask("create", w1, sess), Ask("delete", w1, sess),
     On({sig}, CursorRef, Ask("put", w1, sess)),
     On({}, -1, Ask("move", w1, sess)),
     On({}, sig, Ask("jump", w1, sess)),
     On({}, 2, Ask("jump", w1, sess)),
     On({}, 2, Ask("move", w1, None)),
     ByService("padded", On({sig}, 2, Ask("add", w1, sess))),
     ByService("yes", On({sig}, None, Ask("drop", w1, sess))),
     ByService("yes", On({sig}, 2, Ask("update", w1, sess)))}

(* Agents that name their session, and agents that leave it, or its        *)
(* waveform, to the active session; calls of each way to end or to wait.   *)
ContextRequests ==
    {On({}, 2, Ask("move", w1, sess)), On({}, 2, Ask("move", w2, None)),
     Ask("get", None, sess), Ask("switch", w2, sess), Ask("delete", None, None),
     Ask("delete", w1, sess), Ask("switch", w1, None),
     ByService("padded", On({sig}, 2, Ask("add", w1, sess)))}

(* Calls that find a waveform without a session.                           *)
FirstRequests == {On({}, 2, Ask("move", w1, None))}

TwoClients == Permutations({c1, c2})

=============================================================================
