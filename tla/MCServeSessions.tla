-------------------------- MODULE MCServeSessions --------------------------
(***************************************************************************)
(* Instances of ServeSessions: the tool calls that the agents of each run  *)
(* may make.                                                               *)
(***************************************************************************)
EXTENDS ServeSessions, TLC

CONSTANTS a1, a2, d1, d2

Ask(errors) == [kind |-> "ask", db |-> None, lines |-> 1, errors |-> errors]

Tool(op, d, s, cmd) == [op |-> op, db |-> d, sid |-> s, cmd |-> cmd]

(* One database: traces with and without diagnostics, commands through the *)
(* session identifier, the end of a session by `quit` and by the tool.     *)
ProtocolRequests ==
    {Tool("trace", d1, None, Ask(0)), Tool("trace", d1, None, Ask(2)),
     Tool("query", None, 1, Ask(1)),
     Tool("query", None, 1, [Ask(0) EXCEPT !.kind = "quit"]),
     Tool("stop", None, 1, Ask(0))}

(* Two databases, sessions with and without one.                           *)
RegistryRequests ==
    {Tool("trace", d1, None, Ask(0)), Tool("trace", d2, None, Ask(0)),
     Tool("start", d1, None, Ask(0)), Tool("start", None, None, Ask(0)),
     Tool("query", None, 1, [Ask(0) EXCEPT !.kind = "quit"]),
     Tool("stop", None, 2, Ask(0))}

TwoAgents == Permutations({a1, a2})

=============================================================================
