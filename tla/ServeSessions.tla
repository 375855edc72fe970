--------------------------- MODULE ServeSessions ---------------------------
(***************************************************************************)
(* The `rtl_trace serve` processes that the debug automation server shares *)
(* between agents: the registry of sessions, the pipes to each process,    *)
(* the protocol of one command line and one response ended by <<END>>, and *)
(* the thread that drains the process's stderr.                            *)
(*                                                                         *)
(* Translated from RtlTraceServeSession, _StderrPump and                   *)
(* _get_rtl_serve_session in agent_debug_automation/clients.py, the        *)
(* rtl_trace_serve_* tools in tools.py, and RunServe in                    *)
(* standalone_trace/serve/ServeLoop.cc.                                    *)
(*                                                                         *)
(* A response is one line of output, which carries the call whose command  *)
(* it answers and the database it was made from, and the end marker.       *)
(***************************************************************************)
EXTENDS Naturals, Sequences

CONSTANTS
    Agents,         \* threads that execute tool calls
    Dbs,            \* database paths; there is one binary
    None,           \* no database, no session, nobody
    Requests,       \* tool calls that agents make
    PipeSize,       \* what the stderr pipe of a process holds
    MaxSessions,    \* bound: processes started
    MaxCalls,       \* bound: tool calls
    MaxFaults       \* bound: processes that die or do not answer in time

Sids == 1 .. MaxSessions
Banner == 0                     \* tags the response to the start itself
Tags == 0 .. MaxCalls

(* A command line that contains a newline is read as two commands; each    *)
(* command may write some pieces of diagnostics.  "open" without a         *)
(* database is the command `close`.                                        *)
Commands == [kind : {"ask", "open", "quit"}, db : Dbs \cup {None},
             lines : {1, 2}, errors : Nat]

ASSUME ServeAssumption ==
    /\ None \notin Agents /\ None \notin Dbs /\ None \notin Sids
    /\ PipeSize \in Nat \ {0}
    /\ MaxCalls \in Nat /\ MaxFaults \in Nat
    /\ MaxSessions \in Nat /\ MaxSessions >= MaxCalls
    /\ Requests \subseteq
         [op : {"trace", "start", "query", "stop"}, db : Dbs \cup {None},
          sid : Sids \cup {None}, cmd : Commands]
    /\ \A q \in Requests : /\ q.op = "trace" => q.db # None /\ q.cmd.kind = "ask"
                           /\ q.op \in {"query", "stop"} => q.sid # None

VARIABLES
    table,      \* rtl_serve_sessions
    keyed,      \* rtl_session_ids_by_key
    rlock,      \* runtime_state_lock
    qlock,      \* _query_lock of each session
    proc,       \* its process: unborn, running or exited
    key,        \* the --db it was started with
    open,       \* the database its serve loop has open
    stdin,      \* commands it has not read yet
    busy,       \* the command it executes
    stdout,     \* lines that the server has not read yet
    errpipe,    \* diagnostics in its stderr pipe
    errbuf,     \* diagnostics the pump has collected
    pc,         \* next step of each agent
    call,       \* the tool call it executes
    id,         \* the number of this call
    sess,       \* the session it uses
    got,        \* lines of the response it has read
    calls, faults

registry == <<table, keyed>>
pipes == <<stdin, stdout, errpipe>>
process == <<proc, key, open, busy>>
locals == <<call, id, sess, got>>
vars == <<registry, rlock, qlock, process, pipes, errbuf, pc, locals, calls, faults>>

-----------------------------------------------------------------------------

Running(s) == s # None /\ proc[s] = "running"

(* The constructor reads the banner while runtime_state_lock is held; a    *)
(* query holds the lock of its session.                                    *)
Starting(a) == rlock = a
Tag(a) == IF Starting(a) THEN Banner ELSE id[a]

Goto(a, label) == pc' = [pc EXCEPT ![a] = label]

Returns(a) ==
    /\ Goto(a, "idle")
    /\ sess' = [sess EXCEPT ![a] = None]
    /\ got' = [got EXCEPT ![a] = <<>>]
    /\ UNCHANGED <<call, id>>

(* _terminate_process and _close_process_pipes                             *)
Kills(s) ==
    /\ proc' = [proc EXCEPT ![s] = "exited"]
    /\ busy' = [busy EXCEPT ![s] = None]
    /\ stdin' = [stdin EXCEPT ![s] = <<>>]
    /\ stdout' = [stdout EXCEPT ![s] = <<>>]
    /\ errpipe' = [errpipe EXCEPT ![s] = <<>>]
    /\ UNCHANGED <<key, open>>

Forget(s) ==
    /\ table' = table \ {s}
    /\ keyed' = [d \in Dbs |-> IF keyed[d] = s THEN None ELSE keyed[d]]

Registers(a, s) ==
    /\ table' = table \cup {s}
    /\ keyed' = [d \in Dbs |-> IF d = key[s] THEN s ELSE keyed[d]]

-----------------------------------------------------------------------------
(* Tool calls and the registry                                             *)

Call(a, q) ==
    /\ calls < MaxCalls
    /\ pc[a] = "idle"
    /\ Goto(a, IF q.op \in {"trace", "start"} THEN "get" ELSE "find")
    /\ call' = [call EXCEPT ![a] = q]
    /\ id' = [id EXCEPT ![a] = calls + 1]
    /\ calls' = calls + 1
    /\ UNCHANGED <<registry, rlock, qlock, process, pipes, errbuf, sess, got, faults>>

(* A database that cannot be read leaves the one that is open, and writes  *)
(* a diagnostic.                                                           *)
Outcomes(line) ==
    {line} \cup {[l EXCEPT !.kind = "ask", !.errors = 1] :
                   l \in {l \in {line} : l.kind = "open" /\ l.db # None}}

(* The serve loop begins with its --db as if it had been told to open it.  *)
Spawn(a, s) ==
    /\ proc' = [proc EXCEPT ![s] = "running"]
    /\ key' = [key EXCEPT ![s] = call[a].db]
    /\ \E line \in Outcomes([tag |-> Banner, kind |-> "open", db |-> call[a].db, errors |-> 0]) :
         busy' = [busy EXCEPT ![s] = line]
    /\ sess' = [sess EXCEPT ![a] = s]
    /\ Goto(a, "poll")
    /\ UNCHANGED <<open, call, id, got>>

(* Mutant: the path of the database is not part of the key.                *)
ReuseAny(a) ==
    /\ pc[a] = "get" /\ rlock = None /\ call[a].op = "trace"
    /\ \E d \in Dbs :
         /\ Running(keyed[d])
         /\ sess' = [sess EXCEPT ![a] = keyed[d]]
    /\ Goto(a, "enter")
    /\ UNCHANGED <<registry, rlock, qlock, process, pipes, errbuf, call, id, got, calls, faults>>

(* _get_rtl_serve_session and rtl_trace_serve_start: the session of this   *)
(* database if its process still runs ...                                  *)
Reuse(a) ==
    /\ pc[a] = "get" /\ rlock = None
    /\ call[a].db # None
    /\ Running(keyed[call[a].db])
    /\ \/ /\ call[a].op = "trace"
          /\ Goto(a, "enter")
          /\ sess' = [sess EXCEPT ![a] = keyed[call[a].db]]
          /\ UNCHANGED <<call, id, got>>
       \/ call[a].op = "start" /\ Returns(a)
    /\ UNCHANGED <<registry, rlock, qlock, process, pipes, errbuf, calls, faults>>

(* Mutant: every start is a new process.                                   *)
StartAnyway(a) ==
    /\ pc[a] = "get" /\ rlock = None
    /\ \E s \in Sids :
         /\ proc[s] = "unborn" /\ \A t \in Sids : t < s => proc[t] # "unborn"
         /\ Spawn(a, s)
    /\ rlock' = a
    /\ UNCHANGED <<registry, qlock, pipes, errbuf, calls, faults>>

(* ... else a new one; the lock is held until its banner has been read.    *)
StartProcess(a) ==
    /\ pc[a] = "get" /\ rlock = None
    /\ call[a].db # None => ~Running(keyed[call[a].db])
    /\ \E s \in Sids :
         /\ proc[s] = "unborn" /\ \A t \in Sids : t < s => proc[t] # "unborn"
         /\ Spawn(a, s)
    /\ IF call[a].db # None /\ keyed[call[a].db] # None
       THEN Forget(keyed[call[a].db])
       ELSE UNCHANGED registry
    /\ rlock' = a
    /\ UNCHANGED <<qlock, pipes, errbuf, calls, faults>>

(* rtl_trace_serve_query looks a session up by its identifier.             *)
Find(a) ==
    /\ pc[a] = "find" /\ rlock = None /\ call[a].op = "query"
    /\ \/ /\ call[a].sid \in table
          /\ Goto(a, "enter")
          /\ sess' = [sess EXCEPT ![a] = call[a].sid]
          /\ UNCHANGED <<call, id, got>>
       \/ call[a].sid \notin table /\ Returns(a)
    /\ UNCHANGED <<registry, rlock, qlock, process, pipes, errbuf, calls, faults>>

(* rtl_trace_serve_stop forgets the session first, and then stops it.      *)
Withdraw(a) ==
    /\ pc[a] = "find" /\ rlock = None /\ call[a].op = "stop"
    /\ \/ /\ call[a].sid \in table
          /\ Forget(call[a].sid)
          /\ Goto(a, "stop")
          /\ sess' = [sess EXCEPT ![a] = call[a].sid]
          /\ UNCHANGED <<call, id, got>>
       \/ call[a].sid \notin table /\ Returns(a) /\ UNCHANGED registry
    /\ UNCHANGED <<rlock, qlock, process, pipes, errbuf, calls, faults>>

Stop(a) ==
    /\ pc[a] = "stop" /\ qlock[sess[a]] = None
    /\ Kills(sess[a])
    /\ Returns(a)
    /\ UNCHANGED <<registry, rlock, qlock, errbuf, calls, faults>>

-----------------------------------------------------------------------------
(* One command and its response                                            *)

(* Mutant: the lock of the session is not taken.                           *)
EnterUnlocked(a) ==
    /\ pc[a] = "enter"
    /\ Goto(a, "write")
    /\ UNCHANGED <<registry, rlock, qlock, process, pipes, errbuf, locals, calls, faults>>

Enter(a) ==
    /\ pc[a] = "enter" /\ qlock[sess[a]] = None
    /\ qlock' = [qlock EXCEPT ![sess[a]] = a]
    /\ Goto(a, "write")
    /\ UNCHANGED <<registry, rlock, process, pipes, errbuf, locals, calls, faults>>

(* The end of a response, good or bad.  A start registers its session even *)
(* if the process is gone already; a trace does not.                       *)
Ends(a, ok) ==
    LET s == sess[a] IN
    \/ /\ Starting(a)
       /\ rlock' = None
       /\ IF ok \/ call[a].op = "start" THEN Registers(a, s) ELSE UNCHANGED registry
       /\ IF ok /\ call[a].op = "trace"
          THEN Goto(a, "enter") /\ got' = [got EXCEPT ![a] = <<>>] /\ UNCHANGED <<call, id, sess>>
          ELSE Returns(a)
       /\ UNCHANGED qlock
    \/ /\ ~Starting(a)
       /\ qlock' = [qlock EXCEPT ![s] = IF @ = a THEN None ELSE @]
       /\ Returns(a)
       /\ UNCHANGED <<registry, rlock>>

Write(a) ==
    /\ pc[a] = "write"
    /\ \/ /\ Running(sess[a])
          /\ LET c == call[a].cmd
                 line == [tag |-> id[a], kind |-> c.kind, db |-> c.db, errors |-> c.errors]
             IN  stdin' = [stdin EXCEPT ![sess[a]] = @ \o [i \in 1 .. c.lines |-> line]]
          /\ Goto(a, "poll")
          /\ UNCHANGED <<registry, rlock, qlock, locals>>
       \/ ~Running(sess[a]) /\ Ends(a, FALSE) /\ UNCHANGED stdin
    /\ UNCHANGED <<process, stdout, errpipe, errbuf, calls, faults>>

(* _read_until_end gives up at once if the process has exited by now.      *)
Poll(a) ==
    /\ pc[a] = "poll"
    /\ \/ Running(sess[a]) /\ Goto(a, "read") /\ UNCHANGED <<registry, rlock, qlock, locals>>
       \/ ~Running(sess[a]) /\ Ends(a, FALSE)
    /\ UNCHANGED <<process, pipes, errbuf, calls, faults>>

ReadLine(a) ==
    /\ pc[a] = "read" /\ stdout[sess[a]] # <<>>
    /\ LET line == Head(stdout[sess[a]]) IN
       IF line.end
       THEN Goto(a, "settle") /\ UNCHANGED got
       ELSE got' = [got EXCEPT ![a] = Append(@, line)] /\ UNCHANGED pc
    /\ stdout' = [stdout EXCEPT ![sess[a]] = Tail(@)]
    /\ UNCHANGED <<registry, rlock, qlock, process, stdin, errpipe, errbuf,
                   call, id, sess, calls, faults>>

ReadEof(a) ==
    /\ pc[a] = "read" /\ stdout[sess[a]] = <<>> /\ ~Running(sess[a])
    /\ Ends(a, FALSE)
    /\ UNCHANGED <<process, pipes, errbuf, calls, faults>>

(* Mutant: a process that does not answer in time is left alone.           *)
TimeoutOnly(a) ==
    /\ faults < MaxFaults
    /\ pc[a] = "read" /\ stdout[sess[a]] = <<>> /\ Running(sess[a])
    /\ Ends(a, FALSE)
    /\ faults' = faults + 1
    /\ UNCHANGED <<process, pipes, errbuf, calls>>

(* The process does not answer in time, and is stopped.                    *)
ReadTimeout(a) ==
    /\ faults < MaxFaults
    /\ pc[a] = "read" /\ stdout[sess[a]] = <<>> /\ Running(sess[a])
    /\ Kills(sess[a])
    /\ Ends(a, FALSE)
    /\ faults' = faults + 1
    /\ UNCHANGED <<errbuf, calls>>

(* Mutant: what the pump has collected is returned without waiting for it. *)
SettleAtOnce(a) ==
    /\ pc[a] = "settle"
    /\ errbuf' = [errbuf EXCEPT ![sess[a]] = <<>>]
    /\ Ends(a, TRUE)
    /\ UNCHANGED <<process, pipes, calls, faults>>

(* take_settled waits until the pump has emptied the pipe.                 *)
Settle(a) ==
    /\ pc[a] = "settle" /\ errpipe[sess[a]] = <<>>
    /\ errbuf' = [errbuf EXCEPT ![sess[a]] = <<>>]
    /\ Ends(a, TRUE)
    /\ UNCHANGED <<process, pipes, calls, faults>>

(* Mutant: nobody reads the diagnostics while a response is awaited.       *)
PumpWhenSettling(s) ==
    /\ errpipe[s] # <<>> /\ \E a \in Agents : sess[a] = s /\ pc[a] = "settle"
    /\ errbuf' = [errbuf EXCEPT ![s] = @ \o errpipe[s]]
    /\ errpipe' = [errpipe EXCEPT ![s] = <<>>]
    /\ UNCHANGED <<registry, rlock, qlock, process, stdin, stdout, pc, locals, calls, faults>>

Pump(s) ==
    /\ errpipe[s] # <<>>
    /\ errbuf' = [errbuf EXCEPT ![s] = @ \o errpipe[s]]
    /\ errpipe' = [errpipe EXCEPT ![s] = <<>>]
    /\ UNCHANGED <<registry, rlock, qlock, process, stdin, stdout, pc, locals, calls, faults>>

-----------------------------------------------------------------------------
(* The process                                                             *)

Keeps == UNCHANGED <<registry, rlock, qlock, errbuf, pc, locals, calls>>

GetLine(s) ==
    /\ proc[s] = "running" /\ busy[s] = None /\ stdin[s] # <<>>
    /\ \E line \in Outcomes(Head(stdin[s])) : busy' = [busy EXCEPT ![s] = line]
    /\ stdin' = [stdin EXCEPT ![s] = Tail(@)]
    /\ Keeps /\ UNCHANGED <<proc, key, open, stdout, errpipe, faults>>

(* Diagnostics go to stderr unbuffered; a full pipe blocks the process.    *)
Report(s) ==
    /\ proc[s] = "running" /\ busy[s] # None /\ busy[s].errors > 0
    /\ Len(errpipe[s]) < PipeSize
    /\ errpipe' = [errpipe EXCEPT ![s] = Append(@, busy[s].tag)]
    /\ busy' = [busy EXCEPT ![s].errors = @ - 1]
    /\ Keeps /\ UNCHANGED <<proc, key, open, stdin, stdout, faults>>

(* The answer, made from the database that is open.  After `quit` the      *)
(* process exits.                                                          *)
Respond(s) ==
    /\ proc[s] = "running" /\ busy[s] # None /\ busy[s].errors = 0
    /\ open' = IF busy[s].kind = "open" THEN [open EXCEPT ![s] = busy[s].db] ELSE open
    /\ stdout' = [stdout EXCEPT ![s] =
                    @ \o <<[tag |-> busy[s].tag, end |-> FALSE, db |-> open'[s]],
                           [tag |-> busy[s].tag, end |-> TRUE, db |-> None]>>]
    /\ busy' = [busy EXCEPT ![s] = None]
    /\ IF busy[s].kind = "quit"
       THEN /\ proc' = [proc EXCEPT ![s] = "exited"]
            /\ stdin' = [stdin EXCEPT ![s] = <<>>]
       ELSE UNCHANGED <<proc, stdin>>
    /\ Keeps /\ UNCHANGED <<key, errpipe, faults>>

(* The process dies; what it has written can still be read.                *)
Die(s) ==
    /\ faults < MaxFaults
    /\ proc[s] = "running"
    /\ proc' = [proc EXCEPT ![s] = "exited"]
    /\ busy' = [busy EXCEPT ![s] = None]
    /\ stdin' = [stdin EXCEPT ![s] = <<>>]
    /\ faults' = faults + 1
    /\ Keeps /\ UNCHANGED <<key, open, stdout, errpipe>>

-----------------------------------------------------------------------------

UseRegistry(a) == Reuse(a) \/ StartProcess(a) \/ Find(a) \/ Withdraw(a) \/ Stop(a)

Exchange(a) ==
    Enter(a) \/ Write(a) \/ Poll(a) \/ ReadLine(a) \/ ReadEof(a) \/ Settle(a)

AgentStep(a) == UseRegistry(a) \/ Exchange(a)

Serve(s) == GetLine(s) \/ Report(s) \/ Respond(s)

Next ==
    \/ \E a \in Agents : (\E q \in Requests : Call(a, q)) \/ AgentStep(a) \/ ReadTimeout(a)
    \/ \E s \in Sids : Serve(s) \/ Pump(s) \/ Die(s)

Init ==
    /\ table = {} /\ keyed = [d \in Dbs |-> None]
    /\ rlock = None /\ qlock = [s \in Sids |-> None]
    /\ proc = [s \in Sids |-> "unborn"] /\ key = [s \in Sids |-> None]
    /\ open = [s \in Sids |-> None] /\ busy = [s \in Sids |-> None]
    /\ stdin = [s \in Sids |-> <<>>] /\ stdout = [s \in Sids |-> <<>>]
    /\ errpipe = [s \in Sids |-> <<>>] /\ errbuf = [s \in Sids |-> <<>>]
    /\ pc = [a \in Agents |-> "idle"]
    /\ call \in [Agents -> {None}] /\ id = [a \in Agents |-> 0]
    /\ sess = [a \in Agents |-> None] /\ got = [a \in Agents |-> <<>>]
    /\ calls = 0 /\ faults = 0

Spec == Init /\ [][Next]_vars

(* Threads and processes that can go on do so; nothing need time out.      *)
FairSpec ==
    /\ Spec
    /\ \A a \in Agents : WF_vars(AgentStep(a))
    /\ \A s \in Sids : WF_vars(Serve(s)) /\ WF_vars(Pump(s))

-----------------------------------------------------------------------------

Lines == [tag : Tags, end : BOOLEAN, db : Dbs \cup {None}]
Work == [tag : Tags, kind : {"ask", "open", "quit"}, db : Dbs \cup {None}, errors : Nat]

TypeOK ==
    /\ table \subseteq Sids
    /\ keyed \in [Dbs -> Sids \cup {None}]
    /\ rlock \in Agents \cup {None}
    /\ qlock \in [Sids -> Agents \cup {None}]
    /\ proc \in [Sids -> {"unborn", "running", "exited"}]
    /\ key \in [Sids -> Dbs \cup {None}]
    /\ open \in [Sids -> Dbs \cup {None}]
    /\ stdin \in [Sids -> Seq(Work)]
    /\ busy \in [Sids -> Work \cup {None}]
    /\ stdout \in [Sids -> Seq(Lines)]
    /\ errpipe \in [Sids -> Seq(Tags)] /\ \A s \in Sids : Len(errpipe[s]) <= PipeSize
    /\ errbuf \in [Sids -> Seq(Tags)]
    /\ pc \in [Agents -> {"idle", "get", "find", "stop", "enter", "write", "poll", "read", "settle"}]
    /\ call \in [Agents -> Requests \cup {None}]
    /\ id \in [Agents -> Tags]
    /\ sess \in [Agents -> Sids \cup {None}]
    /\ got \in [Agents -> Seq(Lines)]
    /\ calls \in 0 .. MaxCalls
    /\ faults \in 0 .. MaxFaults

(* Between two transactions with a process nothing is left in its pipes,   *)
(* and it waits for a command: the next response that is read belongs to   *)
(* the next command that is written.                                       *)
Aligned ==
    \A s \in Sids :
        \/ proc[s] # "running" \/ qlock[s] # None
        \/ \E a \in Agents : Starting(a) /\ sess[a] = s
        \/ stdin[s] = <<>> /\ busy[s] = None /\ stdout[s] = <<>> /\ errpipe[s] = <<>> /\ errbuf[s] = <<>>

(* When a call has read the end of a response, it has read the response to *)
(* its own command and nothing else, and the diagnostics of the session    *)
(* are those of its own command, none missing: no other agent's, and none  *)
(* of the banner.                                                          *)
OwnResponse ==
    \A a \in Agents : pc[a] = "settle" =>
        LET errs == errbuf[sess[a]] \o errpipe[sess[a]] IN
        /\ Len(got[a]) = 1 /\ got[a][1].tag = Tag(a)
        /\ \A i \in 1 .. Len(errs) : errs[i] = Tag(a)
        /\ ~Starting(a) /\ call[a].cmd.kind = "ask" => Len(errs) = call[a].cmd.errors

(* Agents that work on the same database share one process.                *)
OneServePerDb ==
    \A s, t \in table :
        Running(s) /\ Running(t) /\ key[s] = key[t] /\ key[s] # None => s = t

(* Every process that runs can be found by its identifier, unless a call   *)
(* is just starting or stopping it: none is left behind.                   *)
NoOrphans ==
    \A s \in Sids : Running(s) =>
        s \in table \/ \E a \in Agents : sess[a] = s /\ (Starting(a) \/ pc[a] = "stop")

(* A trace is answered from the database it names, if from any.            *)
AnswersFromDb ==
    \A a \in Agents :
        pc[a] = "settle" /\ ~Starting(a) /\ call[a].op = "trace" =>
            got[a] # <<>> /\ got[a][1].db \in {call[a].db, None}

(* Every call returns, also when it waits for another one's transaction,   *)
(* and without a timeout.                                                  *)
CallsReturn == \A a \in Agents : pc[a] # "idle" ~> pc[a] = "idle"

=============================================================================
