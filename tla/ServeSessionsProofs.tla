------------------------ MODULE ServeSessionsProofs ------------------------
(***************************************************************************)
(* Proofs about ServeSessions: types, and the registry of processes; then  *)
(* the protocol of a session.  A command of one line has one response, and *)
(* both belong to the call that has the session; and without `open`        *)
(* commands the response is made from the database that the process was    *)
(* started with.                                                           *)
(***************************************************************************)
EXTENDS ServeSessions, TLAPS, SequenceTheorems

Transaction == {"write", "poll", "read", "settle"}

(* Where a call is, and which session and which locks it then has.         *)
Flow(a) ==
    /\ pc[a] # "idle" => call[a] \in Requests
    /\ pc[a] = "get" => call[a].op \in {"trace", "start"}
    /\ pc[a] \in {"idle", "get", "find"} => sess[a] = None
    /\ pc[a] \in {"enter", "stop"} \cup Transaction => sess[a] \in Sids /\ proc[sess[a]] # "unborn"
    /\ pc[a] \in Transaction => Starting(a) \/ qlock[sess[a]] = a
    /\ Starting(a) =>
         /\ pc[a] \in {"poll", "read", "settle"} /\ call[a].op \in {"trace", "start"}
         /\ sess[a] \notin table /\ key[sess[a]] = call[a].db
         /\ call[a].db # None => keyed[call[a].db] = None

(* The two tables agree, and hold processes that were started.             *)
Registered ==
    /\ \A s \in table : proc[s] # "unborn" /\ (key[s] # None => keyed[key[s]] = s)
    /\ \A d \in Dbs : keyed[d] # None => keyed[d] \in table /\ key[keyed[d]] = d

IInv == TypeOK /\ (\A a \in Agents : Flow(a)) /\ Registered /\ NoOrphans

-----------------------------------------------------------------------------

LEMMA NoneIsNobody == None \notin Agents /\ None \notin Dbs /\ None \notin Sids
BY ServeAssumption

LEMMA RequestType ==
    ASSUME NEW q \in Requests
    PROVE  /\ q \in [op : {"trace", "start", "query", "stop"}, db : Dbs \cup {None},
                     sid : Sids \cup {None}, cmd : Commands]
           /\ q.op = "trace" => q.db # None
           /\ q.op \in {"query", "stop"} => q.sid \in Sids
BY ServeAssumption

LEMMA OutcomeType ==
    ASSUME NEW w \in Work
    PROVE  \A line \in Outcomes(w) : line \in Work /\ line.tag = w.tag
<1>1. w.kind \in {"ask", "open", "quit"} /\ w.errors \in Nat /\ w.tag \in Tags
      /\ w.db \in Dbs \cup {None}
  BY DEF Work
<1>2. [w EXCEPT !.kind = "ask", !.errors = 1] \in Work
  BY <1>1 DEF Work
<1>3. [w EXCEPT !.kind = "ask", !.errors = 1].tag = w.tag
  BY DEF Work
<1> QED
  BY <1>2, <1>3 DEF Outcomes

LEMMA Empty == ASSUME NEW S PROVE <<>> \in Seq(S) /\ Len(<<>>) = 0
OBVIOUS

(* What one call, and what one process, can do.                            *)
AgentAct(a) == (\E q \in Requests : Call(a, q)) \/ AgentStep(a) \/ ReadTimeout(a)
ProcessAct(s) == Serve(s) \/ Pump(s) \/ Die(s)

-----------------------------------------------------------------------------

Labels == {"idle", "get", "find", "stop", "enter", "write", "poll", "read", "settle"}

(* Editing the registry keeps its types.                                   *)
LEMMA RegistryTypes ==
    ASSUME TypeOK, NEW s
    PROVE  /\ Forget(s) => table' \subseteq Sids /\ keyed' \in [Dbs -> Sids \cup {None}]
           /\ UNCHANGED registry => table' \subseteq Sids /\ keyed' \in [Dbs -> Sids \cup {None}]
           /\ \A a : s \in Sids /\ Registers(a, s) =>
                table' \subseteq Sids /\ keyed' \in [Dbs -> Sids \cup {None}]
<1>1. table \subseteq Sids /\ keyed \in [Dbs -> Sids \cup {None}]
  BY DEF TypeOK
<1> QED
  BY <1>1 DEF Forget, Registers, registry

LEMMA FindTypes ==
    ASSUME TypeOK, NEW a, Find(a) \/ Withdraw(a)
    PROVE  /\ pc' \in [Agents -> Labels] /\ sess' \in [Agents -> Sids \cup {None}]
           /\ got' \in [Agents -> Seq(Lines)] /\ UNCHANGED <<call, id>>
<1>1. /\ pc \in [Agents -> Labels] /\ sess \in [Agents -> Sids \cup {None}]
      /\ got \in [Agents -> Seq(Lines)] /\ <<>> \in Seq(Lines) /\ table \subseteq Sids
  BY Empty DEF TypeOK, Labels
<1>2. CASE Returns(a)
  BY <1>1, <1>2 DEF Returns, Goto, Labels
<1>3. CASE /\ call[a].sid \in table
           /\ Goto(a, "enter") \/ Goto(a, "stop")
           /\ sess' = [sess EXCEPT ![a] = call[a].sid]
           /\ UNCHANGED <<call, id, got>>
  BY <1>1, <1>3 DEF Goto, Labels
<1> QED
  BY <1>2, <1>3 DEF Find, Withdraw

(* A step of an agent keeps the types.                                     *)
LEMMA AgentTypes ==
    ASSUME IInv, NEW a \in Agents, AgentAct(a)
    PROVE  TypeOK'
<1> USE DEF Labels, TypeOK, Returns, Goto, Kills, Forget, Registers, registry, pipes, process, locals, Running
<1>0. TypeOK /\ Flow(a) /\ <<>> \in Seq(Lines) /\ <<>> \in Seq(Work) /\ <<>> \in Seq(Tags)
  BY Empty DEF IInv
<1>1. ASSUME NEW q \in Requests, Call(a, q)
      PROVE  TypeOK'
  <2>1. calls + 1 \in 0 .. MaxCalls /\ calls + 1 \in Tags
    BY <1>0, <1>1, ServeAssumption DEF Call, Tags
  <2> QED
    BY <1>0, <1>1, <2>1 DEF Call
<1>2. CASE Reuse(a)
  <2>1. keyed[call[a].db] \in Sids
    BY <1>0, <1>2, RequestType DEF Reuse, Flow
  <2>2. /\ pc' \in [Agents -> Labels]
        /\ call' \in [Agents -> Requests \cup {None}] /\ id' \in [Agents -> Tags]
        /\ sess' \in [Agents -> Sids \cup {None}]
        /\ got' \in [Agents -> Seq(Lines)]
    <3>1. CASE Returns(a)
      BY <1>0, <3>1
    <3>2. CASE Goto(a, "enter") /\ sess' = [sess EXCEPT ![a] = keyed[call[a].db]] /\ UNCHANGED <<call, id, got>>
      BY <1>0, <2>1, <3>2
    <3> QED
      BY <1>2, <3>1, <3>2 DEF Reuse
  <2> QED
    BY <1>0, <1>2, <2>2 DEF Reuse
<1>3. CASE StartProcess(a)
  <2>1. PICK s \in Sids : Spawn(a, s)
    BY <1>3 DEF StartProcess
  <2>2. call[a].db \in Dbs \cup {None}
    BY <1>0, <1>3, RequestType DEF StartProcess, Flow
  <2>3. \A line \in Outcomes([tag |-> Banner, kind |-> "open", db |-> call[a].db, errors |-> 0]) :
          line \in Work
    BY <2>2, OutcomeType, ServeAssumption DEF Work, Tags, Banner
  <2>4. busy' \in [Sids -> Work \cup {None}]
    BY <1>0, <2>1, <2>3 DEF Spawn
  <2>5. table' \subseteq Sids /\ keyed' \in [Dbs -> Sids \cup {None}]
    <3> HIDE DEF TypeOK, Forget, registry
    <3> QED
      BY <1>0, <1>3, RegistryTypes DEF StartProcess
  <2> QED
    BY <1>0, <1>3, <2>1, <2>2, <2>4, <2>5 DEF StartProcess, Spawn
<1>4. CASE Find(a) \/ Withdraw(a) \/ Stop(a)
  <2>1. CASE Find(a) \/ Withdraw(a)
    <3>1. /\ pc' \in [Agents -> Labels] /\ sess' \in [Agents -> Sids \cup {None}]
          /\ got' \in [Agents -> Seq(Lines)] /\ UNCHANGED <<call, id>>
      BY <1>0, <2>1, FindTypes
    <3>2. table' \subseteq Sids /\ keyed' \in [Dbs -> Sids \cup {None}]
      <4> HIDE DEF TypeOK, Forget, registry, Returns
      <4> QED
        BY <1>0, <2>1, RegistryTypes DEF Find, Withdraw
    <3>3. UNCHANGED <<rlock, qlock, process, pipes, errbuf, calls, faults>>
      BY <2>1 DEF Find, Withdraw
    <3> HIDE DEF Returns, Goto, Kills, Forget, Registers, Running
    <3> QED
      BY <1>0, <3>1, <3>2, <3>3, SMTT(30)
  <2>4. CASE Stop(a)
    <3>1. sess[a] \in Sids
      BY <1>0, <2>4 DEF Stop, Flow
    <3>2. /\ proc' \in [Sids -> {"unborn", "running", "exited"}]
          /\ busy' \in [Sids -> Work \cup {None}]
          /\ stdin' \in [Sids -> Seq(Work)] /\ stdout' \in [Sids -> Seq(Lines)]
          /\ errpipe' \in [Sids -> Seq(Tags)] /\ \A s \in Sids : Len(errpipe'[s]) <= PipeSize
      BY <1>0, <2>4, <3>1, ServeAssumption DEF Stop
    <3>3. /\ pc' \in [Agents -> Labels]
          /\ call' \in [Agents -> Requests \cup {None}] /\ id' \in [Agents -> Tags]
          /\ sess' \in [Agents -> Sids \cup {None}]
          /\ got' \in [Agents -> Seq(Lines)]
      BY <1>0, <2>4 DEF Stop
    <3> QED
      BY <1>0, <2>4, <3>2, <3>3 DEF Stop
  <2> QED
    BY <1>4, <2>1, <2>4
<1>5. CASE Enter(a)
  BY <1>0, <1>5 DEF Enter
<1>6. ASSUME NEW ok \in BOOLEAN, Ends(a, ok), pc[a] \in Transaction
      PROVE  /\ table' \subseteq Sids /\ keyed' \in [Dbs -> Sids \cup {None}]
             /\ rlock' \in Agents \cup {None} /\ qlock' \in [Sids -> Agents \cup {None}]
             /\ pc' \in [Agents -> Labels]
             /\ call' \in [Agents -> Requests \cup {None}]
             /\ id' \in [Agents -> Tags]
             /\ sess' \in [Agents -> Sids \cup {None}]
             /\ got' \in [Agents -> Seq(Lines)]
  <2>1. sess[a] \in Sids
    BY <1>0, <1>6 DEF Flow
  <2>2. table' \subseteq Sids /\ keyed' \in [Dbs -> Sids \cup {None}]
    <3> HIDE DEF TypeOK, Registers, registry
    <3> QED
      BY <1>0, <1>6, <2>1, RegistryTypes DEF Ends
  <2>3. rlock' \in Agents \cup {None} /\ qlock' \in [Sids -> Agents \cup {None}]
    <3>1. rlock' \in {rlock, None}
      BY <1>6 DEF Ends
    <3>2. qlock' = qlock \/ qlock' = [qlock EXCEPT ![sess[a]] = IF @ = a THEN None ELSE @]
      BY <1>6 DEF Ends
    <3> QED
      BY <1>0, <2>1, <3>1, <3>2
  <2>4. pc' \in [Agents -> Labels]
    BY <1>0, <1>6 DEF Ends
  <2>5. call' \in [Agents -> Requests \cup {None}] /\ id' \in [Agents -> Tags]
    BY <1>0, <1>6 DEF Ends
  <2>6. sess' \in [Agents -> Sids \cup {None}] /\ got' \in [Agents -> Seq(Lines)]
    <3>1. sess' \in {sess, [sess EXCEPT ![a] = None]}
      BY <1>6 DEF Ends
    <3>2. got' = [got EXCEPT ![a] = <<>>]
      BY <1>6 DEF Ends
    <3> QED
      BY <1>0, <3>1, <3>2
  <2> QED
    BY <2>2, <2>3, <2>4, <2>5, <2>6
<1>7. CASE Write(a)
  <2>1. CASE Running(sess[a])
    <3>1. call[a].cmd \in Commands
      BY <1>0, <1>7, RequestType DEF Write, Flow
    <3> DEFINE line == [tag |-> id[a], kind |-> call[a].cmd.kind, db |-> call[a].cmd.db,
                        errors |-> call[a].cmd.errors]
               text == [i \in 1 .. call[a].cmd.lines |-> line]
    <3>2. line \in Work /\ call[a].cmd.lines \in {1, 2}
      BY <1>0, <3>1 DEF Commands, Work
    <3>3. text \in Seq(Work)
      BY <3>2
    <3>4. stdin' = [stdin EXCEPT ![sess[a]] = @ \o text]
      BY <1>7, <2>1 DEF Write, Ends
    <3>5. sess[a] \in Sids
      BY <1>0, <1>7 DEF Write, Flow, Transaction
    <3> HIDE DEF text
    <3>6. stdin' \in [Sids -> Seq(Work)]
      BY <1>0, <3>3, <3>4, <3>5
    <3>7. pc' \in [Agents -> Labels]
          /\ UNCHANGED <<registry, rlock, qlock, locals>>
      BY <1>0, <1>7, <2>1 DEF Write
    <3> QED
      BY <1>0, <1>7, <3>6, <3>7 DEF Write
  <2>2. CASE ~Running(sess[a])
    BY <1>0, <1>6, <1>7, <2>2 DEF Write, Transaction
  <2> QED
    BY <2>1, <2>2
<1>8. CASE Poll(a)
  BY <1>0, <1>6, <1>8 DEF Poll, Transaction
<1>9. CASE ReadLine(a)
  <2>1. sess[a] \in Sids /\ stdout[sess[a]] \in Seq(Lines) /\ stdout[sess[a]] # <<>>
    BY <1>0, <1>9 DEF ReadLine, Flow, Transaction
  <2>2. /\ Head(stdout[sess[a]]) \in Lines /\ Tail(stdout[sess[a]]) \in Seq(Lines)
        /\ Append(got[a], Head(stdout[sess[a]])) \in Seq(Lines)
    BY <1>0, <2>1
  <2>3. got' \in [Agents -> Seq(Lines)]
    <3>1. got' \in {got, [got EXCEPT ![a] = Append(@, Head(stdout[sess[a]]))]}
      BY <1>9 DEF ReadLine
    <3> QED
      BY <1>0, <2>2, <3>1
  <2>4. stdout' \in [Sids -> Seq(Lines)]
    BY <1>0, <1>9, <2>1, <2>2 DEF ReadLine
  <2> QED
    BY <1>0, <1>9, <2>3, <2>4 DEF ReadLine
<1>10. CASE ReadEof(a)
  BY <1>0, <1>6, <1>10 DEF ReadEof, Transaction
<1>11. CASE ReadTimeout(a)
  <2>1. faults + 1 \in 0 .. MaxFaults /\ sess[a] \in Sids
    BY <1>0, <1>11, ServeAssumption DEF ReadTimeout, Flow, Transaction
  <2>2. /\ proc' \in [Sids -> {"unborn", "running", "exited"}]
        /\ busy' \in [Sids -> Work \cup {None}]
        /\ stdin' \in [Sids -> Seq(Work)] /\ stdout' \in [Sids -> Seq(Lines)]
        /\ errpipe' \in [Sids -> Seq(Tags)] /\ \A s \in Sids : Len(errpipe'[s]) <= PipeSize
    BY <1>0, <1>11, <2>1, ServeAssumption DEF ReadTimeout
  <2> QED
    BY <1>0, <1>6, <1>11, <2>1, <2>2 DEF ReadTimeout, Transaction
<1>12. CASE Settle(a)
  BY <1>0, <1>6, <1>12 DEF Settle, Transaction, Flow
<1> QED
  BY <1>1, <1>2, <1>3, <1>4, <1>5, <1>7, <1>8, <1>9, <1>10, <1>11, <1>12
     DEF AgentAct, AgentStep, UseRegistry, Exchange

-----------------------------------------------------------------------------

(* So does a step of a process or of its pump.                             *)
LEMMA ProcessTypes ==
    ASSUME IInv, NEW s \in Sids, ProcessAct(s)
    PROVE  TypeOK'
<1> USE DEF TypeOK, registry, pipes, process, locals, Keeps
<1>0. TypeOK /\ <<>> \in Seq(Lines) /\ <<>> \in Seq(Work) /\ <<>> \in Seq(Tags)
  BY Empty DEF IInv
<1>1. CASE GetLine(s)
  <2>1. stdin[s] \in Seq(Work) /\ stdin[s] # <<>>
    BY <1>0, <1>1 DEF GetLine
  <2>2. Head(stdin[s]) \in Work /\ Tail(stdin[s]) \in Seq(Work)
    BY <2>1
  <2>3. busy' \in [Sids -> Work \cup {None}]
    <3>1. PICK line \in Outcomes(Head(stdin[s])) : busy' = [busy EXCEPT ![s] = line]
      BY <1>1 DEF GetLine
    <3>2. line \in Work
      BY <2>2, <3>1, OutcomeType
    <3> QED
      BY <1>0, <3>1, <3>2
  <2>4. stdin' \in [Sids -> Seq(Work)]
    BY <1>0, <1>1, <2>2 DEF GetLine
  <2> QED
    BY <1>0, <1>1, <2>3, <2>4 DEF GetLine
<1>2. CASE Report(s)
  <2>1. busy[s] \in Work /\ errpipe[s] \in Seq(Tags)
    BY <1>0, <1>2 DEF Report
  <2>2. /\ busy[s].tag \in Tags /\ [busy[s] EXCEPT !.errors = @ - 1] \in Work
    <3>1. busy[s].tag \in Tags /\ busy[s].errors - 1 \in Nat
      BY <1>2, <2>1 DEF Report, Work
    <3> HIDE DEF TypeOK
    <3> QED
      BY <2>1, <3>1 DEF Work
  <2>3. busy' \in [Sids -> Work \cup {None}]
    BY <1>0, <1>2, <2>2 DEF Report
  <2>4. Append(errpipe[s], busy[s].tag) \in Seq(Tags)
        /\ Len(Append(errpipe[s], busy[s].tag)) = Len(errpipe[s]) + 1 /\ Len(errpipe[s]) \in Nat
    BY <2>1, <2>2
  <2>5. errpipe' \in [Sids -> Seq(Tags)] /\ \A t \in Sids : Len(errpipe'[t]) <= PipeSize
    BY <1>0, <1>2, <2>4, ServeAssumption DEF Report
  <2> QED
    BY <1>0, <1>2, <2>3, <2>5 DEF Report
<1>3. CASE Respond(s)
  <2>1. busy[s] \in Work
    BY <1>0, <1>3 DEF Respond
  <2>2. open' \in [Sids -> Dbs \cup {None}]
    BY <1>0, <1>3, <2>1 DEF Respond, Work
  <2> DEFINE body == [tag |-> busy[s].tag, end |-> FALSE, db |-> open'[s]]
             mark == [tag |-> busy[s].tag, end |-> TRUE, db |-> None]
  <2>3. body \in Lines /\ mark \in Lines
    BY <2>1, <2>2 DEF Lines, Work
  <2> HIDE DEF body, mark
  <2>4. stdout[s] \o <<body, mark>> \in Seq(Lines)
    BY <1>0, <2>3
  <2>5. stdout' = [stdout EXCEPT ![s] = @ \o <<body, mark>>]
    BY <1>3 DEF Respond, body, mark
  <2>6. stdout' \in [Sids -> Seq(Lines)]
    BY <1>0, <2>4, <2>5
  <2>7. proc' \in [Sids -> {"unborn", "running", "exited"}] /\ stdin' \in [Sids -> Seq(Work)]
    BY <1>0, <1>3 DEF Respond
  <2>8. busy' \in [Sids -> Work \cup {None}]
    BY <1>0, <1>3 DEF Respond
  <2> QED
    BY <1>0, <1>3, <2>2, <2>6, <2>7, <2>8 DEF Respond
<1>4. CASE Pump(s)
  <2>1. errbuf[s] \o errpipe[s] \in Seq(Tags)
    BY <1>0
  <2>2. errbuf' \in [Sids -> Seq(Tags)]
    BY <1>0, <1>4, <2>1 DEF Pump
  <2>3. errpipe' \in [Sids -> Seq(Tags)] /\ \A t \in Sids : Len(errpipe'[t]) <= PipeSize
    BY <1>0, <1>4, ServeAssumption DEF Pump
  <2> QED
    BY <1>0, <1>4, <2>2, <2>3 DEF Pump
<1>5. CASE Die(s)
  <2>1. faults + 1 \in 0 .. MaxFaults
    BY <1>0, <1>5, ServeAssumption DEF Die
  <2>2. /\ proc' \in [Sids -> {"unborn", "running", "exited"}]
        /\ busy' \in [Sids -> Work \cup {None}] /\ stdin' \in [Sids -> Seq(Work)]
    BY <1>0, <1>5 DEF Die
  <2> QED
    BY <1>0, <1>5, <2>1, <2>2 DEF Die
<1> QED
  BY <1>1, <1>2, <1>3, <1>4, <1>5 DEF ProcessAct, Serve

-----------------------------------------------------------------------------

(* How an agent leaves the other agents, the processes and the locks.      *)
LEMMA AgentEffect ==
    ASSUME IInv, NEW a \in Agents, AgentAct(a)
    PROVE  /\ \A b \in Agents \ {a} : pc'[b] = pc[b] /\ call'[b] = call[b] /\ sess'[b] = sess[b]
           /\ \A s \in Sids : proc[s] # "unborn" => proc'[s] # "unborn" /\ key'[s] = key[s]
           /\ \A s \in Sids : proc'[s] = "running" => proc[s] = "running" \/ StartProcess(a)
           /\ \A b \in Agents \ {a}, s \in Sids : qlock[s] = b => qlock'[s] = b
           /\ \A b \in Agents \ {a} :
                IF Starting(b) THEN Starting(b)' /\ UNCHANGED <<table, keyed>> ELSE ~Starting(b)'
<1> USE DEF TypeOK, Returns, Goto, registry, pipes, process, locals, Starting
<1>0. TypeOK /\ Flow(a)
  BY DEF IInv
<1>1. CASE (\E q \in Requests : Call(a, q)) \/ Reuse(a) \/ Find(a) \/ Withdraw(a)
  BY <1>0, <1>1, NoneIsNobody DEF Call, Reuse, Find, Withdraw
<1>2. CASE StartProcess(a)
  <2>1. PICK s \in Sids : proc[s] = "unborn" /\ Spawn(a, s)
    BY <1>2 DEF StartProcess
  <2>2. rlock = None /\ rlock' = a /\ qlock' = qlock
    BY <1>2 DEF StartProcess
  <2>3. \A b \in Agents \ {a} : pc'[b] = pc[b] /\ call'[b] = call[b] /\ sess'[b] = sess[b]
    BY <1>0, <2>1 DEF Spawn
  <2>4. \A t \in Sids : proc[t] # "unborn" => proc'[t] # "unborn" /\ key'[t] = key[t]
    BY <1>0, <2>1 DEF Spawn
  <2> QED
    BY <1>2, <2>2, <2>3, <2>4, NoneIsNobody
<1>3. CASE Stop(a)
  BY <1>0, <1>3, NoneIsNobody DEF Stop, Kills
<1>4. CASE Enter(a)
  BY <1>0, <1>4, NoneIsNobody DEF Enter
<1>5. ASSUME NEW ok \in BOOLEAN, Ends(a, ok), pc[a] \in Transaction
      PROVE  /\ \A b \in Agents \ {a} : pc'[b] = pc[b] /\ call'[b] = call[b] /\ sess'[b] = sess[b]
             /\ \A b \in Agents \ {a}, s \in Sids : qlock[s] = b => qlock'[s] = b
             /\ \A b \in Agents \ {a} :
                  IF Starting(b) THEN Starting(b)' /\ UNCHANGED <<table, keyed>> ELSE ~Starting(b)'
  <2>1. CASE Starting(a)
    BY <1>0, <1>5, <2>1, NoneIsNobody DEF Ends
  <2>2. CASE ~Starting(a)
    BY <1>0, <1>5, <2>2, NoneIsNobody DEF Ends
  <2> QED
    BY <2>1, <2>2
<1>6. CASE Write(a)
  <2>1. CASE Running(sess[a]) /\ Goto(a, "poll") /\ UNCHANGED <<registry, rlock, qlock, locals>>
    BY <1>0, <1>6, <2>1 DEF Write
  <2>2. CASE Ends(a, FALSE)
    BY <1>0, <1>5, <1>6, <2>2 DEF Write, Transaction
  <2> QED
    BY <1>6, <2>1, <2>2 DEF Write
<1>7. CASE Poll(a)
  <2>1. CASE Running(sess[a]) /\ Goto(a, "read") /\ UNCHANGED <<registry, rlock, qlock, locals>>
    BY <1>0, <1>7, <2>1 DEF Poll
  <2>2. CASE Ends(a, FALSE)
    BY <1>0, <1>5, <1>7, <2>2 DEF Poll, Transaction
  <2> QED
    BY <1>7, <2>1, <2>2 DEF Poll
<1>8. CASE ReadLine(a)
  BY <1>0, <1>8 DEF ReadLine
<1>9. CASE ReadEof(a)
  BY <1>0, <1>5, <1>9 DEF ReadEof, Transaction
<1>10. CASE ReadTimeout(a)
  <2>1. \A s \in Sids : /\ proc[s] # "unborn" => proc'[s] # "unborn" /\ key'[s] = key[s]
                        /\ proc'[s] = "running" => proc[s] = "running"
    BY <1>0, <1>10 DEF ReadTimeout, Kills
  <2> QED
    BY <1>0, <1>5, <1>10, <2>1 DEF ReadTimeout, Transaction
<1>11. CASE Settle(a)
  BY <1>0, <1>5, <1>11 DEF Settle, Transaction
<1> QED
  BY <1>1, <1>2, <1>3, <1>4, <1>6, <1>7, <1>8, <1>9, <1>10, <1>11
     DEF AgentAct, AgentStep, UseRegistry, Exchange

LEMMA OthersFlow ==
    ASSUME IInv, NEW a \in Agents, AgentAct(a), NEW b \in Agents \ {a}
    PROVE  Flow(b)'
<1>1. Flow(b) /\ TypeOK
  BY DEF IInv
<1>2. /\ pc'[b] = pc[b] /\ call'[b] = call[b] /\ sess'[b] = sess[b]
      /\ \A s \in Sids : proc[s] # "unborn" => proc'[s] # "unborn" /\ key'[s] = key[s]
      /\ \A s \in Sids : qlock[s] = b => qlock'[s] = b
      /\ IF Starting(b) THEN Starting(b)' /\ UNCHANGED <<table, keyed>> ELSE ~Starting(b)'
  BY AgentEffect
<1> QED
  BY <1>1, <1>2 DEF Flow, Transaction

(* The step of an agent keeps what is said of this agent.                  *)
LEMMA OwnFlow ==
    ASSUME IInv, NEW a \in Agents, AgentAct(a)
    PROVE  Flow(a)'
<1> USE DEF TypeOK, Returns, Goto, Flow, registry, pipes, process, locals, Starting, Running
<1>0. TypeOK /\ Flow(a) /\ Registered
  BY DEF IInv
<1>1. ASSUME NEW q \in Requests, Call(a, q)
      PROVE  Flow(a)'
  BY <1>0, <1>1, RequestType DEF Call, Transaction
<1>2. CASE Reuse(a)
  <2>1. keyed[call[a].db] \in Sids
    BY <1>0, <1>2, RequestType DEF Reuse
  <2> QED
    BY <1>0, <1>2, <2>1, NoneIsNobody DEF Reuse, Transaction
<1>3. CASE StartProcess(a)
  <2>1. PICK s \in Sids : proc[s] = "unborn" /\ Spawn(a, s)
    BY <1>3 DEF StartProcess
  <2>2. s \notin table /\ table' \subseteq table
    BY <1>0, <1>3, <2>1 DEF Registered, StartProcess, Forget
  <2>3. call[a].db \in Dbs => keyed'[call[a].db] = None
    BY <1>0, <1>3, NoneIsNobody DEF StartProcess, Forget
  <2>4. call[a] \in Requests /\ call[a].db \in Dbs \cup {None}
    BY <1>0, <1>3, RequestType DEF StartProcess
  <2>5. sess'[a] = s /\ proc'[s] = "running" /\ key'[s] = call[a].db /\ pc'[a] = "poll"
        /\ call' = call /\ rlock' = a
    BY <1>0, <1>3, <2>1 DEF StartProcess, Spawn
  <2> QED
    BY <1>0, <1>3, <2>2, <2>3, <2>4, <2>5 DEF StartProcess, Transaction
<1>4. CASE Find(a) \/ Withdraw(a)
  <2>1. call[a] \in Requests /\ \A s \in table : proc[s] # "unborn"
    BY <1>0, <1>4 DEF Find, Withdraw, Registered
  <2>2. CASE Find(a)
    BY <1>0, <2>1, <2>2, NoneIsNobody DEF Find, Transaction
  <2>3. CASE Withdraw(a)
    <3>1. \/ pc'[a] = "stop" /\ sess'[a] \in Sids /\ proc'[sess'[a]] # "unborn"
          \/ pc'[a] = "idle" /\ sess'[a] = None
      BY <1>0, <2>1, <2>3 DEF Withdraw
    <3>2. call' = call /\ rlock' # a
      BY <1>0, <2>3, NoneIsNobody DEF Withdraw
    <3> QED
      BY <1>0, <2>1, <3>1, <3>2 DEF Transaction
  <2> QED
    BY <1>4, <2>2, <2>3
<1>5. CASE Stop(a)
  BY <1>0, <1>5 DEF Stop, Transaction
<1>6. CASE Enter(a)
  BY <1>0, <1>6 DEF Enter, Transaction
<1>7. ASSUME NEW ok \in BOOLEAN, Ends(a, ok), pc[a] \in Transaction,
             \A s \in Sids : proc[s] # "unborn" => proc'[s] # "unborn"
      PROVE  Flow(a)'
  <2>1. rlock' # a /\ pc'[a] \in {"idle", "enter"} /\ call' = call
        /\ (pc'[a] = "idle" => sess'[a] = None) /\ (pc'[a] = "enter" => sess'[a] = sess[a])
    BY <1>0, <1>7, NoneIsNobody DEF Ends
  <2> QED
    BY <1>0, <1>7, <2>1 DEF Transaction
<1>8. CASE Write(a)
  <2>1. CASE Running(sess[a]) /\ Goto(a, "poll") /\ UNCHANGED <<registry, rlock, qlock, locals>>
    BY <1>0, <1>8, <2>1 DEF Write, Transaction
  <2>2. CASE Ends(a, FALSE)
    BY <1>0, <1>7, <1>8, <2>2 DEF Write, Transaction
  <2> QED
    BY <1>8, <2>1, <2>2 DEF Write
<1>9. CASE Poll(a)
  <2>1. CASE Running(sess[a]) /\ Goto(a, "read") /\ UNCHANGED <<registry, rlock, qlock, locals>>
    BY <1>0, <1>9, <2>1 DEF Poll, Transaction
  <2>2. CASE Ends(a, FALSE)
    BY <1>0, <1>7, <1>9, <2>2 DEF Poll, Transaction
  <2> QED
    BY <1>9, <2>1, <2>2 DEF Poll
<1>10. CASE ReadLine(a)
  BY <1>0, <1>10 DEF ReadLine, Transaction
<1>11. CASE ReadEof(a) \/ Settle(a)
  BY <1>0, <1>7, <1>11 DEF ReadEof, Settle, Transaction
<1>12. CASE ReadTimeout(a)
  <2>1. \A s \in Sids : proc[s] # "unborn" => proc'[s] # "unborn"
    BY <1>0, <1>12 DEF ReadTimeout, Kills
  <2> QED
    BY <1>0, <1>7, <1>12, <2>1 DEF ReadTimeout, Transaction
<1> QED
  BY <1>1, <1>2, <1>3, <1>4, <1>5, <1>6, <1>8, <1>9, <1>10, <1>11, <1>12
     DEF AgentAct, AgentStep, UseRegistry, Exchange

-----------------------------------------------------------------------------

(* A started session is registered only while nobody else can change the   *)
(* registry, and then no other session of its database is registered.      *)
LEMMA RegistryStep ==
    ASSUME IInv, NEW a \in Agents, AgentAct(a)
    PROVE  Registered'
<1> USE DEF TypeOK, Returns, Goto, Registered, registry, pipes, process, locals, Starting, Running
<1>0. TypeOK /\ Flow(a) /\ Registered
  BY DEF IInv
<1>1. CASE (\E q \in Requests : Call(a, q)) \/ Reuse(a) \/ Find(a) \/ Enter(a) \/ ReadLine(a)
  BY <1>0, <1>1 DEF Call, Reuse, Find, Enter, ReadLine
<1>2. ASSUME NEW t \in Sids, Forget(t), \A s \in table : proc'[s] # "unborn" /\ key'[s] = key[s]
      PROVE  Registered'
  BY <1>0, <1>2, NoneIsNobody DEF Forget
<1>3. CASE StartProcess(a)
  <2>1. \A s \in table : proc'[s] # "unborn" /\ key'[s] = key[s]
    BY <1>0, <1>3 DEF StartProcess, Spawn
  <2>2. CASE call[a].db # None /\ keyed[call[a].db] # None
    <3>1. keyed[call[a].db] \in Sids /\ Forget(keyed[call[a].db])
      BY <1>0, <1>3, <2>2, RequestType DEF StartProcess, Flow
    <3> QED
      BY <1>2, <2>1, <3>1
  <2>3. CASE ~(call[a].db # None /\ keyed[call[a].db] # None)
    BY <1>0, <1>3, <2>1, <2>3, NoneIsNobody DEF StartProcess
  <2> QED
    BY <2>2, <2>3
<1>4. CASE Withdraw(a)
  BY <1>0, <1>2, <1>4 DEF Withdraw
<1>5. CASE Stop(a)
  BY <1>0, <1>5 DEF Stop, Kills, Flow
<1>6. ASSUME NEW ok \in BOOLEAN, Ends(a, ok), pc[a] \in Transaction,
             \A s \in Sids : proc[s] # "unborn" => proc'[s] # "unborn" /\ key'[s] = key[s]
      PROVE  Registered'
  <2>1. CASE UNCHANGED registry
    BY <1>0, <1>6, <2>1, NoneIsNobody
  <2>2. CASE Starting(a) /\ Registers(a, sess[a])
    <3>1. /\ sess[a] \in Sids /\ proc[sess[a]] # "unborn" /\ key[sess[a]] \in Dbs \cup {None}
          /\ key[sess[a]] # None => keyed[key[sess[a]]] = None
      BY <1>0, <1>6, <2>2 DEF Flow
    <3> QED
      BY <1>0, <1>6, <2>2, <3>1, NoneIsNobody DEF Registers
  <2> QED
    BY <1>6, <2>1, <2>2 DEF Ends
<1>7. CASE Write(a) \/ Poll(a)
  BY <1>0, <1>6, <1>7 DEF Write, Poll, Transaction
<1>8. CASE ReadEof(a) \/ Settle(a)
  BY <1>0, <1>6, <1>8 DEF ReadEof, Settle, Transaction
<1>9. CASE ReadTimeout(a)
  <2>1. \A s \in Sids : proc[s] # "unborn" => proc'[s] # "unborn" /\ key'[s] = key[s]
    BY <1>0, <1>9 DEF ReadTimeout, Kills
  <2> QED
    BY <1>0, <1>6, <1>9, <2>1 DEF ReadTimeout, Transaction
<1> QED
  BY <1>1, <1>3, <1>4, <1>5, <1>7, <1>8, <1>9
     DEF AgentAct, AgentStep, UseRegistry, Exchange

(* A process loses its place in the table only when it has exited or is    *)
(* about to be stopped, and a start that fails leaves none behind.         *)
LEMMA OrphanStep ==
    ASSUME IInv, NEW a \in Agents, AgentAct(a)
    PROVE  NoOrphans'
<1> USE DEF TypeOK, Returns, Goto, registry, pipes, process, locals, Starting, Running
<1>0. TypeOK /\ Flow(a) /\ Registered /\ NoOrphans
  BY DEF IInv
<1> DEFINE Used(s, b) == sess[b] = s /\ (Starting(b) \/ pc[b] = "stop")
<1>1. \A b \in Agents \ {a}, s \in Sids : Used(s, b) => Used(s, b)'
  BY AgentEffect
<1>2. ASSUME \A s \in Sids : proc'[s] = "running" => proc[s] = "running",
             table' \subseteq Sids,
             \A s \in Sids : proc'[s] = "running" /\ s \in table => s \in table' \/ Used(s, a)',
             \A s \in Sids : proc'[s] = "running" /\ Used(s, a) => s \in table' \/ Used(s, a)'
      PROVE  NoOrphans'
  <2>1. SUFFICES ASSUME NEW s \in Sids, proc'[s] = "running", s \notin table'
                 PROVE  \E b \in Agents : Used(s, b)'
    BY DEF NoOrphans
  <2>2. s \in table \/ \E b \in Agents : Used(s, b)
    BY <1>0, <1>2, <2>1, NoneIsNobody DEF NoOrphans
  <2>3. CASE s \in table
    BY <1>2, <2>1, <2>3
  <2>4. ASSUME NEW b \in Agents, Used(s, b)
        PROVE  \E d \in Agents : Used(s, d)'
    BY <1>1, <1>2, <2>1, <2>4
  <2> QED
    BY <2>2, <2>3, <2>4
<1>3. CASE (\E q \in Requests : Call(a, q)) \/ Reuse(a) \/ Find(a) \/ Enter(a) \/ ReadLine(a)
  BY <1>0, <1>2, <1>3, NoneIsNobody DEF Call, Reuse, Find, Enter, ReadLine
<1>4. CASE StartProcess(a)
  <2>1. PICK t \in Sids : Spawn(a, t)
    BY <1>4 DEF StartProcess
  <2>2. Used(t, a)' /\ \A s \in Sids \ {t} : proc'[s] = proc[s]
    BY <1>0, <1>4, <2>1 DEF StartProcess, Spawn
  <2>3. \A s \in table : proc[s] = "running" => s \in table'
    BY <1>0, <1>4 DEF StartProcess, Forget
  <2>4. ~\E s \in Sids : Used(s, a)
    BY <1>0, <1>4, NoneIsNobody DEF StartProcess
  <2>5. SUFFICES ASSUME NEW s \in Sids \ {t}, proc[s] = "running", s \notin table'
                 PROVE  \E b \in Agents : Used(s, b)'
    BY <2>2 DEF NoOrphans
  <2>6. PICK b \in Agents : Used(s, b)
    BY <1>0, <2>3, <2>5, NoneIsNobody DEF NoOrphans
  <2> QED
    BY <1>1, <2>4, <2>6
<1>5. CASE Withdraw(a)
  BY <1>0, <1>2, <1>5, NoneIsNobody DEF Withdraw, Forget
<1>6. CASE Stop(a)
  BY <1>0, <1>2, <1>6 DEF Stop, Kills, Flow
<1>7. ASSUME NEW ok \in BOOLEAN, Ends(a, ok), pc[a] \in Transaction,
             \A s \in Sids : proc'[s] = "running" => proc[s] = "running",
             ok \/ ~proc'[sess[a]] = "running"
      PROVE  NoOrphans'
  <2>1. sess[a] \in Sids /\ pc[a] # "stop"
    BY <1>0, <1>7 DEF Flow, Transaction
  <2>2. table' \subseteq Sids /\ table \subseteq table'
    BY <1>0, <1>7, <2>1 DEF Ends, Registers
  <2>3. Starting(a) /\ proc'[sess[a]] = "running" => sess[a] \in table'
    BY <1>0, <1>7 DEF Ends, Registers
  <2> QED
    BY <1>2, <1>7, <2>1, <2>2, <2>3
<1>8. CASE Write(a) \/ Poll(a)
  <2>1. CASE Running(sess[a])
    BY <1>0, <1>2, <1>8, <2>1, NoneIsNobody DEF Write, Poll
  <2>2. CASE ~Running(sess[a])
    <3>1. Ends(a, FALSE) /\ pc[a] \in Transaction /\ proc' = proc /\ sess[a] \in Sids
      BY <1>0, <1>8, <2>2 DEF Write, Poll, Transaction, Flow
    <3> QED
      BY <1>7, <2>2, <3>1, NoneIsNobody
  <2> QED
    BY <2>1, <2>2
<1>9. CASE ReadEof(a)
  <2>1. Ends(a, FALSE) /\ pc[a] \in Transaction /\ proc' = proc /\ sess[a] \in Sids
        /\ ~proc[sess[a]] = "running"
    BY <1>0, <1>9, NoneIsNobody DEF ReadEof, Transaction, Flow
  <2> QED
    BY <1>7, <2>1
<1>10. CASE Settle(a)
  BY <1>0, <1>7, <1>10 DEF Settle, Transaction
<1>11. CASE ReadTimeout(a)
  <2>1. sess[a] \in Sids
    BY <1>0, <1>11 DEF ReadTimeout, Transaction, Flow
  <2>2. Ends(a, FALSE) /\ pc[a] \in Transaction /\ proc' = [proc EXCEPT ![sess[a]] = "exited"]
    BY <1>11 DEF ReadTimeout, Kills, Transaction
  <2> QED
    BY <1>0, <1>7, <2>1, <2>2
<1> QED
  BY <1>3, <1>4, <1>5, <1>6, <1>8, <1>9, <1>10, <1>11
     DEF AgentAct, AgentStep, UseRegistry, Exchange

(* A process step changes nothing that the registry or a call relies on.   *)
LEMMA ProcessKeeps ==
    ASSUME IInv, NEW s \in Sids, ProcessAct(s)
    PROVE  (\A a \in Agents : Flow(a))' /\ Registered' /\ NoOrphans'
<1>0. TypeOK /\ (\A a \in Agents : Flow(a)) /\ Registered /\ NoOrphans
  BY DEF IInv
<1>1. /\ UNCHANGED <<table, keyed, rlock, qlock, pc, call, sess, key>>
      /\ \A t \in Sids : /\ proc[t] # "unborn" => proc'[t] # "unborn"
                         /\ proc'[t] = "running" => proc[t] = "running"
  BY <1>0 DEF TypeOK, ProcessAct, Serve, GetLine, Report, Respond, Pump, Die, Keeps,
              registry, pipes, process, locals
<1>2. ASSUME NEW a \in Agents
      PROVE  Flow(a)'
  BY <1>0, <1>1, <1>2 DEF Flow, Transaction, Starting
<1>3. Registered'
  BY <1>0, <1>1 DEF Registered, TypeOK
<1>4. NoOrphans'
  BY <1>0, <1>1 DEF NoOrphans, Running, Starting
<1> QED
  BY <1>2, <1>3, <1>4

-----------------------------------------------------------------------------

LEMMA InvariantStep == IInv /\ [Next]_vars => IInv'
<1> SUFFICES ASSUME IInv, [Next]_vars PROVE IInv'
  OBVIOUS
<1>1. ASSUME NEW a \in Agents, AgentAct(a)
      PROVE  IInv'
  <2>1. \A b \in Agents : Flow(b)'
    BY <1>1, OwnFlow, OthersFlow
  <2> QED
    BY <1>1, <2>1, AgentTypes, RegistryStep, OrphanStep DEF IInv
<1>2. ASSUME NEW s \in Sids, ProcessAct(s)
      PROVE  IInv'
  BY <1>2, ProcessTypes, ProcessKeeps DEF IInv
<1>3. CASE UNCHANGED vars
  BY <1>3 DEF IInv, TypeOK, Flow, Registered, NoOrphans, Starting, Running, vars,
              registry, pipes, process, locals
<1> QED
  BY <1>1, <1>2, <1>3 DEF Next, AgentAct, ProcessAct

LEMMA InitInvariant == Init => IInv
<1> SUFFICES ASSUME Init PROVE IInv
  OBVIOUS
<1>1. TypeOK
  BY Empty, ServeAssumption DEF Init, TypeOK, Tags
<1>2. NoOrphans /\ Registered /\ \A a \in Agents : Flow(a)
  BY NoneIsNobody DEF Init, NoOrphans, Registered, Flow, Running, Starting, Transaction
<1> QED
  BY <1>1, <1>2 DEF IInv

(* The inductive invariant holds in every reachable state.                 *)
THEOREM ServeInvariant == Spec => []IInv
BY InitInvariant, InvariantStep, PTL DEF Spec

(* Every variable keeps its type; no stderr pipe holds more than it can.   *)
THEOREM ServeTypes == Spec => []TypeOK
BY ServeInvariant, PTL DEF IInv

(* _get_rtl_serve_session never registers two processes that run for one   *)
(* database, whatever dies, is stopped or is started in the meantime.      *)
THEOREM OneProcessPerDatabase == Spec => []OneServePerDb
<1>1. IInv => OneServePerDb
  BY DEF IInv, Registered, OneServePerDb
<1> QED
  BY <1>1, ServeInvariant, PTL

(* No start, stop, death or timeout leaves a process that runs and cannot  *)
(* be found any more.                                                      *)
THEOREM NoProcessIsLost == Spec => []NoOrphans
BY ServeInvariant, PTL DEF IInv

---------------------------------------------------------------------------
(* The protocol.                                                           *)

(* No command contains a newline; no command opens another database.       *)
OneLine == \A q \in Requests : q.cmd.lines = 1
NoOpen == \A q \in Requests : q.cmd.kind # "open"

-----------------------------------------------------------------------------

(* Who has a session: the call that starts it, of which no other call      *)
(* knows, or the one in its lock.                                          *)
Alone(a) ==
    /\ Starting(a) => \A b \in Agents \ {a} : sess[b] # sess[a]
    /\ \A s \in Sids : qlock[s] = a => pc[a] \in Transaction /\ sess[a] = s /\ ~Starting(a)

Clean(s) ==
    /\ stdin[s] = <<>> /\ busy[s] = None /\ stdout[s] = <<>>
    /\ errpipe[s] = <<>> /\ errbuf[s] = <<>>

InUse(s) == qlock[s] # None \/ \E a \in Agents : Starting(a) /\ sess[a] = s

Rest(s) ==
    /\ proc[s] = "exited" \/ InUse(s) \/ Clean(s)
    /\ proc[s] = "unborn" => Clean(s)

(* The diagnostics that are there are of the call, and k are to come.      *)
OwnErrors(a) ==
    /\ \A i \in 1 .. Len(errbuf[sess[a]]) : errbuf[sess[a]][i] = Tag(a)
    /\ \A i \in 1 .. Len(errpipe[sess[a]]) : errpipe[sess[a]][i] = Tag(a)
Missing(a, k) ==
    ~Starting(a) /\ call[a].cmd.kind = "ask" =>
        Len(errbuf[sess[a]]) + Len(errpipe[sess[a]]) + k = call[a].cmd.errors

(* Where the command is, or the response to it.                            *)
Asked(a) == LET s == sess[a] IN
    /\ Len(stdin[s]) = 1 /\ stdin[s][1].tag = Tag(a)
    /\ ~Starting(a) => stdin[s][1].kind = call[a].cmd.kind /\ stdin[s][1].errors = call[a].cmd.errors
    /\ busy[s] = None /\ stdout[s] = <<>> /\ errpipe[s] = <<>> /\ errbuf[s] = <<>>
    /\ got[a] = <<>>

Working(a) == LET s == sess[a] IN
    /\ stdin[s] = <<>> /\ stdout[s] = <<>> /\ got[a] = <<>>
    /\ busy[s].tag = Tag(a)
    /\ OwnErrors(a) /\ Missing(a, busy[s].errors)

Answered(a) == LET s == sess[a] IN
    /\ stdin[s] = <<>> /\ busy[s] = None
    /\ OwnErrors(a) /\ Missing(a, 0)
    /\ \/ /\ got[a] = <<>> /\ Len(stdout[s]) = 2
          /\ stdout[s][1].tag = Tag(a) /\ ~stdout[s][1].end /\ stdout[s][2].end
       \/ Len(got[a]) = 1 /\ got[a][1].tag = Tag(a) /\ Len(stdout[s]) = 1 /\ stdout[s][1].end

Died(a) == LET s == sess[a] IN
    /\ proc[s] = "exited" /\ stdin[s] = <<>> /\ busy[s] = None /\ stdout[s] = <<>>
    /\ got[a] = <<>>

Complete(a) == LET s == sess[a] IN
    /\ stdin[s] = <<>> /\ busy[s] = None /\ stdout[s] = <<>>
    /\ OwnErrors(a) /\ Missing(a, 0)
    /\ Len(got[a]) = 1 /\ got[a][1].tag = Tag(a)

Stage(a) ==
    /\ pc[a] \notin {"read", "settle"} => got[a] = <<>>
    /\ pc[a] = "write" => proc[sess[a]] = "exited" \/ Clean(sess[a])
    /\ pc[a] \in {"poll", "read"} => Asked(a) \/ Working(a) \/ Answered(a) \/ Died(a)
    /\ pc[a] = "settle" => Complete(a)

PInv == IInv /\ (\A a \in Agents : Alone(a) /\ Stage(a)) /\ (\A s \in Sids : Rest(s))

(* What a process has open, does and writes is of the database it was      *)
(* started with.                                                           *)
OfKey(s, d) == d \in {key[s], None}
FromKey(s) ==
    /\ OfKey(s, open[s])
    /\ proc[s] = "unborn" => open[s] = None
    /\ \A i \in 1 .. Len(stdin[s]) : stdin[s][i].kind # "open"
    /\ busy[s] # None /\ busy[s].kind = "open" => OfKey(s, busy[s].db)
    /\ \A i \in 1 .. Len(stdout[s]) : OfKey(s, stdout[s][i].db)

Answers(a) ==
    /\ \A i \in 1 .. Len(got[a]) : OfKey(sess[a], got[a][i].db)
    /\ pc[a] \in {"enter"} \cup Transaction /\ call[a].op = "trace" => key[sess[a]] = call[a].db

DInv == PInv /\ (\A s \in Sids : FromKey(s)) /\ (\A a \in Agents : Answers(a))
-----------------------------------------------------------------------------

SameChannel(s) ==
    /\ proc'[s] = proc[s] /\ key'[s] = key[s] /\ open'[s] = open[s] /\ busy'[s] = busy[s]
    /\ stdin'[s] = stdin[s] /\ stdout'[s] = stdout[s]
    /\ errpipe'[s] = errpipe[s] /\ errbuf'[s] = errbuf[s]

(* A call may touch a session it has, one that it withdrew and that no     *)
(* other call has, and one that it starts.                                 *)
Mine(a, s) ==
    \/ s = sess[a] /\ pc[a] \in Transaction
    \/ s = sess[a] /\ Stop(a)
    \/ proc[s] = "unborn" /\ StartProcess(a) /\ sess'[a] = s

(* How the step of an agent leaves the responses of others and the locks.  *)
Reach(a) ==
    /\ \A b \in Agents \ {a} : id'[b] = id[b] /\ got'[b] = got[b]
    /\ rlock # None => sess'[a] \in {sess[a], None}
    /\ \A b \in Agents \ {a}, s \in Sids : qlock'[s] = b => qlock[s] = b

LEMMA AgentReach ==
    ASSUME IInv, NEW a \in Agents, AgentAct(a)
    PROVE  Reach(a)
<1> USE DEF Reach, TypeOK, Returns, Goto, registry, pipes, process, locals
<1>0. TypeOK
  BY DEF IInv
<1>1. CASE (\E q \in Requests : Call(a, q)) \/ Reuse(a) \/ Find(a) \/ Withdraw(a)
  BY <1>0, <1>1 DEF Call, Reuse, Find, Withdraw
<1>2. CASE StartProcess(a)
  BY <1>0, <1>2 DEF StartProcess, Spawn
<1>3. CASE Stop(a) \/ Enter(a) \/ ReadLine(a)
  BY <1>0, <1>3, NoneIsNobody DEF Stop, Kills, Enter, ReadLine
<1>4. ASSUME NEW ok \in BOOLEAN, Ends(a, ok)
      PROVE  Reach(a)
  BY <1>0, <1>4, NoneIsNobody DEF Ends
<1>5. CASE Write(a) \/ Poll(a)
  BY <1>0, <1>4, <1>5 DEF Write, Poll
<1>6. CASE ReadEof(a) \/ ReadTimeout(a) \/ Settle(a)
  BY <1>4, <1>6 DEF ReadEof, ReadTimeout, Settle
<1> QED
  BY <1>1, <1>2, <1>3, <1>5, <1>6 DEF AgentAct, AgentStep, UseRegistry, Exchange

(* All that it touches is its own.                                         *)
LEMMA AgentTouches ==
    ASSUME IInv, NEW a \in Agents, AgentAct(a), NEW s \in Sids
    PROVE  SameChannel(s) \/ Mine(a, s)
<1> USE DEF SameChannel, Mine, Transaction, TypeOK, registry, pipes, process, locals
<1>0. TypeOK
  BY DEF IInv
<1>1. CASE (\E q \in Requests : Call(a, q)) \/ Reuse(a) \/ Find(a) \/ Withdraw(a) \/ Enter(a)
  BY <1>1 DEF Call, Reuse, Find, Withdraw, Enter
<1>2. CASE StartProcess(a)
  <2>1. PICK t \in Sids : proc[t] = "unborn" /\ Spawn(a, t)
    BY <1>2 DEF StartProcess
  <2>2. UNCHANGED <<stdin, stdout, errpipe, errbuf, open>>
    BY <1>2, <2>1 DEF StartProcess, Spawn
  <2>3. sess'[a] = t
    BY <1>0, <2>1 DEF Spawn
  <2>4. s # t => proc'[s] = proc[s] /\ key'[s] = key[s] /\ busy'[s] = busy[s]
    BY <1>0, <2>1 DEF Spawn
  <2> QED
    BY <1>2, <2>1, <2>2, <2>3, <2>4
<1>3. CASE Stop(a)
  BY <1>0, <1>3 DEF Stop, Kills
<1>4. CASE Write(a) \/ Poll(a) \/ ReadLine(a) \/ ReadEof(a)
  BY <1>0, <1>4 DEF Write, Poll, ReadLine, ReadEof
<1>5. CASE ReadTimeout(a) \/ Settle(a)
  BY <1>0, <1>5 DEF ReadTimeout, Settle, Kills
<1> QED
  BY <1>1, <1>2, <1>3, <1>4, <1>5 DEF AgentAct, AgentStep, UseRegistry, Exchange

(* Two calls do not have one session, and none has one that is stopped.    *)
LEMMA Exclusive ==
    ASSUME PInv, NEW a \in Agents, AgentAct(a), NEW b \in Agents \ {a}, pc[b] \in Transaction
    PROVE  ~Mine(a, sess[b])
<1>1. Flow(a) /\ Flow(b) /\ Alone(a) /\ Alone(b) /\ TypeOK
  BY DEF PInv, IInv
<1>2. sess[b] \in Sids /\ proc[sess[b]] # "unborn"
  BY <1>1 DEF Flow
<1>3. Starting(b) \/ qlock[sess[b]] = b
  BY <1>1 DEF Flow
<1>4. ASSUME sess[a] = sess[b], pc[a] \in Transaction
      PROVE  FALSE
  BY <1>1, <1>3, <1>4 DEF Flow, Alone
<1>5. ASSUME sess[a] = sess[b], Stop(a)
      PROVE  FALSE
  BY <1>1, <1>3, <1>5, NoneIsNobody DEF Stop, Alone
<1> QED
  BY <1>2, <1>4, <1>5 DEF Mine

(* What is said of a call depends on its own variables and its session.    *)
LEMMA StageStable ==
    ASSUME NEW b, Stage(b), pc[b] \in Transaction => SameChannel(sess[b]),
           pc'[b] = pc[b], call'[b] = call[b], sess'[b] = sess[b], id'[b] = id[b], got'[b] = got[b],
           Starting(b)' <=> Starting(b)
    PROVE  Stage(b)'
<1> DEFINE s == sess[b]
<1>1. CASE pc[b] \notin Transaction
  BY <1>1 DEF Stage, Transaction
<1>2. CASE pc[b] \in Transaction
  <2>0. SameChannel(s) /\ Tag(b)' = Tag(b)
    BY <1>2 DEF Tag
  <2> USE <2>0 DEF SameChannel
  <2>1. pc[b] = "write" => (proc[sess[b]] = "exited" \/ Clean(sess[b]))'
    BY DEF Stage, Clean
  <2>2. \A k : Missing(b, k) => Missing(b, k)'
    BY DEF Missing
  <2>3. OwnErrors(b) => OwnErrors(b)'
    BY DEF OwnErrors
  <2>4. Asked(b) => Asked(b)'
    BY DEF Asked
  <2>5. Working(b) => Working(b)'
    BY <2>3 DEF Working, Missing
  <2>6. Answered(b) => Answered(b)'
    BY <2>3 DEF Answered, Missing
  <2>7. Died(b) => Died(b)'
    BY DEF Died
  <2>8. Complete(b) => Complete(b)'
    BY <2>3 DEF Complete, Missing
  <2> QED
    BY <2>1, <2>4, <2>5, <2>6, <2>7, <2>8 DEF Stage
<1> QED
  BY <1>1, <1>2

(* The step of an agent keeps what is said of the others.                  *)
LEMMA OthersStage ==
    ASSUME PInv, NEW a \in Agents, AgentAct(a), NEW b \in Agents \ {a}
    PROVE  Alone(b)' /\ Stage(b)'
<1>1. IInv /\ Flow(b) /\ Alone(b) /\ Stage(b) /\ TypeOK
  BY DEF PInv, IInv
<1>2. /\ \A c \in Agents \ {a} : pc'[c] = pc[c] /\ call'[c] = call[c] /\ sess'[c] = sess[c]
      /\ Starting(b)' <=> Starting(b)
  BY <1>1, AgentEffect
<1>3. Reach(a)
  BY <1>1, AgentReach
<1>4. pc[b] \in Transaction => SameChannel(sess[b])
  <2>1. pc[b] \in Transaction => sess[b] \in Sids
    BY <1>1 DEF Flow
  <2> QED
    BY <1>1, <2>1, AgentTouches, Exclusive
<1>5. Stage(b)'
  BY <1>1, <1>2, <1>3, <1>4, StageStable DEF Reach
<1>6. Starting(b)' => sess'[a] # sess'[b]
  <2>1. Starting(b) => rlock # None /\ sess[b] \in Sids
    BY <1>1, NoneIsNobody DEF Starting, Flow, Transaction
  <2> QED
    BY <1>1, <1>2, <1>3, <2>1, NoneIsNobody DEF Reach, Alone
<1>7. Alone(b)'
  BY <1>1, <1>2, <1>3, <1>6 DEF Alone, Reach
<1> QED
  BY <1>5, <1>7

-----------------------------------------------------------------------------
(* The step of an agent keeps what is said of itself and of its session.   *)

(* At the end of a response the session has no user and nothing is read.   *)
LEMMA EndOfResponse ==
    ASSUME PInv, NEW a \in Agents, pc[a] \in Transaction, NEW ok \in BOOLEAN, Ends(a, ok)
    PROVE  Alone(a)' /\ Stage(a)'
<1>0. TypeOK /\ Alone(a) /\ Flow(a)
  BY DEF PInv, IInv
<1>1. pc'[a] \in {"idle", "enter"} /\ got'[a] = <<>> /\ rlock' # a
  BY <1>0, NoneIsNobody DEF Ends, TypeOK, Returns, Goto, Starting
<1>2. \A s \in Sids : qlock'[s] # a
  BY <1>0, NoneIsNobody DEF Ends, TypeOK, Alone
<1>3. Alone(a)'
  BY <1>1, <1>2 DEF Alone, Starting
<1>4. Stage(a)'
  BY <1>1 DEF Stage
<1> QED
  BY <1>3, <1>4

(* A step in the transaction that leaves the locks and the call.           *)
LEMMA StillAlone ==
    ASSUME PInv, NEW a \in Agents, AgentAct(a), pc'[a] \in Transaction,
           UNCHANGED <<rlock, qlock, sess>>
    PROVE  Alone(a)'
<1>1. Alone(a)
  BY DEF PInv
<1> QED
  BY <1>1 DEF Alone, Starting

(* A call writes its command to a process that is clean.                   *)
LEMMA WriteStage ==
    ASSUME PInv, OneLine, NEW a \in Agents, Write(a)
    PROVE  Alone(a)' /\ Stage(a)'
<1>0. TypeOK /\ Alone(a) /\ Flow(a) /\ Stage(a) /\ pc[a] \in Transaction /\ sess[a] \in Sids
  BY DEF PInv, IInv, Write, Flow, Transaction
<1>1. CASE ~Running(sess[a])
  BY <1>0, <1>1, EndOfResponse DEF Write
<1>2. CASE Running(sess[a])
  <2> DEFINE c == call[a].cmd
             line == [tag |-> id[a], kind |-> c.kind, db |-> c.db, errors |-> c.errors]
             s == sess[a]
  <2>1. c.lines = 1
    BY <1>0 DEF OneLine, Flow, Transaction
  <2>2. /\ stdin' = [stdin EXCEPT ![s] = @ \o [i \in 1 .. c.lines |-> line]]
        /\ pc' = [pc EXCEPT ![a] = "poll"]
        /\ UNCHANGED <<registry, rlock, qlock, locals, process, stdout, errpipe, errbuf>>
    BY <1>2 DEF Write, Goto, Ends
  <2>3. Clean(s)
    BY <1>0, <1>2 DEF Stage, Write, Running
  <2>4. ~Starting(a)
    BY <1>0 DEF Flow, Write
  <2>5. <<>> \o [i \in 1 .. 1 |-> line] = <<line>>
    OBVIOUS
  <2>6. stdin'[s] = <<line>>
    BY <1>0, <2>1, <2>2, <2>3, <2>5 DEF TypeOK, Clean
  <2>7. pc'[a] = "poll"
    BY <1>0, <2>2 DEF TypeOK
  <2>8. Asked(a)'
    <3>1. /\ sess' = sess /\ got' = got /\ call' = call /\ Tag(a)' = id[a] /\ ~Starting(a)'
          /\ busy' = busy /\ UNCHANGED <<stdout, errpipe, errbuf>>
      BY <2>2, <2>4 DEF Tag, Starting, locals, process
    <3>2. got[a] = <<>>
      BY <1>0 DEF Stage, Write
    <3>3. /\ Len(stdin'[s]) = 1 /\ stdin'[s][1].tag = id[a]
          /\ stdin'[s][1].kind = c.kind /\ stdin'[s][1].errors = c.errors
      BY <2>6
    <3> QED
      BY <2>3, <3>1, <3>2, <3>3 DEF Asked, Clean
  <2>9. Alone(a)'
    BY <1>0, <2>2, <2>7 DEF Alone, Starting, Transaction, locals
  <2> QED
    BY <2>7, <2>8, <2>9 DEF Stage, Asked
<1> QED
  BY <1>1, <1>2

(* It reads the body of the response, and then its end.                    *)
LEMMA ReadStage ==
    ASSUME PInv, NEW a \in Agents, ReadLine(a)
    PROVE  Alone(a)' /\ Stage(a)'
<1> DEFINE s == sess[a]
           line == Head(stdout[s])
<1>0. TypeOK /\ Alone(a) /\ Flow(a) /\ Stage(a) /\ s \in Sids /\ pc[a] = "read"
  BY DEF PInv, IInv, ReadLine, Flow, Transaction
<1>1. Answered(a)
  BY <1>0 DEF Stage, Asked, Working, Died, ReadLine
<1>2. /\ UNCHANGED <<rlock, qlock, process, stdin, errpipe, errbuf, call, id, sess>>
      /\ stdout' = [stdout EXCEPT ![s] = Tail(@)]
  BY DEF ReadLine
<1>3. stdout[s] \in Seq(Lines) /\ line = stdout[s][1] /\ stdout'[s] = Tail(stdout[s])
  BY <1>0, <1>1, <1>2 DEF TypeOK, Answered
<1>4. Tag(a)' = Tag(a) /\ (Starting(a)' <=> Starting(a))
  BY <1>2 DEF Tag, Starting
<1>5. OwnErrors(a)' /\ Missing(a, 0)' /\ stdin'[s] = <<>> /\ busy'[s] = None /\ sess'[a] = s
  BY <1>1, <1>2, <1>4 DEF Answered, OwnErrors, Missing, process
<1>6. CASE got[a] = <<>>
  <2>1. Len(stdout[s]) = 2 /\ line.tag = Tag(a) /\ ~line.end /\ stdout[s][2].end
    BY <1>1, <1>3, <1>6 DEF Answered
  <2>2. got' = [got EXCEPT ![a] = Append(@, line)] /\ pc' = pc
    BY <2>1 DEF ReadLine
  <2>3. got'[a] = <<line>>
    BY <1>0, <1>6, <2>2 DEF TypeOK
  <2>4. Len(stdout'[s]) = 1 /\ stdout'[s][1] = stdout[s][2]
    BY <1>3, <2>1
  <2>5. Answered(a)'
    BY <1>4, <1>5, <2>1, <2>3, <2>4 DEF Answered
  <2> QED
    BY <1>0, <1>2, <2>2, <2>5 DEF Stage, Alone, Starting
<1>7. CASE got[a] # <<>>
  <2>1. Len(got[a]) = 1 /\ got[a][1].tag = Tag(a) /\ Len(stdout[s]) = 1 /\ line.end
    BY <1>1, <1>3, <1>7 DEF Answered
  <2>2. pc' = [pc EXCEPT ![a] = "settle"] /\ got' = got
    BY <2>1 DEF ReadLine, Goto
  <2>3. stdout'[s] = <<>> /\ pc'[a] = "settle"
    <3>1. pc'[a] = "settle"
      BY <1>0, <2>2 DEF TypeOK
    <3>2. Tail(stdout[s]) = <<>>
      <4>1. Tail(stdout[s]) \in Seq(Lines) /\ Len(Tail(stdout[s])) = 0
        BY <1>3, <2>1
      <4> QED
        BY <4>1, EmptySeq
    <3> QED
      BY <1>3, <3>1, <3>2
  <2>4. Complete(a)'
    BY <1>4, <1>5, <2>1, <2>2, <2>3 DEF Complete
  <2> QED
    BY <1>0, <1>2, <2>3, <2>4 DEF Stage, Alone, Starting, Transaction
<1> QED
  BY <1>6, <1>7

(* A process that starts works on its banner, for the call that started it.*)
LEMMA StartStage ==
    ASSUME PInv, NEW a \in Agents, StartProcess(a)
    PROVE  Alone(a)' /\ Stage(a)'
<1>0. /\ TypeOK /\ Alone(a) /\ Flow(a) /\ Stage(a) /\ pc[a] = "get"
      /\ \A b \in Agents : Flow(b) /\ Alone(b)
  BY DEF PInv, IInv, StartProcess
<1>1. PICK s \in Sids : proc[s] = "unborn" /\ Spawn(a, s)
  BY DEF StartProcess
<1>2. Clean(s)
  BY <1>1 DEF PInv, Rest
<1>3. rlock' = a /\ UNCHANGED <<qlock, pipes, errbuf, open, call, id, got>>
  BY <1>1 DEF StartProcess, Spawn
<1>4. sess' = [sess EXCEPT ![a] = s] /\ sess'[a] = s /\ pc' = [pc EXCEPT ![a] = "poll"] /\ pc'[a] = "poll"
  BY <1>0, <1>1 DEF Spawn, TypeOK, Goto
<1>5. busy'[s].tag = Banner
  <2> DEFINE first == [tag |-> Banner, kind |-> "open", db |-> call[a].db, errors |-> 0]
  <2>1. PICK line \in Outcomes(first) : busy' = [busy EXCEPT ![s] = line]
    BY <1>1 DEF Spawn
  <2>2. first \in Work
    BY <1>0, RequestType, ServeAssumption DEF Work, Tags, Banner, Flow
  <2>3. line \in Work /\ line.tag = Banner
    BY <2>1, <2>2, OutcomeType
  <2> QED
    BY <1>0, <2>1, <2>3 DEF TypeOK
<1>6. Working(a)'
  <2>1. /\ stdin'[s] = <<>> /\ stdout'[s] = <<>> /\ errpipe'[s] = <<>> /\ errbuf'[s] = <<>>
        /\ got'[a] = <<>> /\ Len(<<>>) = 0
    BY <1>0, <1>2, <1>3 DEF Clean, Stage, pipes
  <2>2. Starting(a)' /\ Tag(a)' = Banner
    BY <1>3 DEF Starting, Tag
  <2>3. OwnErrors(a)' /\ Missing(a, busy[sess[a]].errors)'
    BY <1>4, <2>1, <2>2 DEF OwnErrors, Missing
  <2> QED
    BY <1>4, <1>5, <2>1, <2>2, <2>3 DEF Working
<1>7. Stage(a)'
  BY <1>4, <1>6 DEF Stage, Working
<1>8. \A b \in Agents \ {a} : sess'[b] # s
  <2>1. \A b \in Agents : sess[b] = None \/ proc[sess[b]] # "unborn"
    BY <1>0, ZenonT(40) DEF Flow, TypeOK, Transaction
  <2>2. \A b \in Agents \ {a} : sess'[b] = sess[b]
    BY <1>0, <1>4 DEF TypeOK
  <2> QED
    BY <1>1, <2>1, <2>2, NoneIsNobody
<1>9. \A t \in Sids : qlock'[t] # a
  BY <1>0, <1>3 DEF Alone, Transaction
<1> QED
  BY <1>4, <1>7, <1>8, <1>9 DEF Alone

(* Each step of a call keeps what is said of it.                           *)
LEMMA OwnStage ==
    ASSUME PInv, OneLine, NEW a \in Agents, AgentAct(a)
    PROVE  Alone(a)' /\ Stage(a)'
<1>0. TypeOK /\ Alone(a) /\ Flow(a) /\ Stage(a)
  BY DEF PInv, IInv
<1>1. CASE (\E q \in Requests : Call(a, q)) \/ Reuse(a) \/ Find(a) \/ Withdraw(a) \/ Stop(a)
  <2>1. pc'[a] \in {"idle", "get", "find", "stop", "enter"} /\ got'[a] = <<>>
    BY <1>0, <1>1 DEF Call, Reuse, Find, Withdraw, Stop, Stage, TypeOK, Returns, Goto, locals
  <2>2. pc[a] \notin Transaction /\ qlock' = qlock /\ rlock' = rlock /\ ~Starting(a)
    BY <1>0, <1>1 DEF Call, Reuse, Find, Withdraw, Stop, Flow, Transaction
  <2> QED
    BY <1>0, <2>1, <2>2 DEF Alone, Stage, Starting
<1>2. CASE StartProcess(a)
  BY <1>2, StartStage
<1>3. CASE Enter(a)
  <2>1. /\ sess[a] \in Sids /\ ~Starting(a) /\ qlock[sess[a]] = None /\ proc[sess[a]] # "unborn"
        /\ \A s \in Sids : qlock[s] # a
    BY <1>0, <1>3 DEF Enter, Flow, Alone, Transaction
  <2>2. /\ qlock' = [qlock EXCEPT ![sess[a]] = a] /\ pc' = [pc EXCEPT ![a] = "write"]
        /\ UNCHANGED <<rlock, process, pipes, errbuf, locals>>
    BY <1>3 DEF Enter, Goto
  <2>3. \A b \in Agents : Starting(b) => sess[b] # sess[a]
    BY <2>1 DEF PInv, Alone
  <2>4. proc[sess[a]] = "exited" \/ Clean(sess[a])
    BY <2>1, <2>3, NoneIsNobody DEF PInv, Rest, InUse
  <2>5. pc'[a] = "write" /\ got'[a] = <<>>
    BY <1>0, <1>3, <2>2 DEF TypeOK, Stage, Enter, locals
  <2>6. Stage(a)'
    BY <2>2, <2>4, <2>5 DEF Stage, Clean, process, pipes, locals
  <2>7. Alone(a)'
    BY <1>0, <2>1, <2>2, <2>5 DEF Alone, Starting, Transaction, locals, TypeOK
  <2> QED
    BY <2>6, <2>7
<1>4. CASE Write(a)
  BY <1>4, WriteStage
<1>5. CASE Poll(a)
  <2>1. CASE Running(sess[a]) /\ Goto(a, "read") /\ UNCHANGED <<registry, rlock, qlock, locals>>
    <3>1. pc'[a] = "read" /\ pc[a] = "poll"
      BY <1>0, <1>5, <2>1 DEF TypeOK, Goto, Poll
    <3>2. UNCHANGED <<process, pipes, errbuf, rlock, qlock, locals>>
      BY <1>5, <2>1 DEF Poll
    <3>3. Asked(a)' \/ Working(a)' \/ Answered(a)' \/ Died(a)'
      BY <1>0, <3>1, <3>2 DEF Stage, Asked, Working, Answered, Died, OwnErrors, Missing, Tag, Starting,
                              process, pipes, locals
    <3> QED
      BY <1>0, <3>1, <3>2, <3>3 DEF Stage, Alone, Starting, Transaction, locals
  <2>2. CASE ~Running(sess[a]) /\ Ends(a, FALSE)
    BY <1>5, <2>2, EndOfResponse DEF Poll, Transaction
  <2> QED
    BY <1>5, <2>1, <2>2 DEF Poll
<1>6. CASE ReadLine(a)
  BY <1>6, ReadStage
<1>7. CASE ReadEof(a) \/ ReadTimeout(a) \/ Settle(a)
  BY <1>7, EndOfResponse DEF ReadEof, ReadTimeout, Settle, Transaction
<1> QED
  BY <1>1, <1>2, <1>3, <1>4, <1>5, <1>6, <1>7 DEF AgentAct, AgentStep, UseRegistry, Exchange

-----------------------------------------------------------------------------

(* A transaction leaves a session clean, or its process has exited.        *)
LEMMA OwnRest ==
    ASSUME PInv, OneLine, NEW a \in Agents, AgentAct(a), NEW s \in Sids, Mine(a, s)
    PROVE  Rest(s)'
<1>0. TypeOK /\ Alone(a) /\ Flow(a) /\ Stage(a) /\ IInv
  BY DEF PInv, IInv
<1>1. CASE Stop(a)
  <2>1. s = sess[a] /\ proc' = [proc EXCEPT ![s] = "exited"]
    BY <1>0, <1>1 DEF Mine, Stop, Kills, Transaction, StartProcess
  <2> QED
    BY <1>0, <2>1 DEF Rest, TypeOK
<1>2. CASE StartProcess(a)
  <2>1. pc[a] = "get" /\ rlock' = a /\ sess'[a] = s
    BY <1>2 DEF StartProcess, Mine, Transaction, Stop
  <2>2. PICK t \in Sids : Spawn(a, t)
    BY <1>2 DEF StartProcess
  <2>3. t = s /\ proc'[s] = "running"
    BY <1>0, <2>1, <2>2 DEF Spawn, TypeOK
  <2> QED
    BY <2>1, <2>3 DEF Rest, InUse, Starting
<1>3. CASE s = sess[a] /\ pc[a] \in Transaction
  <2>0. proc[s] # "unborn" /\ proc'[s] # "unborn"
    BY <1>0, <1>3, AgentEffect DEF Flow
  <2>1. ASSUME UNCHANGED <<rlock, qlock, sess>>
        PROVE  Rest(s)'
    <3>1. InUse(s)'
      BY <1>0, <1>3, <2>1, NoneIsNobody DEF Flow, InUse, Starting
    <3> QED
      BY <2>0, <3>1 DEF Rest
  <2>2. ASSUME ~Running(s), proc' = proc
        PROVE  Rest(s)'
    BY <1>0, <2>0, <2>2, NoneIsNobody DEF Rest, Running, TypeOK
  <2>3. CASE Write(a) \/ Poll(a)
    <3>1. proc' = proc
      BY <2>3 DEF Write, Poll, process
    <3>2. Running(s) => UNCHANGED <<rlock, qlock, sess>>
      BY <1>3, <2>3 DEF Write, Poll, locals
    <3> QED
      BY <2>1, <2>2, <3>1, <3>2
  <2>4. CASE ReadLine(a)
    BY <2>1, <2>4 DEF ReadLine
  <2>5. CASE ReadEof(a)
    BY <1>3, <2>2, <2>5 DEF ReadEof, process
  <2>6. CASE ReadTimeout(a)
    <3>1. proc'[s] = "exited"
      BY <1>0, <1>3, <2>6 DEF ReadTimeout, Kills, TypeOK
    <3> QED
      BY <3>1 DEF Rest
  <2>7. CASE Settle(a)
    <3>1. Clean(s)'
      BY <1>0, <1>3, <2>7 DEF Settle, Stage, Complete, Clean, TypeOK, process, pipes
    <3> QED
      BY <3>1 DEF Rest
  <2> QED
    BY <1>3, <2>3, <2>4, <2>5, <2>6, <2>7
       DEF AgentAct, AgentStep, UseRegistry, Exchange, Transaction,
           Call, Reuse, StartProcess, Find, Withdraw, Stop, Enter
<1> QED
  BY <1>1, <1>2, <1>3 DEF Mine

(* A session that the step does not touch stays clean, or in use.          *)
LEMMA OtherRest ==
    ASSUME PInv, NEW a \in Agents, AgentAct(a), NEW s \in Sids, ~Mine(a, s)
    PROVE  Rest(s)'
<1>0. TypeOK /\ Alone(a) /\ Flow(a) /\ IInv /\ Rest(s)
  BY DEF PInv, IInv
<1>1. SameChannel(s)
  BY <1>0, AgentTouches
<1>2. ASSUME InUse(s)
      PROVE  InUse(s)'
  <2>1. qlock[s] # a /\ ~(Starting(a) /\ sess[a] = s)
    BY <1>0 DEF Mine, Alone, Flow, Transaction
  <2>2. CASE qlock[s] # None
    <3>1. qlock[s] \in Agents \ {a}
      BY <1>0, <2>1, <2>2 DEF TypeOK
    <3> QED
      BY <1>0, <3>1, AgentEffect, NoneIsNobody DEF InUse
  <2>3. ASSUME NEW b \in Agents, Starting(b), sess[b] = s
        PROVE  InUse(s)'
    <3>1. b \in Agents \ {a}
      BY <2>1, <2>3
    <3> QED
      BY <1>0, <2>3, <3>1, AgentEffect DEF InUse
  <2> QED
    BY <1>2, <2>2, <2>3 DEF InUse
<1> QED
  BY <1>0, <1>1, <1>2 DEF Rest, SameChannel, Clean

-----------------------------------------------------------------------------
(* The step of a process keeps what is said of the call that has it.       *)

(* Diagnostics of one call, put together.                                  *)
LEMMA Joined ==
    ASSUME NEW S, NEW e \in Seq(S), NEW p \in Seq(S), NEW t
    PROVE  /\ Len(e \o p) = Len(e) + Len(p) /\ Len(e) \in Nat /\ Len(p) \in Nat
           /\ (\A i \in 1 .. Len(e) : e[i] = t) /\ (\A i \in 1 .. Len(p) : p[i] = t)
                => \A i \in 1 .. Len(e \o p) : (e \o p)[i] = t
<1>1. /\ Len(e \o p) = Len(e) + Len(p) /\ Len(e) \in Nat /\ Len(p) \in Nat
      /\ \A i \in 1 .. Len(e) + Len(p) : (e \o p)[i] = IF i <= Len(e) THEN e[i] ELSE p[i - Len(e)]
  BY ConcatProperties
<1>2. ASSUME \A i \in 1 .. Len(e) : e[i] = t, \A i \in 1 .. Len(p) : p[i] = t, NEW i \in 1 .. Len(e \o p)
      PROVE  (e \o p)[i] = t
  <2>1. CASE i <= Len(e)
    BY <1>1, <1>2, <2>1
  <2>2. CASE i > Len(e)
    <3>1. i - Len(e) \in 1 .. Len(p) /\ ~(i <= Len(e))
      BY <1>1, <2>2
    <3> QED
      BY <1>1, <1>2, <3>1
  <2> QED
    BY <1>1, <2>1, <2>2
<1> QED
  BY <1>1, <1>2

(* The pump loses no diagnostics.                                          *)
LEMMA Pumped ==
    ASSUME NEW S, NEW e \in Seq(S), NEW p \in Seq(S), NEW f, NEW g, f = e \o p, g = <<>>
    PROVE  Len(f) + Len(g) = Len(e) + Len(p)
<1>1. Len(e \o p) = Len(e) + Len(p) /\ Len(e) \in Nat /\ Len(p) \in Nat
  BY Joined
<1>2. Len(g) = 0
  BY EmptySeq
<1> QED
  BY <1>1, <1>2

(* A process takes from a pipe, or adds to one, only for that call.        *)
LEMMA ProcessStage ==
    ASSUME PInv, NEW s \in Sids, ProcessAct(s), NEW a \in Agents, pc[a] \in Transaction, sess[a] = s
    PROVE  Stage(a)'
<1>0. TypeOK /\ Stage(a) /\ proc[s] # "unborn"
  BY DEF PInv, IInv, Flow
<1>1. UNCHANGED <<rlock, qlock, pc, call, id, sess, got>>
  BY DEF ProcessAct, Serve, GetLine, Report, Respond, Pump, Die, Keeps, locals
<1>2. Tag(a)' = Tag(a) /\ (Starting(a)' <=> Starting(a))
  BY <1>1 DEF Tag, Starting
<1> USE DEF TypeOK
<1>3. CASE GetLine(s)
  <2>1. Asked(a) /\ pc[a] \in {"poll", "read"}
    BY <1>0, <1>3 DEF GetLine, Stage, Clean, Working, Answered, Died, Complete, Transaction
  <2>2. PICK line \in Outcomes(Head(stdin[s])) : busy' = [busy EXCEPT ![s] = line]
    BY <1>3 DEF GetLine
  <2>3. /\ stdin' = [stdin EXCEPT ![s] = Tail(@)]
        /\ UNCHANGED <<proc, stdout, errpipe, errbuf>>
    BY <1>3 DEF GetLine, Keeps
  <2>4. stdin[s] \in Seq(Work) /\ Len(stdin[s]) = 1 /\ Head(stdin[s]) = stdin[s][1] /\ stdin[s][1] \in Work
    <3>1. stdin[s] \in Seq(Work) /\ Len(stdin[s]) = 1
      BY <1>0, <2>1 DEF Asked
    <3> HIDE DEF TypeOK
    <3> QED
      BY <3>1
  <2>5. stdin'[s] = <<>>
    <3>1. Tail(stdin[s]) \in Seq(Work) /\ Len(Tail(stdin[s])) = 0
      BY <2>4
    <3>2. Tail(stdin[s]) = <<>>
      BY <3>1, EmptySeq
    <3> QED
      BY <1>0, <2>3, <3>2
  <2>6. busy'[s].tag = Tag(a)
    BY <1>0, <2>1, <2>2, <2>4, OutcomeType DEF Asked
  <2>7. ~Starting(a) /\ call[a].cmd.kind = "ask" => busy'[s] = stdin[s][1]
    <3>1. busy'[s] \in Outcomes(stdin[s][1])
      BY <1>0, <2>2, <2>4
    <3> HIDE DEF TypeOK
    <3> QED
      BY <2>1, <3>1 DEF Asked, Outcomes
  <2>8. ~Starting(a) /\ call[a].cmd.kind = "ask" => 0 + 0 + busy'[s].errors = call[a].cmd.errors
    BY <1>0, <2>1, <2>4, <2>7 DEF Asked, Work
  <2>9. /\ errbuf'[s] = <<>> /\ errpipe'[s] = <<>> /\ stdout'[s] = <<>> /\ got'[a] = <<>>
        /\ sess'[a] = s /\ call' = call /\ Len(<<>>) = 0
    BY <1>1, <2>1, <2>3 DEF Asked
  <2>10. OwnErrors(a)'
    BY <2>9 DEF OwnErrors
  <2>11. Missing(a, busy[sess[a]].errors)'
    BY <1>2, <2>8, <2>9 DEF Missing
  <2>12. Working(a)'
    BY <1>2, <2>5, <2>6, <2>9, <2>10, <2>11 DEF Working
  <2> QED
    BY <1>1, <2>1, <2>12 DEF Stage, Working
<1>4. CASE Report(s)
  <2>1. Working(a) /\ pc[a] \in {"poll", "read"}
    BY <1>0, <1>4, NoneIsNobody DEF Report, Stage, Clean, Asked, Answered, Died, Complete, Transaction
  <2>2. /\ errpipe' = [errpipe EXCEPT ![s] = Append(@, busy[s].tag)]
        /\ UNCHANGED <<proc, stdin, stdout, errbuf>>
    BY <1>4 DEF Report, Keeps
  <2>3. busy[s] \in Work /\ busy[s].errors \in Nat
    BY <1>0, <1>4 DEF Report, Work
  <2>4. busy'[s] = [busy[s] EXCEPT !.errors = @ - 1]
    BY <1>0, <1>4 DEF Report
  <2>5. busy'[s].tag = busy[s].tag /\ busy'[s].errors = busy[s].errors - 1
    BY <2>3, <2>4 DEF Work
  <2>6. errpipe'[s] = Append(errpipe[s], busy[s].tag) /\ errpipe[s] \in Seq(Tags) /\ errbuf[s] \in Seq(Tags)
    BY <1>0, <2>2
  <2>7. /\ Len(errpipe'[s]) = Len(errpipe[s]) + 1
        /\ \A i \in 1 .. Len(errpipe'[s]) : errpipe'[s][i] = Tag(a)
    <3>1. busy[s].tag \in Tags
      BY <2>3 DEF Work
    <3> QED
      BY <2>1, <2>6, <3>1 DEF Working, OwnErrors
  <2>8. OwnErrors(a)'
    BY <1>1, <1>2, <2>1, <2>2, <2>7 DEF Working, OwnErrors
  <2>9. Missing(a, busy[sess[a]].errors)'
    <3> DEFINE m == Len(errbuf[s])
               n == Len(errpipe[s])
               n2 == Len(errpipe'[s])
               k == busy[s].errors
               k2 == busy'[s].errors
               total == call[a].cmd.errors
    <3>1. m \in Nat /\ n \in Nat /\ k \in Nat /\ n2 = n + 1 /\ k2 = k - 1
      BY <2>3, <2>5, <2>6, <2>7
    <3>2. sess'[a] = s /\ call' = call /\ errbuf' = errbuf /\ (Starting(a)' <=> Starting(a))
      BY <1>1, <1>2, <2>2
    <3>3. ~Starting(a) /\ call[a].cmd.kind = "ask" => m + n + k = total
      BY <2>1 DEF Working, Missing
    <3>4. SUFFICES ASSUME ~Starting(a), call[a].cmd.kind = "ask"
                   PROVE  m + n2 + k2 = total
      BY <3>2 DEF Missing
    <3> HIDE DEF TypeOK, m, n, n2, k, k2, total
    <3> QED
      BY <3>1, <3>3, <3>4
  <2>10. Working(a)'
    BY <1>1, <1>2, <2>1, <2>2, <2>5, <2>8, <2>9 DEF Working
  <2> QED
    BY <1>1, <2>1, <2>10 DEF Stage, Working
<1>5. CASE Respond(s)
  <2>1. Working(a) /\ pc[a] \in {"poll", "read"}
    BY <1>0, <1>5 DEF Respond, Stage, Clean, Asked, Answered, Died, Complete, Transaction
  <2> DEFINE body == [tag |-> busy[s].tag, end |-> FALSE, db |-> open'[s]]
             mark == [tag |-> busy[s].tag, end |-> TRUE, db |-> None]
  <2>2. stdout' = [stdout EXCEPT ![s] = @ \o <<body, mark>>] /\ busy' = [busy EXCEPT ![s] = None]
    BY <1>5 DEF Respond
  <2>3. body.tag = Tag(a) /\ body.end = FALSE /\ mark.end = TRUE
    BY <2>1 DEF Working
  <2> HIDE DEF body, mark
  <2>4. <<>> \o <<body, mark>> = <<body, mark>>
    OBVIOUS
  <2>5. stdout'[s] = <<body, mark>>
    BY <1>0, <2>1, <2>2, <2>4 DEF Working
  <2>6. busy'[s] = None /\ stdin'[s] = <<>> /\ UNCHANGED <<errpipe, errbuf>>
    BY <1>0, <1>5, <2>1, <2>2 DEF Respond, Working, Keeps
  <2>7. OwnErrors(a)' /\ Missing(a, 0)'
    BY <1>1, <1>2, <1>5, <2>1, <2>6 DEF Respond, Working, OwnErrors, Missing
  <2>8. Answered(a)'
    <3>1. Len(stdout'[s]) = 2 /\ stdout'[s][1] = body /\ stdout'[s][2] = mark
      BY <2>5
    <3>2. got'[a] = <<>> /\ sess'[a] = s
      BY <1>1, <2>1 DEF Working
    <3> QED
      BY <1>2, <2>3, <2>6, <2>7, <3>1, <3>2 DEF Answered
  <2> QED
    BY <1>1, <2>1, <2>8 DEF Stage, Working
<1>6. CASE Pump(s)
  <2>1. UNCHANGED <<proc, stdin, stdout, busy>>
    BY <1>6 DEF Pump, process
  <2>2. errbuf'[s] = errbuf[s] \o errpipe[s] /\ errpipe'[s] = <<>> /\ errpipe[s] # <<>>
        /\ errbuf[s] \in Seq(Tags) /\ errpipe[s] \in Seq(Tags)
    BY <1>0, <1>6 DEF Pump
  <2>3. /\ Len(errbuf'[s]) + Len(errpipe'[s]) = Len(errbuf[s]) + Len(errpipe[s])
        /\ OwnErrors(a) => \A i \in 1 .. Len(errbuf'[s]) : errbuf'[s][i] = Tag(a)
    <3> DEFINE e == errbuf[s]
               p == errpipe[s]
               f == errbuf'[s]
               g == errpipe'[s]
               t == Tag(a)
    <3>1. e \in Seq(Tags) /\ p \in Seq(Tags) /\ f = e \o p /\ g = <<>>
      BY <2>2
    <3>2. OwnErrors(a) => (\A i \in 1 .. Len(e) : e[i] = t) /\ (\A i \in 1 .. Len(p) : p[i] = t)
      BY DEF OwnErrors
    <3> HIDE DEF TypeOK, e, p, f, g, t
    <3>3. Len(f) + Len(g) = Len(e) + Len(p)
      BY <3>1, Pumped
    <3>4. OwnErrors(a) => \A i \in 1 .. Len(f) : f[i] = t
      BY <3>1, <3>2, Joined
    <3> QED
      BY <3>3, <3>4 DEF e, p, f, g, t
  <2>4. OwnErrors(a) => OwnErrors(a)'
    <3>1. sess'[a] = s /\ Len(errpipe'[s]) = 0
      BY <1>1, <2>2
    <3> HIDE DEF TypeOK
    <3> QED
      BY <1>2, <2>3, <3>1 DEF OwnErrors
  <2>5. ~Asked(a) /\ ~Clean(s)
    BY <2>2 DEF Asked, Clean
  <2>6. Working(a) => Working(a)'
    BY <1>1, <1>2, <2>1, <2>3, <2>4 DEF Working, Missing
  <2>7. (Answered(a) => Answered(a)') /\ (Complete(a) => Complete(a)')
    BY <1>1, <1>2, <2>1, <2>3, <2>4 DEF Answered, Complete, Missing
  <2>8. Died(a) => Died(a)'
    BY <1>1, <2>1 DEF Died
  <2> QED
    BY <1>0, <1>1, <2>1, <2>5, <2>6, <2>7, <2>8 DEF Stage
<1>7. CASE Die(s)
  <2>1. /\ proc'[s] = "exited" /\ busy'[s] = None /\ stdin'[s] = <<>>
        /\ UNCHANGED <<stdout, errpipe, errbuf>>
    BY <1>0, <1>7 DEF Die, Keeps
  <2>2. Asked(a) \/ Working(a) \/ Died(a) => Died(a)'
    BY <1>1, <2>1 DEF Asked, Working, Died
  <2>3. (Answered(a) => Answered(a)') /\ (Complete(a) => Complete(a)')
    BY <1>1, <1>2, <2>1 DEF Answered, Complete, Missing, OwnErrors
  <2> QED
    BY <1>0, <1>1, <2>1, <2>2, <2>3 DEF Stage
<1> QED
  BY <1>3, <1>4, <1>5, <1>6, <1>7 DEF ProcessAct, Serve

(* It keeps what is said of all calls and all sessions.                    *)
LEMMA ProcessStep ==
    ASSUME PInv, NEW s \in Sids, ProcessAct(s)
    PROVE  (\A a \in Agents : Alone(a) /\ Stage(a))' /\ (\A t \in Sids : Rest(t))'
<1>0. TypeOK
  BY DEF PInv, IInv
<1>1. UNCHANGED <<rlock, qlock, pc, call, id, sess, got>>
  BY DEF ProcessAct, Serve, GetLine, Report, Respond, Pump, Die, Keeps, locals
<1>2. \A t \in Sids \ {s} : SameChannel(t)
  BY <1>0 DEF TypeOK, SameChannel, ProcessAct, Serve, GetLine, Report, Respond, Pump, Die, Keeps, process
<1>3. ASSUME NEW a \in Agents
      PROVE  Alone(a)' /\ Stage(a)'
  <2>1. Alone(a) /\ Stage(a) /\ Flow(a)
    BY DEF PInv, IInv
  <2>2. Alone(a)'
    BY <1>1, <2>1 DEF Alone, Starting
  <2>3. CASE pc[a] \in Transaction /\ sess[a] = s
    BY <2>2, <2>3, ProcessStage
  <2>4. CASE ~(pc[a] \in Transaction /\ sess[a] = s)
    <3>1. pc[a] \in Transaction => SameChannel(sess[a])
      BY <1>2, <2>1, <2>4 DEF Flow
    <3> QED
      BY <1>1, <2>1, <2>2, <3>1, StageStable DEF Starting
  <2> QED
    BY <2>3, <2>4
<1>4. ASSUME NEW t \in Sids
      PROVE  Rest(t)'
  <2>1. Rest(t) /\ (InUse(t)' <=> InUse(t))
    BY <1>1 DEF PInv, InUse, Starting
  <2>2. CASE t # s
    BY <1>2, <2>1, <2>2 DEF Rest, SameChannel, Clean
  <2>3. CASE t = s
    <3>1. ~Clean(s) \/ Die(s)
      BY DEF ProcessAct, Serve, GetLine, Report, Respond, Pump, Clean
    <3>2. proc'[s] \in {proc[s], "exited"}
      BY <1>0 DEF TypeOK, ProcessAct, Serve, GetLine, Report, Respond, Pump, Die, process
    <3>3. Die(s) => proc'[s] = "exited"
      BY <1>0 DEF TypeOK, Die
    <3> QED
      BY <2>1, <2>3, <3>1, <3>2, <3>3 DEF Rest
  <2> QED
    BY <2>2, <2>3
<1> QED
  BY <1>3, <1>4

-----------------------------------------------------------------------------

(* The invariant is inductive, for commands of one line.                  *)
LEMMA ProtocolStep == OneLine /\ PInv /\ [Next]_vars => PInv'
<1> SUFFICES ASSUME OneLine, PInv, [Next]_vars PROVE PInv'
  OBVIOUS
<1>0. IInv'
  BY InvariantStep DEF PInv
<1>1. ASSUME NEW a \in Agents, AgentAct(a)
      PROVE  PInv'
  <2>1. \A b \in Agents : Alone(b)' /\ Stage(b)'
    BY <1>1, OwnStage, OthersStage
  <2>2. \A s \in Sids : Rest(s)'
    BY <1>1, OwnRest, OtherRest
  <2> QED
    BY <1>0, <2>1, <2>2 DEF PInv
<1>2. ASSUME NEW s \in Sids, ProcessAct(s)
      PROVE  PInv'
  BY <1>0, <1>2, ProcessStep DEF PInv
<1>3. CASE UNCHANGED vars
  <2>1. \A s \in Sids : SameChannel(s)
    BY <1>3 DEF SameChannel, vars, process, pipes
  <2>2. UNCHANGED <<rlock, qlock, pc, call, id, sess, got>>
    BY <1>3 DEF vars, locals
  <2>3. ASSUME NEW a \in Agents
        PROVE  Alone(a)' /\ Stage(a)'
    <3>1. Alone(a) /\ Stage(a) /\ Flow(a)
      BY DEF PInv, IInv
    <3>2. Alone(a)'
      BY <2>2, <3>1 DEF Alone, Starting
    <3> QED
      BY <2>1, <2>2, <3>1, <3>2, StageStable DEF Starting, Flow
  <2>4. \A s \in Sids : Rest(s)'
    BY <2>1, <2>2 DEF PInv, Rest, SameChannel, InUse, Clean, Starting
  <2> QED
    BY <1>0, <2>3, <2>4 DEF PInv
<1> QED
  BY <1>1, <1>2, <1>3 DEF Next, AgentAct, ProcessAct

(* Nothing has been started.                                               *)
LEMMA InitProtocol == Init => PInv
<1> SUFFICES ASSUME Init PROVE PInv
  OBVIOUS
<1>1. IInv
  BY InitInvariant
<1>2. \A a \in Agents : Alone(a) /\ Stage(a)
  BY NoneIsNobody DEF Init, Alone, Stage, Starting
<1>3. \A s \in Sids : Rest(s)
  BY DEF Init, Rest, Clean
<1> QED
  BY <1>1, <1>2, <1>3 DEF PInv

(* The command of a call, or the response to it, is in one place.          *)
THEOREM ProtocolInvariant == OneLine => (Spec => []PInv)
<1>1. Init => PInv
  BY InitProtocol
<1>2. ASSUME OneLine
      PROVE  Spec => []PInv
  <2>1. PInv /\ [Next]_vars => PInv'
    BY <1>2, ProtocolStep
  <2> QED
    BY <1>1, <2>1, PTL DEF Spec
<1> QED
  BY <1>2

-----------------------------------------------------------------------------
(* Between two transactions with a process nothing is left in its pipes,   *)
(* and it waits for a command, if no command contains a newline.           *)
THEOREM SessionsAlign == OneLine => (Spec => []Aligned)
<1>1. PInv => Aligned
  <2> SUFFICES ASSUME PInv, NEW s \in Sids, proc[s] = "running", ~InUse(s)
               PROVE  Clean(s)
    BY DEF Aligned, InUse, Clean
  <2> QED
    BY DEF PInv, Rest
<1> QED
  BY <1>1, ProtocolInvariant, PTL

(* The response that a call has read, and its diagnostics, belong to its   *)
(* own command, if no command contains a newline.                          *)
THEOREM ResponsesAreOwn == OneLine => (Spec => []OwnResponse)
<1>1. PInv => OwnResponse
  <2> SUFFICES ASSUME PInv, NEW a \in Agents, pc[a] = "settle"
               PROVE  LET errs == errbuf[sess[a]] \o errpipe[sess[a]] IN
                      /\ Len(got[a]) = 1 /\ got[a][1].tag = Tag(a)
                      /\ \A i \in 1 .. Len(errs) : errs[i] = Tag(a)
                      /\ ~Starting(a) /\ call[a].cmd.kind = "ask" => Len(errs) = call[a].cmd.errors
    BY DEF OwnResponse
  <2> DEFINE e == errbuf[sess[a]]
             p == errpipe[sess[a]]
  <2>1. Complete(a) /\ sess[a] \in Sids
    BY DEF PInv, IInv, Stage, Flow, Transaction
  <2>2. e \in Seq(Tags) /\ p \in Seq(Tags)
    BY <2>1 DEF PInv, IInv, TypeOK
  <2>3. /\ \A i \in 1 .. Len(e) : e[i] = Tag(a)
        /\ \A i \in 1 .. Len(p) : p[i] = Tag(a)
        /\ ~Starting(a) /\ call[a].cmd.kind = "ask" => Len(e) + Len(p) + 0 = call[a].cmd.errors
    BY <2>1 DEF Complete, OwnErrors, Missing
  <2> HIDE DEF e, p
  <2>4. Len(e \o p) = Len(e) + Len(p) /\ Len(e) \in Nat /\ Len(p) \in Nat
    BY <2>2, Joined
  <2>5. \A i \in 1 .. Len(e \o p) : (e \o p)[i] = Tag(a)
    BY <2>2, <2>3, Joined
  <2>6. ~Starting(a) /\ call[a].cmd.kind = "ask" => Len(e \o p) = call[a].cmd.errors
    BY <2>3, <2>4
  <2> QED
    BY <2>1, <2>5, <2>6 DEF Complete, e, p
<1> QED
  BY <1>1, ProtocolInvariant, PTL

-----------------------------------------------------------------------------
(* The database of an answer.                                              *)

(* The elements of what is left of a sequence are elements of it.         *)
LEMMA Rests == ASSUME NEW S, NEW q \in Seq(S), q # <<>>
               PROVE  /\ Head(q) = q[1] /\ 1 \in 1 .. Len(q)
                      /\ \A i \in 1 .. Len(Tail(q)) : i + 1 \in 1 .. Len(q) /\ Tail(q)[i] = q[i + 1]
BY HeadTailProperties, LenProperties

(* What a step of an agent does to the pipes of a process is of its        *)
(* database, or of none.                                                   *)
LEMMA AgentFromKey ==
    ASSUME DInv, OneLine, NoOpen, NEW a \in Agents, AgentAct(a), NEW s \in Sids
    PROVE  FromKey(s)'
<1>0. TypeOK /\ Flow(a) /\ FromKey(s) /\ PInv /\ IInv
  BY DEF DInv, PInv, IInv
<1>1. CASE SameChannel(s)
  BY <1>0, <1>1 DEF FromKey, OfKey, SameChannel
<1>2. CASE Stop(a) /\ s = sess[a]
  BY <1>0, <1>2 DEF Stop, Kills, FromKey, OfKey, TypeOK
<1>3. CASE proc[s] = "unborn" /\ StartProcess(a) /\ sess'[a] = s
  <2>1. PICK t \in Sids : Spawn(a, t)
    BY <1>3 DEF StartProcess
  <2>2. t = s /\ key' = [key EXCEPT ![s] = call[a].db] /\ proc'[s] = "running"
        /\ UNCHANGED <<open, stdin, stdout>>
    BY <1>0, <1>3, <2>1 DEF StartProcess, Spawn, TypeOK, pipes
  <2>3. open[s] = None /\ stdin[s] = <<>> /\ stdout[s] = <<>>
    BY <1>0, <1>3 DEF FromKey, PInv, Rest, Clean
  <2>4. key'[s] = call[a].db
    BY <1>0, <2>2 DEF TypeOK
  <2> DEFINE first == [tag |-> Banner, kind |-> "open", db |-> call[a].db, errors |-> 0]
  <2>5. PICK line \in Outcomes(first) : busy' = [busy EXCEPT ![s] = line]
    BY <2>1, <2>2 DEF Spawn
  <2>6. line.kind = "open" => line.db = call[a].db
    <3>1. line = first \/ line = [first EXCEPT !.kind = "ask", !.errors = 1]
      <4> HIDE DEF first
      <4> QED
        BY <2>5 DEF Outcomes
    <3>2. [first EXCEPT !.kind = "ask", !.errors = 1].kind = "ask" /\ first.db = call[a].db
      OBVIOUS
    <3> HIDE DEF first
    <3>3. CASE line = first
      BY <3>2, <3>3
    <3>4. CASE line = [first EXCEPT !.kind = "ask", !.errors = 1]
      <4>1. line.kind = "ask"
        BY <3>2, <3>4, Zenon
      <4> QED
        BY <4>1
    <3> QED
      BY <3>1, <3>3, <3>4
  <2>7. busy'[s] = line
    BY <1>0, <2>5 DEF TypeOK
  <2> QED
    BY <2>2, <2>3, <2>4, <2>6, <2>7 DEF FromKey, OfKey
<1>4. CASE s = sess[a] /\ pc[a] \in Transaction
  <2>1. ASSUME UNCHANGED <<key, open, busy, stdout>>, stdin'[s] = stdin[s], proc'[s] # "unborn"
        PROVE  FromKey(s)'
    BY <1>0, <2>1 DEF FromKey, OfKey
  <2>2. proc'[s] # "unborn"
    BY <1>0, <1>4, AgentEffect DEF Flow
  <2>3. CASE Write(a)
    <3>1. UNCHANGED <<key, open, busy, stdout>>
      BY <2>3 DEF Write, process
    <3>2. CASE ~Running(s)
      BY <1>4, <2>1, <2>2, <2>3, <3>1, <3>2 DEF Write
    <3>3. CASE Running(s)
      <4> DEFINE c == call[a].cmd
                 line == [tag |-> id[a], kind |-> c.kind, db |-> c.db, errors |-> c.errors]
      <4>1. c.lines = 1 /\ c.kind # "open" /\ c \in Commands
        BY <1>0, <1>4, RequestType DEF OneLine, NoOpen, Flow, Transaction
      <4>2. stdin' = [stdin EXCEPT ![s] = @ \o [i \in 1 .. c.lines |-> line]]
        BY <1>4, <2>3, <3>3 DEF Write, Ends
      <4>3. line \in Work
        BY <1>0, <4>1 DEF Work, Commands, TypeOK
      <4>4. [i \in 1 .. c.lines |-> line] = <<line>> /\ <<line>> \in Seq(Work)
        BY <4>1, <4>3
      <4>5. line.kind # "open"
        BY <4>1
      <4> HIDE DEF line
      <4>6. stdin'[s] = stdin[s] \o <<line>> /\ stdin[s] \in Seq(Work)
        BY <1>0, <4>2, <4>4 DEF TypeOK
      <4>7. \A i \in 1 .. Len(stdin[s]) : stdin[s][i].kind # "open"
        BY <1>0 DEF FromKey
      <4>8. \A i \in 1 .. Len(stdin'[s]) : stdin'[s][i].kind # "open"
        <5> DEFINE x == stdin[s]
        <5>1. x \in Seq(Work) /\ \A i \in 1 .. Len(x) : x[i].kind # "open"
          BY <4>6, <4>7
        <5> HIDE DEF x
        <5>2. \A i \in 1 .. Len(x \o <<line>>) : (x \o <<line>>)[i].kind # "open"
          BY <4>3, <4>5, <5>1
        <5> QED
          BY <4>6, <5>2 DEF x
      <4> QED
        BY <1>0, <2>2, <3>1, <4>8 DEF FromKey, OfKey
    <3> QED
      BY <3>2, <3>3
  <2>4. CASE Poll(a) \/ ReadEof(a) \/ Settle(a)
    BY <2>1, <2>2, <2>4 DEF Poll, ReadEof, Settle, process, pipes
  <2>5. CASE ReadTimeout(a)
    BY <1>0, <1>4, <2>5 DEF ReadTimeout, Kills, FromKey, OfKey, TypeOK
  <2>6. CASE ReadLine(a)
    <3>1. stdout'[s] = Tail(stdout[s]) /\ stdout[s] # <<>> /\ stdout[s] \in Seq(Lines)
          /\ UNCHANGED <<key, open, busy, stdin, proc>>
      BY <1>0, <1>4, <2>6 DEF ReadLine, TypeOK, process
    <3>2. \A i \in 1 .. Len(stdout'[s]) : OfKey(s, stdout'[s][i].db)
      BY <1>0, <3>1, Rests DEF FromKey
    <3> QED
      BY <1>0, <3>1, <3>2 DEF FromKey, OfKey
  <2> QED
    BY <1>4, <2>3, <2>4, <2>5, <2>6
       DEF AgentAct, AgentStep, UseRegistry, Exchange, Transaction,
           Call, Reuse, StartProcess, Find, Withdraw, Stop, Enter
<1> QED
  BY <1>0, <1>1, <1>2, <1>3, <1>4, AgentTouches DEF Mine

(* A trace keeps to a process of its database; what it reads is of it.     *)
LEMMA AgentAnswers ==
    ASSUME DInv, OneLine, NEW a \in Agents, AgentAct(a)
    PROVE  Answers(a)'
<1>0. TypeOK /\ Flow(a) /\ Answers(a) /\ PInv /\ IInv /\ Registered /\ Stage(a)
  BY DEF DInv, PInv, IInv
<1>1. Stage(a)'
  BY <1>0, OwnStage
<1>2. ASSUME pc'[a] \notin {"enter"} \cup Transaction
      PROVE  Answers(a)'
  BY <1>1, <1>2 DEF Answers, Stage, Transaction
<1>3. ASSUME pc[a] \in {"enter"} \cup Transaction, sess'[a] = sess[a], call' = call, key' = key,
             got'[a] \in {got[a], <<>>}
      PROVE  Answers(a)'
  BY <1>0, <1>3 DEF Answers, OfKey
<1>4. CASE (\E q \in Requests : Call(a, q)) \/ Withdraw(a) \/ Stop(a)
  <2>1. pc'[a] \in {"get", "find", "stop", "idle"}
    BY <1>0, <1>4 DEF Call, Withdraw, Stop, Returns, Goto, TypeOK
  <2> QED
    BY <1>2, <2>1 DEF Transaction
<1>5. CASE Find(a)
  <2>1. call'[a].op = "query" /\ pc'[a] \in {"enter", "idle"}
    BY <1>0, <1>5 DEF Find, Returns, Goto, TypeOK
  <2> QED
    BY <1>1, <2>1 DEF Answers, Stage
<1>6. CASE Reuse(a)
  <2>1. call[a].db \in Dbs /\ keyed[call[a].db] # None /\ key[keyed[call[a].db]] = call[a].db
    BY <1>0, <1>6, RequestType DEF Reuse, Running, Registered, Flow
  <2>2. CASE Returns(a)
    BY <1>0, <1>2, <2>2 DEF Returns, Goto, TypeOK, Transaction
  <2>3. CASE Goto(a, "enter") /\ sess' = [sess EXCEPT ![a] = keyed[call[a].db]]
    <3>1. sess'[a] = keyed[call[a].db] /\ pc'[a] = "enter" /\ key' = key /\ call' = call
      BY <1>0, <1>6, <2>3 DEF TypeOK, Goto, Reuse, process, Returns
    <3> QED
      BY <1>1, <2>1, <3>1 DEF Answers, Stage
  <2> QED
    BY <1>6, <2>2, <2>3 DEF Reuse
<1>7. CASE StartProcess(a)
  <2>1. PICK s \in Sids : Spawn(a, s)
    BY <1>7 DEF StartProcess
  <2>2. sess'[a] = s /\ key'[s] = call[a].db /\ call' = call /\ pc'[a] = "poll"
    BY <1>0, <2>1 DEF Spawn, TypeOK, Goto
  <2> QED
    BY <1>1, <2>2 DEF Answers, Stage
<1>8. CASE Enter(a)
  BY <1>3, <1>8 DEF Enter, locals, process
<1>9. ASSUME NEW ok \in BOOLEAN, Ends(a, ok), pc[a] \in Transaction, key' = key
      PROVE  Answers(a)'
  <2>1. \/ Returns(a)
        \/ pc' = [pc EXCEPT ![a] = "enter"] /\ UNCHANGED <<call, sess>> /\ got' = [got EXCEPT ![a] = <<>>]
    BY <1>9 DEF Ends, Goto
  <2>2. CASE Returns(a)
    BY <1>0, <1>2, <2>2 DEF Returns, Goto, TypeOK, Transaction
  <2>3. CASE pc' = [pc EXCEPT ![a] = "enter"] /\ UNCHANGED <<call, sess>> /\ got' = [got EXCEPT ![a] = <<>>]
    <3>1. got'[a] = <<>>
      BY <1>0, <2>3 DEF TypeOK
    <3> QED
      BY <1>3, <1>9, <2>3, <3>1
  <2> QED
    BY <2>1, <2>2, <2>3
<1>10. CASE Write(a) \/ Poll(a)
  <2>1. key' = key /\ pc[a] \in Transaction
    BY <1>10 DEF Write, Poll, process, Transaction
  <2>2. (\E ok \in BOOLEAN : Ends(a, ok)) \/ UNCHANGED locals
    BY <1>10 DEF Write, Poll
  <2> QED
    BY <1>3, <1>9, <2>1, <2>2 DEF locals
<1>11. CASE ReadEof(a) \/ ReadTimeout(a) \/ Settle(a)
  <2>1. key' = key /\ pc[a] \in Transaction
    BY <1>11 DEF ReadEof, ReadTimeout, Settle, Kills, process, Transaction
  <2> QED
    BY <1>9, <1>11, <2>1 DEF ReadEof, ReadTimeout, Settle
<1>12. CASE ReadLine(a)
  <2> DEFINE s == sess[a]
             line == Head(stdout[s])
  <2>1. /\ UNCHANGED <<key, call, sess>> /\ pc[a] = "read" /\ s \in Sids
        /\ stdout[s] \in Seq(Lines) /\ stdout[s] # <<>>
    BY <1>0, <1>12 DEF ReadLine, process, TypeOK, Flow, Transaction
  <2>2. OfKey(s, line.db)
    BY <2>1, Rests DEF DInv, FromKey
  <2>3. got'[a] = got[a] \/ got'[a] = Append(got[a], line)
    BY <1>0, <1>12 DEF ReadLine, TypeOK
  <2>4. got[a] \in Seq(Lines) /\ line \in Lines
    BY <1>0, <2>1, HeadTailProperties DEF TypeOK
  <2>5. \A i \in 1 .. Len(Append(got[a], line)) : OfKey(s, Append(got[a], line)[i].db)
    <3>1. \A i \in 1 .. Len(got[a]) : OfKey(s, got[a][i].db)
      BY <1>0 DEF Answers
    <3> HIDE DEF line
    <3> QED
      BY <2>2, <2>4, <3>1
  <2> QED
    BY <1>0, <2>1, <2>3, <2>5 DEF Answers, OfKey, Transaction
<1> QED
  BY <1>4, <1>5, <1>6, <1>7, <1>8, <1>10, <1>11, <1>12
     DEF AgentAct, AgentStep, UseRegistry, Exchange

(* The answers that other calls have read stay as they are.               *)
LEMMA OthersAnswers ==
    ASSUME DInv, NEW a \in Agents, AgentAct(a), NEW b \in Agents \ {a}
    PROVE  Answers(b)'
<1>0. TypeOK /\ Flow(b) /\ Answers(b) /\ Stage(b) /\ PInv /\ IInv
  BY DEF DInv, PInv, IInv
<1>1. /\ pc'[b] = pc[b] /\ call'[b] = call[b] /\ sess'[b] = sess[b] /\ got'[b] = got[b]
      /\ \A s \in Sids : proc[s] # "unborn" => key'[s] = key[s]
  BY <1>0, AgentEffect, AgentReach DEF Reach
<1>2. CASE pc[b] \in {"enter"} \cup Transaction
  <2>1. key'[sess[b]] = key[sess[b]]
    BY <1>0, <1>1, <1>2 DEF Flow
  <2> QED
    BY <1>0, <1>1, <2>1 DEF Answers, OfKey
<1>3. CASE pc[b] \notin {"enter"} \cup Transaction
  BY <1>0, <1>1, <1>3 DEF Answers, Stage, Transaction
<1> QED
  BY <1>2, <1>3

(* A process opens only its own database, if it is told no other.          *)
LEMMA ProcessFromKey ==
    ASSUME DInv, NEW s \in Sids, ProcessAct(s)
    PROVE  FromKey(s)' /\ key' = key
<1>0. TypeOK /\ FromKey(s)
  BY DEF DInv, PInv, IInv
<1>1. key' = key /\ (proc[s] # "unborn" => proc'[s] # "unborn") /\ (proc'[s] = "unborn" => open'[s] = open[s])
  BY <1>0 DEF ProcessAct, Serve, GetLine, Report, Respond, Pump, Die, process, TypeOK
<1>2. CASE GetLine(s)
  <2>1. stdin[s] \in Seq(Work) /\ stdin[s] # <<>> /\ stdin'[s] = Tail(stdin[s]) /\ UNCHANGED <<open, stdout>>
    BY <1>0, <1>2 DEF GetLine, TypeOK
  <2>2. busy'[s] \in Outcomes(Head(stdin[s]))
    BY <1>0, <1>2 DEF GetLine, TypeOK
  <2>3. Head(stdin[s]).kind # "open"
    BY <1>0, <2>1, Rests DEF FromKey
  <2>4. busy'[s] = Head(stdin[s])
    BY <2>2, <2>3 DEF Outcomes
  <2>5. \A i \in 1 .. Len(stdin'[s]) : stdin'[s][i].kind # "open"
    BY <1>0, <2>1, Rests DEF FromKey
  <2> QED
    BY <1>0, <1>1, <2>1, <2>3, <2>4, <2>5 DEF FromKey, OfKey
<1>3. CASE Report(s)
  <2>1. busy'[s] = [busy[s] EXCEPT !.errors = @ - 1] /\ busy[s] \in Work /\ busy[s] # None
        /\ UNCHANGED <<open, stdin, stdout, proc>>
    BY <1>0, <1>3 DEF Report, TypeOK
  <2>2. busy'[s].kind = busy[s].kind /\ busy'[s].db = busy[s].db
    BY <2>1 DEF Work
  <2> QED
    BY <1>0, <1>1, <2>1, <2>2 DEF FromKey, OfKey
<1>4. CASE Respond(s)
  <2>1. OfKey(s, open'[s])
    BY <1>0, <1>4 DEF Respond, FromKey, TypeOK
  <2> DEFINE body == [tag |-> busy[s].tag, end |-> FALSE, db |-> open'[s]]
             mark == [tag |-> busy[s].tag, end |-> TRUE, db |-> None]
             x == stdout[s]
  <2>2. stdout'[s] = x \o <<body, mark>> /\ busy'[s] = None
    BY <1>0, <1>4 DEF Respond, TypeOK
  <2>3. body.db = open'[s] /\ mark.db = None
    OBVIOUS
  <2>4. x \in Seq(Lines) /\ \A i \in 1 .. Len(x) : OfKey(s, x[i].db)
    BY <1>0 DEF FromKey, TypeOK
  <2>5. \A i \in 1 .. Len(stdin'[s]) : stdin'[s][i].kind # "open"
    BY <1>0, <1>4 DEF Respond, FromKey, TypeOK
  <2>6. OfKey(s, body.db) /\ OfKey(s, mark.db)
    BY <2>1, <2>3 DEF OfKey
  <2>7. body \in Lines /\ mark \in Lines
    <3>1. busy[s] \in Work /\ open'[s] \in Dbs \cup {None}
      BY <1>0, <1>4, <2>1 DEF Respond, TypeOK, OfKey
    <3> QED
      BY <3>1 DEF Lines, Work
  <2> HIDE DEF body, mark, x
  <2>8. \A i \in 1 .. Len(x \o <<body, mark>>) : OfKey(s, (x \o <<body, mark>>)[i].db)
    BY <2>4, <2>6, <2>7
  <2> QED
    BY <1>1, <1>4, <2>1, <2>2, <2>5, <2>8 DEF FromKey, OfKey, Respond
<1>5. CASE Pump(s) \/ Die(s)
  BY <1>0, <1>1, <1>5 DEF Pump, Die, FromKey, OfKey, TypeOK, process
<1> QED
  BY <1>1, <1>2, <1>3, <1>4, <1>5 DEF ProcessAct, Serve

(* So is the one about databases, if also no command opens another.       *)
LEMMA DbStep == OneLine /\ NoOpen /\ DInv /\ [Next]_vars => DInv'
<1> SUFFICES ASSUME OneLine, NoOpen, DInv, [Next]_vars PROVE DInv'
  OBVIOUS
<1>0. PInv' /\ PInv /\ TypeOK
  BY ProtocolStep DEF DInv, PInv, IInv
<1>1. ASSUME NEW a \in Agents, AgentAct(a)
      PROVE  DInv'
  <2>1. \A s \in Sids : FromKey(s)'
    BY <1>1, AgentFromKey
  <2>2. \A b \in Agents : Answers(b)'
    BY <1>1, AgentAnswers, OthersAnswers
  <2> QED
    BY <1>0, <2>1, <2>2 DEF DInv
<1>2. ASSUME NEW s \in Sids, ProcessAct(s)
      PROVE  DInv'
  <2>1. \A t \in Sids \ {s} : SameChannel(t)
    BY <1>0, <1>2 DEF TypeOK, SameChannel, ProcessAct, Serve, GetLine, Report, Respond, Pump, Die, Keeps, process
  <2>2. \A t \in Sids : FromKey(t)'
    BY <1>2, <2>1, ProcessFromKey DEF DInv, FromKey, OfKey, SameChannel
  <2>3. key' = key
    BY <1>2, ProcessFromKey
  <2>4. UNCHANGED <<pc, call, sess, got>>
    BY <1>2 DEF ProcessAct, Serve, GetLine, Report, Respond, Pump, Die, Keeps, locals
  <2>5. \A a \in Agents : Answers(a)'
    BY <2>3, <2>4 DEF DInv, Answers, OfKey
  <2> QED
    BY <1>0, <2>2, <2>5 DEF DInv
<1>3. CASE UNCHANGED vars
  BY <1>0, <1>3 DEF DInv, FromKey, Answers, OfKey, vars, process, pipes, locals
<1> QED
  BY <1>1, <1>2, <1>3 DEF Next, AgentAct, ProcessAct

(* A trace is answered from the database it names, or from none if that    *)
(* could not be read, if no command opens another one or has a newline.    *)
THEOREM TracesAreOfTheirDatabase == OneLine /\ NoOpen => (Spec => []AnswersFromDb)
<1>1. Init => DInv
  <2> SUFFICES ASSUME Init PROVE DInv
    OBVIOUS
  <2>1. PInv
    BY InitProtocol
  <2>2. \A s \in Sids : FromKey(s)
    BY DEF Init, FromKey, OfKey
  <2>3. ASSUME NEW a \in Agents
        PROVE  Answers(a)
    <3>1. got[a] = <<>> /\ pc[a] = "idle" /\ Len(<<>>) = 0
      BY DEF Init
    <3> QED
      BY <3>1 DEF Answers, Transaction
  <2> QED
    BY <2>1, <2>2, <2>3 DEF DInv
<1>2. DInv => AnswersFromDb
  <2> SUFFICES ASSUME DInv, NEW a \in Agents, pc[a] = "settle", call[a].op = "trace"
               PROVE  got[a] # <<>> /\ got[a][1].db \in {call[a].db, None}
    BY DEF AnswersFromDb
  <2>1. Complete(a) /\ Answers(a)
    BY DEF DInv, PInv, Stage
  <2>2. key[sess[a]] = call[a].db
    BY <2>1 DEF Answers, Transaction
  <2>3. Len(got[a]) = 1
    BY <2>1 DEF Complete
  <2>4. OfKey(sess[a], got[a][1].db)
    BY <2>1, <2>3 DEF Answers
  <2> QED
    BY <2>2, <2>3, <2>4, EmptySeq DEF OfKey
<1>3. ASSUME OneLine, NoOpen
      PROVE  Spec => []AnswersFromDb
  <2>1. DInv /\ [Next]_vars => DInv'
    BY <1>3, DbStep
  <2> QED
    BY <1>1, <1>2, <2>1, PTL DEF Spec
<1> QED
  BY <1>3
===========================================================================
