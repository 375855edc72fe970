---------------------------- MODULE WaveProofs -----------------------------
(***************************************************************************)
(* What holds of the two parts of the waveform explorer, with proofs.  Of  *)
(* the daemons of a waveform and of their dumps, for any number of agents, *)
(* calls, records and faults.  Of what was read from a file, for every     *)
(* file: it is indexed as it was written, transitions are in order and     *)
(* flagged, a path without its range means a signal exactly if it can mean *)
(* only one, cut answers continue to the whole, queries agree, and         *)
(* summaries are exact.                                                    *)
(***************************************************************************)
EXTENDS WaveServer, WaveQueries, FiniteInduction

Dumping(d) == proc[d] \in DumpSteps
Running(d) == proc[d] \in {"loading", "serving"} \cup DumpSteps

(* The daemons before the registered one are dead, those after it are not  *)
(* born, and all but the last one were ended by a fault.                   *)
Ordered ==
  /\ \A d \in Daemons : proc[d] = "unborn" <=> d > daemon
  /\ \A d \in Daemons : d < daemon => proc[d] = "dead"
  /\ daemon # 0 => faults >= daemon - 1
  /\ daemon # 0 /\ proc[daemon] \in {"exiting", "dead"} => faults >= daemon

(* Where a call is at each step.                                           *)
Flow(a) ==
  /\ pc[a] # "idle" => id[a] # 0
  /\ pc[a] \in {"enter", "send", "read"} => sess[a] # 0 /\ sess[a] <= daemon
  /\ pc[a] \in {"send", "read"} => qlock[sess[a]] = a
Fresh(d) == proc[d] = "unborn" => stdin[d] = <<>> /\ cout[d] = <<>> /\ stdout[d] = <<>>
Locked(d) == qlock[d] # None => pc[qlock[d]] \in {"send", "read"} /\ sess[qlock[d]] = d

(* Of a line that answers a call, the call waits for it, and it is first.  *)
Reads(a, d) == qlock[d] = a /\ pc[a] = "read"
Answers(d) ==
  \A i \in DOMAIN stdout[d] :
    stdout[d][i].tag # 0 => i = 1 /\ \E a \in Agents : Reads(a, d) /\ id[a] = stdout[d][i].tag

(* The command of a call, or its answer, is in one place of a process that *)
(* runs: in stdin, in execution, with the filter, or in stdout.            *)
Quiet(s) == \A i \in DOMAIN s : s[i].tag = 0
Command(a) == [tag |-> id[a], cmd |-> call[a]]
Asked(d) == stdin[d] # <<>> =>
  /\ Quiet(cout[d]) /\ stdout[d] = <<>> /\ ~Dumping(d)
  /\ \E a \in Agents : Reads(a, d) /\ stdin[d] = <<Command(a)>>
Executed(d) == Dumping(d) =>
  /\ Quiet(cout[d]) /\ stdout[d] = <<>>
  /\ \E a \in Agents : Reads(a, d) /\ job[d] = Command(a) /\ call[a] # "query"
Filtered(d) == ~Quiet(cout[d]) =>
  /\ stdin[d] = <<>> /\ stdout[d] = <<>> /\ ~Dumping(d)
  /\ \E a \in Agents : Reads(a, d) /\
       \A i \in DOMAIN cout[d] : cout[d][i].tag # 0 => cout[d][i].tag = id[a] /\ i = Len(cout[d])
Lines(d) ==
  /\ proc[d] = "loading" => cout[d] = <<>> /\ stdout[d] = <<>>
  /\ \A i \in DOMAIN stdout[d] : stdout[d][i].tag # 0
  /\ \A i \in DOMAIN cout[d] : cout[d][i].tag = 0 <=> cout[d][i].kind = "banner"
Placed(d) == Running(d) => Asked(d) /\ Executed(d) /\ Filtered(d) /\ Lines(d)

(* What is told as written is in OUT.                                      *)
Told(d) == Alive(d) =>
  /\ \A i \in DOMAIN cout[d] : cout[d][i].kind = "written" => out = Dump(cout[d][i].tag)
  /\ \A i \in DOMAIN stdout[d] : stdout[d][i].kind = "written" => out = Dump(stdout[d][i].tag)
  /\ proc[d] = "exiting" => Quiet(cout[d])

(* A dump and its files at each step.                                      *)
Recorded(d) ==
  /\ proc[d] = "write" =>
       tmp \in Seq(Tags) /\ Len(tmp) <= Records /\ \A i \in DOMAIN tmp : tmp[i] = job[d].tag
  /\ proc[d] \in {"replace", "rename"} => tmp = Dump(job[d].tag)
  /\ proc[d] \in {"write", "replace"} => (out # None => job[d].cmd = "replace")
  /\ proc[d] = "rename" => out = None
  /\ proc[d] \in {"write", "cleanup"} => (made /\ out = None => gone)
Intact == out # None => \E tag \in Tags : out = Dump(tag)

Each(d) == Fresh(d) /\ Locked(d) /\ Answers(d) /\ Placed(d) /\ Told(d) /\ Recorded(d)
IInv ==
  /\ TypeOK /\ Ordered /\ Intact /\ NothingLost
  /\ \A a \in Agents : Flow(a)
  /\ \A d \in Daemons : Each(d)

-----------------------------------------------------------------------------
(* Sequences                                                               *)

LEMMA AppendedIs ==
  ASSUME NEW S, NEW s \in Seq(S), NEW e \in S
  PROVE  /\ Append(s, e) \in Seq(S) /\ Append(s, e) # <<>>
         /\ Len(Append(s, e)) = Len(s) + 1 /\ Len(s) \in Nat
         /\ DOMAIN s = 1..Len(s)
         /\ Append(s, e)[Len(s) + 1] = e
         /\ \A i \in DOMAIN Append(s, e) :
              \/ i \in DOMAIN s /\ Append(s, e)[i] = s[i]
              \/ i = Len(s) + 1 /\ Append(s, e)[i] = e
<1>1. /\ Append(s, e) \in Seq(S) /\ Len(Append(s, e)) = Len(s) + 1 /\ Len(s) \in Nat
      /\ Append(s, e)[Len(s) + 1] = e /\ \A i \in 1..Len(s) : Append(s, e)[i] = s[i]
  OBVIOUS
<1>2. DOMAIN s = 1..Len(s) /\ DOMAIN Append(s, e) = 1..Len(s) + 1
  BY <1>1
<1> QED
  BY <1>1, <1>2

(* What is left of a sequence without its head.                            *)
LEMMA Tailed ==
  ASSUME NEW S, NEW s \in Seq(S), s # <<>>
  PROVE  /\ Head(s) \in S /\ Head(s) = s[1] /\ 1 \in DOMAIN s
         /\ Tail(s) \in Seq(S)
         /\ \A i \in DOMAIN Tail(s) : i + 1 \in DOMAIN s /\ Tail(s)[i] = s[i + 1] /\ i \in 1..Len(s) - 1
         /\ Len(Tail(s)) = Len(s) - 1
OBVIOUS

(* An empty sequence has no index.                                         *)
LEMMA EmptyDomain == DOMAIN <<>> = {}
OBVIOUS

-----------------------------------------------------------------------------
(* The next daemon is there: a fault ended each of those before it.        *)
LEMMA NextDaemon ==
  ASSUME TypeOK, Ordered, daemon # 0 => ~Alive(daemon)
  PROVE  LET d == CHOOSE d \in Daemons : proc[d] = "unborn" /\ \A e \in 1..d - 1 : proc[e] # "unborn"
         IN  d = daemon + 1 /\ d \in Daemons
<1> USE DEF Daemons
<1>0. daemon \in 0..MaxFaults + 1 /\ faults \in 0..MaxFaults /\ MaxFaults \in Nat
  BY WaveServerAssumption DEF TypeOK
<1>4. daemon # 0 => daemon <= faults
  BY <1>0 DEF Ordered, Alive
<1>1. daemon + 1 \in Daemons
  BY <1>0, <1>4
<1>2. /\ proc[daemon + 1] = "unborn" /\ \A e \in 1..daemon : proc[e] # "unborn"
  BY <1>0, <1>1 DEF Ordered
<1>3. \A d \in Daemons :
        (proc[d] = "unborn" /\ \A e \in 1..d - 1 : proc[e] # "unborn") => d = daemon + 1
  BY <1>0, <1>1, <1>2 DEF Ordered
<1> QED
  BY <1>0, <1>1, <1>2, <1>3

(* Where the daemon that an agent gets comes from.                         *)
GetEffect(a) ==
  /\ pc[a] = "get" /\ pc' = [pc EXCEPT ![a] = "enter"]
  /\ UNCHANGED <<job, qlock, disk, call, id, calls, faults>>
  /\ daemon' \in Daemons /\ sess' = [sess EXCEPT ![a] = daemon']
  /\ \/ UNCHANGED <<daemon, proc, stdin, cout, stdout>> /\ daemon # 0
     \/ /\ daemon # 0 => ~Alive(daemon) /\ qlock[daemon] = None
        /\ daemon' = daemon + 1 /\ proc' = [proc EXCEPT ![daemon'] = "loading"]
        /\ stdin' = [e \in Daemons |-> IF e = daemon THEN <<>> ELSE stdin[e]]
        /\ cout' = [e \in Daemons |-> IF e = daemon THEN <<>> ELSE cout[e]]
        /\ stdout' = [e \in Daemons |-> IF e = daemon THEN <<>> ELSE stdout[e]]

(* _get_wave_daemon does what GetEffect says.                              *)
LEMMA GetStep ==
  ASSUME TypeOK, Ordered, NEW a \in Agents, Get(a)
  PROVE  GetEffect(a)
<1> USE DEF GetEffect
<1>1. CASE daemon # 0 /\ Alive(daemon) /\ sess' = [sess EXCEPT ![a] = daemon] /\ UNCHANGED <<daemon, server>>
  BY <1>1 DEF Get, Goto, TypeOK, server, pipes
<1>2. CASE daemon # 0 => ~Alive(daemon) /\ qlock[daemon] = None
  <2>1. CASE daemon # 0 /\ Alive(daemon)
    BY <1>2, <2>1
  <2>2. CASE ~(daemon # 0 /\ Alive(daemon))
    <3> DEFINE new == CHOOSE d \in Daemons : proc[d] = "unborn" /\ \A e \in 1..d - 1 : proc[e] # "unborn"
    <3>1. new = daemon + 1 /\ new \in Daemons
      BY NextDaemon, <1>2
    <3>2. /\ daemon' = new /\ sess' = [sess EXCEPT ![a] = new] /\ Step(new, "loading")
          /\ stdin' = [e \in Daemons |-> IF e = daemon THEN <<>> ELSE stdin[e]]
          /\ cout' = [e \in Daemons |-> IF e = daemon THEN <<>> ELSE cout[e]]
          /\ stdout' = [e \in Daemons |-> IF e = daemon THEN <<>> ELSE stdout[e]]
          /\ UNCHANGED job
      BY <2>2 DEF Get
    <3> HIDE DEF new
    <3> QED
      BY <1>2, <3>1, <3>2 DEF Get, Goto, Step
  <2> QED
    BY <2>1, <2>2
<1> QED
  BY <1>1, <1>2 DEF Get

-----------------------------------------------------------------------------
(* What a step leaves of the types                                         *)

LEMMA JobKnown ==
  ASSUME IInv, NEW d \in Daemons, Dumping(d)
  PROVE  /\ job[d] \in Jobs /\ job[d].tag \in Tags /\ job[d].tag # 0 /\ job[d].cmd # "query"
         /\ \E a \in Agents : Reads(a, d) /\ job[d] = Command(a)
<1>1. PICK a \in Agents : Reads(a, d) /\ job[d] = Command(a) /\ call[a] # "query"
  BY DEF IInv, Each, Placed, Running, Executed, Dumping
<1>2. id[a] \in Tags /\ call[a] \in Cmds /\ id[a] # 0
  BY <1>1 DEF IInv, TypeOK, Flow, Reads
<1> QED
  BY <1>1, <1>2 DEF Command, Jobs

(* What a daemon says fits the types, and what it does not touch stays.    *)
LEMMA SayTypes ==
  ASSUME TypeOK, NEW d \in Daemons, NEW tag \in Tags,
         NEW kind \in {"answer", "written", "error", "banner"}, Say(d, tag, kind)
  PROVE  cout' \in [Daemons -> Seq(Replies)]
<1>1. [tag |-> tag, kind |-> kind] \in Replies
  BY DEF Replies
<1>2. cout[d] \in Seq(Replies)
  BY DEF TypeOK
<1>3. Append(cout[d], [tag |-> tag, kind |-> kind]) \in Seq(Replies)
  BY <1>1, <1>2, AppendedIs
<1> QED
  BY <1>3 DEF Say, TypeOK

(* A call that returns keeps the types.                                    *)
LEMMA ReturnTypes ==
  ASSUME TypeOK, NEW a \in Agents, Return(a)
  PROVE  /\ pc' \in [Agents -> {"idle", "get", "enter", "send", "read"}]
         /\ qlock' \in [Daemons -> Agents \cup {None}]
         /\ call' \in [Agents -> Cmds] /\ id' \in [Agents -> Tags] /\ sess' \in [Agents -> Daemons \cup {0}]
         /\ UNCHANGED <<daemon, out, tmp, made, gone, calls>>
<1>1. 0 \in Tags /\ "query" \in Cmds
  BY WaveServerAssumption DEF Tags, Cmds
<1>2. qlock' \in [Daemons -> Agents \cup {None}] /\ sess' \in [Agents -> Daemons \cup {0}]
  BY DEF Return, TypeOK
<1> QED
  BY <1>1, <1>2 DEF Return, Goto, disk, TypeOK

(* An empty pipe has every type.                                           *)
LEMMA EmptyPipes == \A S : <<>> \in Seq(S)
OBVIOUS

(* The steps of an agent keep the types.                                   *)
LEMMA AgentTypes ==
  ASSUME IInv, NEW a \in Agents,
         Get(a) \/ Enter(a) \/ Send(a) \/ Read(a) \/ Timeout(a) \/ \E cmd \in Cmds : Call(a, cmd)
  PROVE  TypeOK'
<1> USE DEF TypeOK
<1>1. TypeOK /\ Ordered /\ MaxFaults \in Nat /\ MaxCalls \in Nat
  BY WaveServerAssumption DEF IInv
<1>2. CASE Get(a)
  <2> USE DEF GetEffect
  <2>0. GetEffect(a)
    BY <1>1, <1>2, GetStep
  <2>1. daemon' \in Daemons /\ sess' \in [Agents -> Daemons \cup {0}] /\ pc' \in [Agents -> {"idle", "get", "enter", "send", "read"}]
    BY <1>1, <2>0
  <2>2. /\ proc' \in [Daemons -> {"unborn", "loading", "serving", "exiting", "dead"} \cup DumpSteps]
        /\ stdin' \in [Daemons -> Seq(Jobs)] /\ cout' \in [Daemons -> Seq(Replies)] /\ stdout' \in [Daemons -> Seq(Replies)]
    <3>1. CASE UNCHANGED <<proc, stdin, cout, stdout>>
      BY <1>1, <3>1
    <3>2. CASE ~UNCHANGED <<proc, stdin, cout, stdout>>
      <4>1. /\ daemon' = daemon + 1 /\ proc' = [proc EXCEPT ![daemon'] = "loading"]
            /\ stdin' = [e \in Daemons |-> IF e = daemon THEN <<>> ELSE stdin[e]]
            /\ cout' = [e \in Daemons |-> IF e = daemon THEN <<>> ELSE cout[e]]
            /\ stdout' = [e \in Daemons |-> IF e = daemon THEN <<>> ELSE stdout[e]]
        BY <2>0, <3>2
      <4>2. proc' \in [Daemons -> {"unborn", "loading", "serving", "exiting", "dead"} \cup DumpSteps]
        BY <1>1, <4>1
      <4>3. /\ \A e \in Daemons : stdin[e] \in Seq(Jobs) /\ cout[e] \in Seq(Replies) /\ stdout[e] \in Seq(Replies)
            /\ <<>> \in Seq(Jobs) /\ <<>> \in Seq(Replies)
        BY <1>1, EmptyPipes
      <4> HIDE DEF TypeOK, GetEffect
      <4> QED
        BY <4>1, <4>2, <4>3
    <3> QED
      BY <3>1, <3>2
  <2> QED
    <3>1. UNCHANGED <<job, qlock, out, tmp, made, gone, call, id, calls, faults>>
      BY <2>0 DEF disk
    <3> HIDE DEF GetEffect
    <3> QED
      BY <1>1, <2>1, <2>2, <3>1
<1>3. CASE Enter(a)
  BY <1>1, <1>3 DEF Enter, Goto, server, pipes, disk
<1>4. sess[a] \in Daemons \/ pc[a] \in {"idle", "get"}
  BY DEF IInv, Flow
<1>5. CASE Send(a)
  <2>1. CASE Alive(sess[a])
    <3>1. [tag |-> id[a], cmd |-> call[a]] \in Jobs
      BY <1>1 DEF Jobs
    <3>2. sess[a] \in Daemons
      BY <1>4, <1>5 DEF Send
    <3>3. Append(stdin[sess[a]], [tag |-> id[a], cmd |-> call[a]]) \in Seq(Jobs)
      BY <1>1, <3>1, <3>2, AppendedIs
    <3> QED
      BY <1>1, <1>5, <2>1, <3>3 DEF Send, Goto, disk
  <2>2. CASE ~Alive(sess[a])
    <3>1. Return(a) /\ UNCHANGED <<stdin, proc, job, cout, stdout, faults>>
      BY <1>5, <2>2 DEF Send
    <3> QED
      BY <1>1, <3>1, ReturnTypes
  <2> QED
    BY <2>1, <2>2
<1>6. CASE Read(a)
  <2>1. stdout' \in [Daemons -> Seq(Replies)]
    <3>1. sess[a] \in Daemons
      BY <1>4, <1>6 DEF Read
    <3>2. stdout[sess[a]] # <<>> => Tail(stdout[sess[a]]) \in Seq(Replies)
      BY <1>1, <3>1, Tailed
    <3> QED
      BY <1>1, <1>6, <3>2 DEF Read
  <2> QED
    BY <1>1, <1>6, <2>1, ReturnTypes DEF Read
<1>7. CASE Timeout(a)
  <2>1. /\ stdin' \in [Daemons -> Seq(Jobs)] /\ cout' \in [Daemons -> Seq(Replies)] /\ stdout' \in [Daemons -> Seq(Replies)]
    BY <1>1, <1>7, EmptyPipes DEF Timeout, Kill
  <2> QED
    BY <1>1, <1>7, <2>1, ReturnTypes DEF Timeout, Fault, Kill, Step
<1>8. ASSUME NEW cmd \in Cmds, Call(a, cmd) PROVE TypeOK'
  BY <1>1, <1>8 DEF Call, Goto, server, pipes, disk, Tags
<1> QED
  BY <1>2, <1>3, <1>5, <1>6, <1>7, <1>8

(* The steps of a daemon keep the types.                                   *)
LEMMA DaemonTypes ==
  ASSUME IInv, NEW d \in Daemons, Work(d) \/ Die(d)
  PROVE  TypeOK'
<1> USE DEF TypeOK
<1>1. TypeOK /\ MaxFaults \in Nat
  BY WaveServerAssumption DEF IInv
<1>2. 0 \in Tags
  BY WaveServerAssumption DEF Tags
<1>a. out \in Seq(Tags) \cup {None} /\ tmp \in Seq(Tags) \cup {None} /\ made \in BOOLEAN /\ gone \in BOOLEAN
  BY <1>1
<1>b. faults' = faults \/ Fault => faults' \in 0..MaxFaults
  <2>1. faults \in 0..MaxFaults
    BY <1>1
  <2> HIDE DEF TypeOK
  <2> QED
    BY <1>1, <2>1 DEF Fault
<1>3. CASE Load(d)
  <2>1. cout' \in [Daemons -> Seq(Replies)]
    BY <1>1, <1>2, <1>3, SayTypes DEF Load
  <2>2. proc' \in [Daemons -> {"unborn", "loading", "serving", "exiting", "dead"} \cup DumpSteps]
    BY <1>1, <1>3 DEF Load, Step
  <2>3. faults' \in 0..MaxFaults
    BY <1>1, <1>3 DEF Load, Fault
  <2> QED
    BY <1>1, <1>3, <2>1, <2>2, <2>3 DEF Load, disk, agent
<1>4. CASE GetLine(d)
  <2>1. /\ Head(stdin[d]) \in Jobs /\ Tail(stdin[d]) \in Seq(Jobs)
    BY <1>1, <1>4, Tailed DEF GetLine
  <2>2. Head(stdin[d]).tag \in Tags
    BY <2>1 DEF Jobs
  <2>3. cout' \in [Daemons -> Seq(Replies)]
    BY <1>1, <1>4, <2>2, SayTypes DEF GetLine
  <2>4. job' \in [Daemons -> Jobs \cup {None}] /\ stdin' \in [Daemons -> Seq(Jobs)]
    BY <1>1, <1>4, <2>1 DEF GetLine
  <2>5. proc' \in [Daemons -> {"unborn", "loading", "serving", "exiting", "dead"} \cup DumpSteps]
    BY <1>1, <1>4 DEF GetLine, Step, DumpSteps
  <2> QED
    BY <1>1, <1>4, <2>3, <2>4, <2>5 DEF GetLine, disk, agent
<1>5. CASE Forward(d)
  <2>1. /\ Head(cout[d]) \in Replies /\ Tail(cout[d]) \in Seq(Replies)
    BY <1>1, <1>5, Tailed DEF Forward
  <2>2. Append(stdout[d], Head(cout[d])) \in Seq(Replies)
    BY <1>1, <2>1, AppendedIs
  <2> QED
    BY <1>1, <1>5, <2>1, <2>2 DEF Forward, disk, agent
<1>6. CASE Exit(d)
  BY <1>1, <1>6 DEF Exit, Step, pipes, disk, agent
<1>7. CASE Die(d)
  <2>1. cout' \in [Daemons -> Seq(Replies)]
    BY <1>1, <1>7, EmptyPipes DEF Die
  <2> QED
    BY <1>1, <1>7, <2>1 DEF Die, Fault, Step, disk, agent
<1>8. Dumping(d) => job[d].tag \in Tags
  BY JobKnown
<1>9. Dumping(d) /\ (cout' = cout \/ \E kind \in {"error", "written"} : Reply(d, kind))
      => cout' \in [Daemons -> Seq(Replies)]
  BY <1>1, <1>8, SayTypes DEF Reply
<1>10. (proc' = proc \/ (\E label \in DumpSteps : Step(d, label)) \/ \E kind \in {"error", "written"} : Reply(d, kind))
      => proc' \in [Daemons -> {"unborn", "loading", "serving", "exiting", "dead"} \cup DumpSteps]
  BY <1>1 DEF Step, Reply
<1>11. CASE DumpOpen(d)
  <2>1. Dumping(d)
    BY <1>11 DEF DumpOpen, Dumping, DumpSteps
  <2>2. proc' \in [Daemons -> {"unborn", "loading", "serving", "exiting", "dead"} \cup DumpSteps]
    BY <1>10, <1>11 DEF DumpOpen, DumpSteps
  <2>3. out' \in Seq(Tags) \cup {None} /\ tmp' \in Seq(Tags) \cup {None}
    BY <1>1, <1>11, EmptyPipes DEF DumpOpen
  <2>4. cout' \in [Daemons -> Seq(Replies)]
    BY <1>9, <1>11, <2>1 DEF DumpOpen
  <2>5. faults' \in 0..MaxFaults /\ made' = made /\ gone' \in BOOLEAN
    BY <1>a, <1>b, <1>11 DEF DumpOpen
  <2> QED
    BY <1>1, <1>11, <2>2, <2>3, <2>4, <2>5 DEF DumpOpen, dumping, agent
<1>12. CASE DumpWrite(d)
  <2>1. Dumping(d) /\ tmp \in Seq(Tags)
    BY <1>12 DEF DumpWrite, Dumping, DumpSteps, IInv, Each, Recorded
  <2>2. proc' \in [Daemons -> {"unborn", "loading", "serving", "exiting", "dead"} \cup DumpSteps]
    BY <1>10, <1>12 DEF DumpWrite, DumpSteps
  <2>3. Append(tmp, job[d].tag) \in Seq(Tags)
    BY <1>8, <2>1, AppendedIs
  <2>4. cout' \in [Daemons -> Seq(Replies)]
    BY <1>9, <1>12, <2>1 DEF DumpWrite
  <2>5. out' \in Seq(Tags) \cup {None} /\ tmp' \in Seq(Tags) \cup {None} /\ faults' \in 0..MaxFaults
    <3>1. (tmp' = tmp \/ tmp' = Append(tmp, job[d].tag)) /\ out' = out /\ (faults' = faults \/ Fault)
      BY <1>12 DEF DumpWrite
    <3> QED
      BY <1>a, <1>b, <2>3, <3>1
  <2> QED
    BY <1>1, <1>12, <2>2, <2>4, <2>5 DEF DumpWrite, dumping, agent
<1>13. CASE DumpReplace(d)
  <2>1. proc' \in [Daemons -> {"unborn", "loading", "serving", "exiting", "dead"} \cup DumpSteps]
    BY <1>10, <1>13 DEF DumpReplace, DumpSteps
  <2> QED
    BY <1>1, <1>13, <2>1 DEF DumpReplace, dumping, Fault, agent
<1>14. CASE DumpRename(d)
  <2>1. Dumping(d)
    BY <1>14 DEF DumpRename, Dumping, DumpSteps
  <2>2. proc' \in [Daemons -> {"unborn", "loading", "serving", "exiting", "dead"} \cup DumpSteps]
    BY <1>10, <1>14 DEF DumpRename, DumpSteps
  <2>3. cout' \in [Daemons -> Seq(Replies)]
    BY <1>9, <1>14, <2>1 DEF DumpRename
  <2>4. /\ out' \in Seq(Tags) \cup {None} /\ tmp' \in Seq(Tags) \cup {None} /\ faults' \in 0..MaxFaults
        /\ made' \in BOOLEAN /\ gone' \in BOOLEAN
    <3>1. /\ UNCHANGED <<out, tmp, made>> \/ (out' = tmp /\ tmp' = None /\ made' = TRUE)
          /\ (faults' = faults \/ Fault) /\ (gone' = gone \/ gone' = (gone \/ out = None))
      BY <1>14 DEF DumpRename
    <3> HIDE DEF TypeOK
    <3> QED
      BY <1>a, <1>b, <3>1
  <2> QED
    BY <1>1, <1>14, <2>2, <2>3, <2>4 DEF DumpRename, dumping, agent
<1>15. CASE DumpCleanup(d)
  <2>1. Dumping(d)
    BY <1>15 DEF DumpCleanup, Dumping, DumpSteps
  <2>2. cout' \in [Daemons -> Seq(Replies)] /\ proc' \in [Daemons -> {"unborn", "loading", "serving", "exiting", "dead"} \cup DumpSteps]
    BY <1>9, <1>10, <1>15, <2>1 DEF DumpCleanup
  <2> QED
    BY <1>1, <1>15, <2>2 DEF DumpCleanup, dumping, agent
<1> QED
  BY <1>3, <1>4, <1>5, <1>6, <1>7, <1>11, <1>12, <1>13, <1>14, <1>15 DEF Work

-----------------------------------------------------------------------------
(* Processes: one at a time                                                *)

LEMMA OneAlive ==
  ASSUME IInv, NEW d \in Daemons
  PROVE  Alive(d) => d = daemon
<1>1. daemon \in Int /\ d \in Int
  BY WaveServerAssumption DEF IInv, TypeOK, Daemons
<1> QED
  BY <1>1 DEF IInv, Ordered, Alive

(* What a step does to a process that is there: it goes on, or it ends     *)
(* with a fault, or after one.                                             *)
ProcEffect(d) ==
  /\ daemon' = daemon
  /\ \E label \in {"loading", "serving", "exiting", "dead"} \cup DumpSteps :
       /\ proc' = [proc EXCEPT ![d] = label]
       /\ label \in {"exiting", "dead"} => faults' = faults + 1 \/ proc[d] = "exiting"
  /\ faults' = faults \/ faults' = faults + 1

(* Only a process that is there takes steps, and no agent moves with it.   *)
LEMMA WorkAlive ==
  ASSUME NEW d \in Daemons, Work(d) \/ Die(d)
  PROVE  Alive(d) /\ UNCHANGED <<daemon, qlock, pc, call, id, sess, calls>>
<1>1. CASE Load(d) \/ GetLine(d) \/ Forward(d) \/ Exit(d) \/ Die(d)
  BY <1>1 DEF Load, GetLine, Forward, Exit, Die, Alive, agent
<1>2. CASE DumpOpen(d) \/ DumpWrite(d) \/ DumpReplace(d) \/ DumpRename(d) \/ DumpCleanup(d)
  BY <1>2 DEF DumpOpen, DumpWrite, DumpReplace, DumpRename, DumpCleanup, dumping, agent, Alive
<1> QED
  BY <1>1, <1>2 DEF Work

(* Every step of a daemon has this effect, or none.                        *)
LEMMA WorkEffect ==
  ASSUME IInv, NEW d \in Daemons, Work(d) \/ Die(d)
  PROVE  ProcEffect(d) \/ (UNCHANGED <<daemon, proc, faults>>)
<1> USE DEF ProcEffect, Step, Reply, Fault
<1>1. CASE Load(d) \/ Exit(d) \/ Die(d)
  BY <1>1 DEF Load, Exit, Die
<1>2. CASE GetLine(d) \/ Forward(d)
  BY <1>2 DEF GetLine, Forward, DumpSteps
<1>3. CASE DumpOpen(d) \/ DumpWrite(d)
  BY <1>3 DEF DumpOpen, DumpWrite, dumping, DumpSteps
<1>4. CASE DumpReplace(d) \/ DumpRename(d) \/ DumpCleanup(d)
  BY <1>4 DEF DumpReplace, DumpRename, DumpCleanup, dumping, DumpSteps
<1> QED
  BY <1>1, <1>2, <1>3, <1>4 DEF Work

(* Such an effect keeps the order of the processes.                        *)
LEMMA EffectOrdered ==
  ASSUME IInv, NEW d \in Daemons, Alive(d), ProcEffect(d)
  PROVE  Ordered'
<1>1. /\ d = daemon /\ daemon \in Int /\ faults \in Int
      /\ Ordered /\ proc[d] # "unborn" /\ DOMAIN proc = Daemons
      /\ \A e \in Daemons : e \in Int
  BY OneAlive, WaveServerAssumption DEF IInv, TypeOK, Daemons, Alive
<1>2. PICK label \in {"loading", "serving", "exiting", "dead"} \cup DumpSteps :
        /\ proc' = [proc EXCEPT ![d] = label]
        /\ label \in {"exiting", "dead"} => faults' = faults + 1 \/ proc[d] = "exiting"
  BY DEF ProcEffect
<1>3. /\ \A e \in Daemons \ {d} : proc'[e] = proc[e]
      /\ proc'[d] = label /\ label # "unborn"
      /\ daemon' = daemon /\ (faults' = faults \/ faults' = faults + 1)
  BY <1>1, <1>2 DEF ProcEffect, DumpSteps
<1> QED
  BY <1>1, <1>2, <1>3 DEF Ordered

(* Every step keeps it.                                                    *)
LEMMA OrderedStep ==
  ASSUME IInv, Next
  PROVE  Ordered'
<1>1. ASSUME NEW a \in Agents, Get(a) PROVE Ordered'
  <2>1. GetEffect(a) /\ Ordered /\ TypeOK
    BY <1>1, GetStep DEF IInv
  <2>2. CASE UNCHANGED <<daemon, proc>>
    BY <2>1, <2>2 DEF GetEffect, Ordered
  <2>3. CASE ~UNCHANGED <<daemon, proc>>
    <3>1. /\ daemon # 0 => ~Alive(daemon)
          /\ daemon' = daemon + 1 /\ proc' = [proc EXCEPT ![daemon'] = "loading"]
          /\ daemon' \in Daemons /\ faults' = faults
      BY <2>1, <2>3 DEF GetEffect
    <3>2. /\ daemon \in Int /\ faults \in Int /\ faults >= 0 /\ \A e \in Daemons : e \in Int
          /\ DOMAIN proc = Daemons
      BY <2>1, WaveServerAssumption DEF TypeOK, Daemons
    <3>3. daemon # 0 => daemon \in Daemons /\ proc[daemon] # "unborn"
      BY <2>1, <3>2 DEF TypeOK, Ordered
    <3>4. daemon # 0 => proc[daemon] = "dead" /\ faults >= daemon
      BY <2>1, <3>1, <3>3 DEF Alive, Ordered
    <3>5. /\ \A e \in Daemons \ {daemon'} : proc'[e] = proc[e]
          /\ proc'[daemon'] = "loading"
      BY <3>1, <3>2
    <3>6. \A e \in Daemons : proc'[e] = "unborn" <=> e > daemon'
      BY <2>1, <3>1, <3>2, <3>5 DEF Ordered
    <3>7. \A e \in Daemons : e < daemon' => proc'[e] = "dead"
      <4>1. TAKE e \in Daemons
      <4>2. CASE e < daemon
        BY <2>1, <3>1, <3>2, <3>5, <4>2 DEF Ordered
      <4>3. CASE e = daemon
        BY <3>1, <3>2, <3>4, <3>5, <4>3, WaveServerAssumption DEF Daemons
      <4> QED
        BY <3>1, <3>2, <4>2, <4>3
    <3>8. faults' >= daemon' - 1 /\ proc'[daemon'] = "loading"
      BY <3>1, <3>2, <3>4, <3>5
    <3> QED
      BY <3>6, <3>7, <3>8 DEF Ordered
  <2> QED
    BY <2>2, <2>3
<1>2. ASSUME NEW a \in Agents, Timeout(a) PROVE Ordered'
  <2>1. Alive(sess[a]) /\ ProcEffect(sess[a])
    BY <1>2 DEF Timeout, Kill, Step, Fault, Return, ProcEffect
  <2>2. sess[a] \in Daemons
    BY <1>2 DEF IInv, TypeOK, Flow, Timeout
  <2> QED
    BY <2>1, <2>2, EffectOrdered
<1>3. ASSUME NEW a \in Agents, Enter(a) \/ Send(a) \/ Read(a) \/ \E cmd \in Cmds : Call(a, cmd) PROVE Ordered'
  <2>1. UNCHANGED <<daemon, proc, faults>>
    BY <1>3 DEF Enter, Send, Read, Call, Return, server
  <2> QED
    BY <2>1 DEF IInv, Ordered
<1>4. ASSUME NEW d \in Daemons, Work(d) \/ Die(d) PROVE Ordered'
  <2>1. CASE ProcEffect(d)
    BY <1>4, <2>1, WorkAlive, EffectOrdered
  <2>2. CASE UNCHANGED <<daemon, proc, faults>>
    BY <2>2 DEF IInv, Ordered
  <2> QED
    BY <1>4, <2>1, <2>2, WorkEffect
<1> QED
  BY <1>1, <1>2, <1>3, <1>4 DEF Next, Agent

-----------------------------------------------------------------------------
(* Calls and locks                                                         *)

(* The step of one agent, as far as other agents can see it.               *)
Mine(a) ==
  /\ \A b \in Agents \ {a} : pc'[b] = pc[b] /\ id'[b] = id[b] /\ call'[b] = call[b] /\ sess'[b] = sess[b]
  /\ \A d \in Daemons : qlock'[d] # qlock[d] => a \in {qlock[d], qlock'[d]} /\ None \in {qlock[d], qlock'[d]}

(* A step of an agent keeps the calls and the locks.                       *)
LEMMA FlowAgent ==
  ASSUME IInv, NEW a \in Agents,
         Get(a) \/ Enter(a) \/ Send(a) \/ Read(a) \/ Timeout(a) \/ \E cmd \in Cmds : Call(a, cmd)
  PROVE  Mine(a) /\ (\A b \in Agents : Flow(b))' /\ (\A d \in Daemons : Locked(d))' /\ daemon' >= daemon
<1>1. /\ TypeOK /\ Ordered /\ (\A b \in Agents : Flow(b)) /\ (\A d \in Daemons : Locked(d))
      /\ daemon \in Int /\ daemon >= 0 /\ (\A b \in Agents : sess[b] \in Int) /\ calls \in Nat
      /\ None \notin Agents /\ \A d \in Daemons : d \in Int /\ d # 0
  <2>1. TypeOK /\ Ordered /\ (\A b \in Agents : Flow(b)) /\ (\A d \in Daemons : Locked(d))
    BY DEF IInv, Each
  <2>2. \A d \in Daemons : d \in Int /\ d > 0
    BY WaveServerAssumption DEF Daemons
  <2>3. /\ daemon \in Daemons \cup {0} /\ calls \in 0..MaxCalls
        /\ sess \in [Agents -> Daemons \cup {0}]
    BY <2>1 DEF TypeOK
  <2> QED
    BY <2>1, <2>2, <2>3, WaveServerAssumption
<1> DEFINE s == sess[a]
<1>2. /\ DOMAIN pc = Agents /\ DOMAIN id = Agents /\ DOMAIN call = Agents /\ DOMAIN sess = Agents
      /\ DOMAIN qlock = Daemons /\ (pc[a] \notin {"idle", "get"} => s \in Daemons)
      /\ \A d \in Daemons : qlock[d] \in Agents \cup {None}
      /\ pc[a] \in {"idle", "get", "enter", "send", "read"}
  BY <1>1 DEF TypeOK, Flow
<1>3. CASE Get(a)
  <2>1. GetEffect(a)
    BY <1>1, <1>3, GetStep
  <2>2. /\ pc[a] = "get" /\ pc' = [pc EXCEPT ![a] = "enter"] /\ sess' = [sess EXCEPT ![a] = daemon']
        /\ UNCHANGED <<id, call, qlock>> /\ daemon' \in Daemons /\ (daemon' = daemon \/ daemon' = daemon + 1)
    BY <2>1 DEF GetEffect
  <2>3. Mine(a) /\ daemon' >= daemon /\ daemon' # 0 /\ daemon' \in Int
    BY <1>1, <1>2, <2>2 DEF Mine
  <2>4. (\A b \in Agents : Flow(b))'
    BY <1>1, <1>2, <2>2, <2>3 DEF Flow
  <2>5. (\A d \in Daemons : Locked(d))'
    BY <1>1, <1>2, <2>2 DEF Locked
  <2> QED
    BY <2>3, <2>4, <2>5
<1>4. CASE Enter(a)
  <2>1. /\ pc[a] = "enter" /\ qlock[s] = None /\ qlock' = [qlock EXCEPT ![s] = a]
        /\ pc' = [pc EXCEPT ![a] = "send"] /\ UNCHANGED <<id, call, sess, daemon>>
    BY <1>4 DEF Enter, Goto
  <2>2. Mine(a) /\ daemon' >= daemon
    BY <1>1, <1>2, <2>1 DEF Mine
  <2>3. (\A b \in Agents : Flow(b))'
    BY <1>1, <1>2, <2>1 DEF Flow
  <2>4. (\A d \in Daemons : Locked(d))'
    BY <1>1, <1>2, <2>1 DEF Locked
  <2> QED
    BY <2>2, <2>3, <2>4
<1>5. ASSUME pc[a] \in {"send", "read"}, Return(a)
      PROVE  Mine(a) /\ (\A b \in Agents : Flow(b))' /\ (\A d \in Daemons : Locked(d))' /\ daemon' >= daemon
  <2>1. /\ pc' = [pc EXCEPT ![a] = "idle"] /\ qlock' = [qlock EXCEPT ![s] = None] /\ daemon' = daemon
        /\ id' = [id EXCEPT ![a] = 0] /\ call' = [call EXCEPT ![a] = "query"] /\ sess' = [sess EXCEPT ![a] = 0]
    BY <1>5 DEF Return, Goto
  <2>2. qlock[s] = a
    BY <1>1, <1>5 DEF Flow
  <2>3. Mine(a) /\ daemon' >= daemon
    BY <1>1, <1>2, <1>5, <2>1, <2>2 DEF Mine
  <2>4. (\A b \in Agents : Flow(b))'
    <3>1. \A b \in Agents \ {a} : pc[b] \in {"send", "read"} => sess[b] # s
      BY <1>1, <2>2 DEF Flow
    <3> QED
      BY <1>1, <1>2, <2>1, <3>1 DEF Flow
  <2>5. (\A d \in Daemons : Locked(d))'
    <3>1. \A d \in Daemons \ {s} : qlock[d] # a
      BY <1>1 DEF Locked
    <3> QED
      BY <1>1, <1>2, <2>1, <3>1 DEF Locked
  <2> QED
    BY <2>3, <2>4, <2>5
<1>6. CASE Send(a)
  <2>1. CASE Alive(s)
    <3>1. /\ pc[a] = "send" /\ pc' = [pc EXCEPT ![a] = "read"] /\ UNCHANGED <<id, call, sess, daemon, qlock>>
      BY <1>6, <2>1 DEF Send, Goto
    <3>2. Mine(a) /\ daemon' >= daemon
      BY <1>1, <1>2, <3>1 DEF Mine
    <3>3. (\A b \in Agents : Flow(b))'
      BY <1>1, <1>2, <3>1 DEF Flow
    <3>4. (\A d \in Daemons : Locked(d))'
      BY <1>1, <1>2, <3>1 DEF Locked
    <3> QED
      BY <3>2, <3>3, <3>4
  <2>2. CASE ~Alive(s)
    BY <1>5, <1>6, <2>2 DEF Send
  <2> QED
    BY <2>1, <2>2
<1>7. CASE Read(a) \/ Timeout(a)
  BY <1>5, <1>7 DEF Read, Timeout
<1>8. ASSUME NEW cmd \in Cmds, Call(a, cmd)
      PROVE  Mine(a) /\ (\A b \in Agents : Flow(b))' /\ (\A d \in Daemons : Locked(d))' /\ daemon' >= daemon
  <2>1. /\ pc[a] = "idle" /\ pc' = [pc EXCEPT ![a] = "get"] /\ UNCHANGED <<sess, daemon, qlock>>
        /\ id' = [id EXCEPT ![a] = calls + 1] /\ call' = [call EXCEPT ![a] = cmd]
    BY <1>8 DEF Call, Goto
  <2>2. Mine(a) /\ daemon' >= daemon
    BY <1>1, <1>2, <2>1 DEF Mine
  <2>3. (\A b \in Agents : Flow(b))'
    BY <1>1, <1>2, <2>1 DEF Flow
  <2>4. (\A d \in Daemons : Locked(d))'
    BY <1>1, <1>2, <2>1 DEF Locked
  <2> QED
    BY <2>2, <2>3, <2>4
<1> QED
  BY <1>3, <1>4, <1>6, <1>7, <1>8

(* So does a step of a daemon.                                             *)
LEMMA FlowDaemon ==
  ASSUME IInv, NEW d \in Daemons, Work(d) \/ Die(d)
  PROVE  (\A b \in Agents : Flow(b))' /\ (\A e \in Daemons : Locked(e))'
<1>1. UNCHANGED <<daemon, qlock, pc, call, id, sess, calls>>
  BY WorkAlive
<1>2. (\A b \in Agents : Flow(b)) /\ (\A e \in Daemons : Locked(e))
  BY DEF IInv, Each
<1> QED
  BY <1>1, <1>2 DEF Flow, Locked

-----------------------------------------------------------------------------
(* Lines                                                                   *)

Rest(d) == Fresh(d) /\ Answers(d) /\ Placed(d) /\ Told(d) /\ Recorded(d)

(* A daemon that a step does not touch, and whose call it does not touch.  *)
LEMMA Frame ==
  ASSUME IInv, NEW d \in Daemons,
         proc'[d] = proc[d], job'[d] = job[d],
         stdin'[d] = stdin[d], cout'[d] = cout[d], stdout'[d] = stdout[d],
         UNCHANGED disk,
         \A a \in Agents : Reads(a, d) => Reads(a, d)' /\ id'[a] = id[a] /\ call'[a] = call[a]
  PROVE  Rest(d)'
<1>1. Rest(d)
  BY DEF IInv, Each, Rest
<1>2. Fresh(d)' /\ Answers(d)'
  BY <1>1 DEF Rest, Fresh, Answers
<1>3. Placed(d)'
  <2>1. Asked(d) => Asked(d)'
    BY DEF Asked, Dumping, Quiet, Command
  <2>2. Executed(d) => Executed(d)'
    BY DEF Executed, Dumping, Quiet, Command
  <2>3. Filtered(d) => Filtered(d)'
    BY DEF Filtered, Dumping, Quiet
  <2>4. Lines(d) => Lines(d)'
    BY DEF Lines
  <2> QED
    BY <1>1, <2>1, <2>2, <2>3, <2>4 DEF Rest, Placed, Running
<1>4. Told(d)' /\ Recorded(d)'
  BY <1>1 DEF Rest, Told, Recorded, Alive, disk, Dump, Quiet
<1> QED
  BY <1>2, <1>3, <1>4 DEF Rest

(* A dead daemon has nothing to hold but old lines.                        *)
LEMMA Ended ==
  ASSUME NEW d \in Daemons, proc'[d] \in {"exiting", "dead"}, Answers(d)',
         proc'[d] = "exiting" => Told(d)'
  PROVE  Rest(d)'
<1>1. ~Running(d)' /\ Told(d)' /\ Recorded(d)' /\ Fresh(d)'
  BY DEF Running, Told, Recorded, Fresh, Alive, DumpSteps
<1> QED
  BY <1>1 DEF Rest, Placed

(* If nobody reads from a daemon that runs, it is idle.                    *)
LEMMA Idle ==
  ASSUME IInv, NEW d \in Daemons, Running(d), \A a \in Agents : ~Reads(a, d)
  PROVE  stdin[d] = <<>> /\ stdout[d] = <<>> /\ ~Dumping(d) /\ Quiet(cout[d])
<1>1. Answers(d) /\ Asked(d) /\ Executed(d) /\ Filtered(d) /\ Lines(d) /\ stdout[d] \in Seq(Replies)
  BY DEF IInv, Each, Placed, TypeOK
<1>2. \A i \in DOMAIN stdout[d] : FALSE
  BY <1>1 DEF Answers, Lines
<1>3. stdout[d] = <<>>
  BY <1>1, <1>2, Tailed
<1> QED
  BY <1>1, <1>3 DEF Asked, Executed, Filtered

(* A step of an agent leaves each command and answer in one place.         *)
LEMMA RestAgent ==
  ASSUME IInv, NEW a \in Agents,
         Get(a) \/ Enter(a) \/ Send(a) \/ Read(a) \/ Timeout(a) \/ \E cmd \in Cmds : Call(a, cmd),
         NEW d \in Daemons
  PROVE  Rest(d)'
<1> DEFINE s == sess[a]
<1>1. /\ TypeOK /\ Ordered /\ Flow(a) /\ Each(d) /\ Rest(d) /\ Mine(a)
      /\ None \notin Agents /\ (pc[a] \notin {"idle", "get"} => s \in Daemons)
      /\ \A b \in Agents : Reads(b, d) => Flow(b) /\ sess[b] = d
  BY FlowAgent, WaveServerAssumption DEF IInv, Each, Rest, Reads, Locked, TypeOK, Flow
<1>2. ASSUME ~(pc[a] = "read" /\ s = d), pc'[a] # "read" \/ s # d, qlock'[d] = qlock[d] \/ qlock[d] = None
      PROVE  \A b \in Agents : Reads(b, d) => Reads(b, d)' /\ id'[b] = id[b] /\ call'[b] = call[b]
  <2>1. TAKE b \in Agents
  <2>2. HAVE Reads(b, d)
  <2>3. b # a
    BY <1>1, <1>2, <2>2 DEF Reads
  <2> QED
    BY <1>1, <1>2, <2>2, <2>3 DEF Mine, Reads
<1>3. CASE Call(a, "query") \/ (\E cmd \in Cmds : Call(a, cmd)) \/ Enter(a)
  <2>1. /\ UNCHANGED <<proc, job, stdin, cout, stdout, disk>> /\ pc[a] # "read" /\ pc'[a] # "read"
        /\ (qlock'[d] = qlock[d] \/ qlock[d] = None)
    BY <1>1, <1>3 DEF Call, Enter, Goto, server, pipes, TypeOK
  <2> QED
    BY <1>2, <2>1, Frame
<1>4. CASE Get(a)
  <2>1. GetEffect(a)
    BY <1>1, <1>4, GetStep
  <2>2. /\ pc[a] # "read" /\ pc'[a] # "read" /\ qlock' = qlock /\ UNCHANGED <<job, disk>>
    BY <1>1, <2>1 DEF GetEffect, TypeOK
  <2>3. CASE UNCHANGED <<daemon, proc, stdin, cout, stdout>>
    BY <1>2, <2>2, <2>3, Frame
  <2>4. CASE ~UNCHANGED <<daemon, proc, stdin, cout, stdout>>
    <3>1. /\ daemon # 0 => ~Alive(daemon) /\ qlock[daemon] = None
          /\ daemon' = daemon + 1 /\ proc' = [proc EXCEPT ![daemon'] = "loading"] /\ daemon' \in Daemons
          /\ stdin' = [e \in Daemons |-> IF e = daemon THEN <<>> ELSE stdin[e]]
          /\ cout' = [e \in Daemons |-> IF e = daemon THEN <<>> ELSE cout[e]]
          /\ stdout' = [e \in Daemons |-> IF e = daemon THEN <<>> ELSE stdout[e]]
      BY <2>1, <2>4 DEF GetEffect
    <3>2. CASE d = daemon'
      <4>1. proc[d] = "unborn" /\ proc'[d] = "loading" /\ d # daemon
        BY <1>1, <3>1, <3>2, WaveServerAssumption DEF Ordered, TypeOK, Daemons
      <4>2. stdin'[d] = <<>> /\ cout'[d] = <<>> /\ stdout'[d] = <<>>
        BY <1>1, <3>1, <4>1 DEF Rest, Fresh
      <4> QED
        BY <4>1, <4>2, EmptyDomain DEF Rest, Fresh, Answers, Placed, Asked, Executed, Filtered, Lines, Told, Recorded, Dumping, DumpSteps, Quiet
    <3>3. CASE d = daemon /\ d # daemon'
      <4>1. proc'[d] = "dead" /\ cout'[d] = <<>> /\ stdout'[d] = <<>>
        BY <1>1, <3>1, <3>3, WaveServerAssumption DEF Alive, Ordered, TypeOK, Daemons
      <4> QED
        BY <4>1, EmptyDomain, Ended DEF Answers
    <3>4. CASE d # daemon /\ d # daemon'
      <4>1. proc'[d] = proc[d] /\ stdin'[d] = stdin[d] /\ cout'[d] = cout[d] /\ stdout'[d] = stdout[d]
        BY <1>1, <3>1, <3>4 DEF TypeOK
      <4> QED
        BY <1>2, <2>2, <4>1, Frame
    <3> QED
      BY <3>2, <3>3, <3>4
  <2> QED
    BY <2>3, <2>4
<1>5. CASE s # d /\ (Send(a) \/ Read(a) \/ Timeout(a))
  <2>1. pc[a] \in {"send", "read"} /\ s \in Daemons
    BY <1>1, <1>5 DEF Send, Read, Timeout
  <2>2. /\ proc'[d] = proc[d] /\ job'[d] = job[d] /\ stdin'[d] = stdin[d] /\ cout'[d] = cout[d] /\ stdout'[d] = stdout[d]
        /\ UNCHANGED disk /\ qlock'[d] = qlock[d]
    BY <1>1, <1>5, <2>1 DEF Send, Read, Timeout, Kill, Step, Return, TypeOK
  <2> QED
    BY <1>2, <1>5, <2>2, Frame
<1>6. CASE s = d /\ Send(a)
  <2>1. pc[a] = "send" /\ qlock[d] = a /\ \A b \in Agents : ~Reads(b, d)
    BY <1>1, <1>6 DEF Send, Flow, Reads
  <2>2. CASE Alive(d)
    <3>1. /\ stdin' = [stdin EXCEPT ![d] = Append(@, Command(a))] /\ pc' = [pc EXCEPT ![a] = "read"]
          /\ UNCHANGED <<proc, job, cout, stdout, qlock, disk, id, call>>
      BY <1>6, <2>2 DEF Send, Goto, Command
    <3>2. Reads(a, d)' /\ Command(a)' = Command(a)
      BY <1>1, <2>1, <3>1 DEF Reads, TypeOK, Command
    <3>3. (Fresh(d) /\ Answers(d) /\ Told(d) /\ Recorded(d))'
      BY <1>1, <2>1, <2>2, <3>1 DEF Rest, Fresh, Answers, Told, Recorded, Alive, disk, Dump, Quiet
    <3>4. CASE Running(d)
      <4>1. stdin[d] = <<>> /\ stdout[d] = <<>> /\ ~Dumping(d) /\ Quiet(cout[d]) /\ Lines(d)
        BY <1>1, <2>1, <3>4, Idle DEF Rest, Placed
      <4>2. stdin'[d] = <<Command(a)>>
        BY <1>1, <3>1, <4>1 DEF TypeOK
      <4> QED
        BY <3>1, <3>2, <3>3, <4>1, <4>2 DEF Rest, Placed, Asked, Executed, Filtered, Lines, Dumping, Quiet
    <3>5. CASE ~Running(d)
      BY <3>1, <3>3, <3>5 DEF Rest, Placed, Running
    <3> QED
      BY <3>4, <3>5
  <2>3. CASE ~Alive(d)
    <3>1. UNCHANGED <<proc, job, stdin, cout, stdout, disk>>
      BY <1>6, <2>3 DEF Send, Return
    <3> QED
      BY <2>1, <3>1, Frame
  <2> QED
    BY <2>2, <2>3
<1>7. CASE s = d /\ Read(a)
  <2>1. /\ pc[a] = "read" /\ qlock[d] = a /\ Reads(a, d)
        /\ UNCHANGED <<proc, job, stdin, cout, disk>>
        /\ \A b \in Agents : Reads(b, d) => b = a
    BY <1>1, <1>7 DEF Read, Return, Flow, Reads
  <2>2. stdout[d] = <<>> => ~Alive(d) /\ stdout' = stdout
    BY <1>7 DEF Read
  <2>3. stdout[d] # <<>> => stdout' = [stdout EXCEPT ![d] = Tail(@)]
    BY <1>7 DEF Read
  <2>4. stdout[d] \in Seq(Replies) /\ DOMAIN stdout = Daemons
    BY <1>1 DEF TypeOK
  <2>5. \A i \in DOMAIN stdout'[d] :
          stdout'[d][i].tag = 0 /\ i + 1 \in DOMAIN stdout[d] /\ stdout'[d][i] = stdout[d][i + 1]
    <3>1. CASE stdout[d] = <<>>
      BY <2>2, <3>1, EmptyDomain
    <3>2. CASE stdout[d] # <<>>
      <4>1. \A i \in DOMAIN Tail(stdout[d]) :
              i + 1 \in DOMAIN stdout[d] /\ Tail(stdout[d])[i] = stdout[d][i + 1] /\ i \in 1..Len(stdout[d]) - 1
        BY <2>4, <3>2, Tailed
      <4>2. \A i \in DOMAIN Tail(stdout[d]) : i + 1 # 1
        BY <2>4, <4>1
      <4>3. stdout'[d] = Tail(stdout[d])
        BY <2>3, <2>4, <3>2
      <4> QED
        BY <1>1, <4>1, <4>2, <4>3 DEF Rest, Answers
    <3> QED
      BY <3>1, <3>2
  <2>6. Answers(d)'
    BY <2>5 DEF Answers
  <2>7. Fresh(d)' /\ Recorded(d)' /\ Told(d)'
    BY <1>1, <2>1, <2>2, <2>3, <2>4, <2>5, EmptyDomain DEF Rest, Fresh, Recorded, Told, Alive, disk, Dump, Quiet
  <2>8. ASSUME Running(d) PROVE Placed(d)'
    <3>1. Alive(d) /\ stdout[d] # <<>>
      BY <2>2, <2>8 DEF Running, Alive, DumpSteps
    <3>2. Asked(d) /\ Executed(d) /\ Filtered(d) /\ Lines(d)
      BY <1>1, <2>8 DEF Rest, Placed
    <3>3. stdin[d] = <<>> /\ ~Dumping(d) /\ Quiet(cout[d])
      BY <3>1, <3>2 DEF Asked, Executed, Filtered
    <3>4. \A i \in DOMAIN stdout'[d] : FALSE
      BY <2>5, <3>2 DEF Lines
    <3>5. proc[d] # "loading"
      BY <3>1, <3>2 DEF Lines
    <3> QED
      BY <2>1, <3>2, <3>3, <3>4, <3>5 DEF Placed, Asked, Executed, Filtered, Lines, Dumping, Quiet
  <2>9. ~Running(d) => Placed(d)'
    BY <2>1 DEF Placed, Running
  <2> QED
    BY <2>6, <2>7, <2>8, <2>9 DEF Rest
<1>8. CASE s = d /\ Timeout(a)
  <2>1. proc'[d] = "dead" /\ cout'[d] = <<>> /\ stdout'[d] = <<>>
    BY <1>1, <1>8 DEF Timeout, Kill, Step, TypeOK
  <2> QED
    BY <2>1, EmptyDomain, Ended DEF Answers
<1> QED
  BY <1>3, <1>4, <1>5, <1>6, <1>7, <1>8

(* A step of a dump that goes on, or that answers.                         *)
LEMMA DumpSteppedOrAnswered ==
  ASSUME IInv, NEW d \in Daemons, Dumping(d), Work(d),
         UNCHANGED <<job, stdin, stdout, qlock, pc, id, call>>,
         \/ proc'[d] \in DumpSteps /\ cout' = cout
         \/ \E kind \in {"error", "written"} : Reply(d, kind) /\ (kind = "written" => out' = Dump(job[d].tag))
  PROVE  Fresh(d)' /\ Answers(d)' /\ Placed(d)' /\ Told(d)'
<1>1. /\ Asked(d) /\ Executed(d) /\ Filtered(d) /\ Lines(d) /\ Running(d)
      /\ cout[d] \in Seq(Replies) /\ DOMAIN cout = Daemons /\ DOMAIN proc = Daemons
      /\ job[d].tag \in Tags /\ job[d].tag # 0
  BY JobKnown DEF IInv, Each, Placed, Running, Dumping, TypeOK
<1>2. PICK a \in Agents : Reads(a, d) /\ job[d] = Command(a) /\ call[a] # "query"
  BY <1>1 DEF Executed
<1>3. stdin[d] = <<>> /\ stdout[d] = <<>> /\ Quiet(cout[d]) /\ Reads(a, d)' /\ id'[a] = id[a]
  BY <1>1, <1>2 DEF Asked, Executed, Reads
<1>4. \A i \in DOMAIN cout[d] : cout[d][i].tag = 0 /\ cout[d][i].kind = "banner"
  BY <1>1, <1>3 DEF Quiet, Lines
<1>5. CASE proc'[d] \in DumpSteps /\ cout' = cout
  <2>1. Asked(d)' /\ Filtered(d)' /\ Lines(d)' /\ Fresh(d)' /\ Answers(d)' /\ Told(d)'
    BY <1>3, <1>4, <1>5, EmptyDomain DEF Asked, Filtered, Lines, Fresh, Answers, Told, Quiet, DumpSteps
  <2>2. Executed(d)'
    BY <1>2, <1>3, <1>4, <1>5 DEF Executed, Dumping, Quiet, Command
  <2> QED
    BY <2>1, <2>2 DEF Placed
<1>6. ASSUME NEW kind \in {"error", "written"}, Reply(d, kind), kind = "written" => out' = Dump(job[d].tag)
      PROVE  Fresh(d)' /\ Answers(d)' /\ Placed(d)' /\ Told(d)'
  <2> DEFINE r == [tag |-> job[d].tag, kind |-> kind]
  <2>1. proc'[d] = "serving" /\ cout'[d] = Append(cout[d], r) /\ r \in Replies
    BY <1>1, <1>6 DEF Reply, Step, Say, Replies
  <2>2. /\ Len(cout'[d]) = Len(cout[d]) + 1
        /\ \A i \in DOMAIN cout'[d] : \/ i \in DOMAIN cout[d] /\ cout'[d][i] = cout[d][i]
                                      \/ i = Len(cout[d]) + 1 /\ cout'[d][i] = r
    BY <1>1, <2>1, AppendedIs
  <2>3. r.tag = id[a] /\ r.tag # 0 /\ r.kind = kind
    BY <1>1, <1>2 DEF Command
  <2> HIDE DEF r
  <2>4. Fresh(d)' /\ Answers(d)' /\ Asked(d)' /\ Executed(d)'
    BY <1>3, <2>1, EmptyDomain DEF Fresh, Answers, Asked, Executed, Dumping, DumpSteps
  <2>5. Lines(d)' /\ Told(d)'
    <3>1. \A i \in DOMAIN cout'[d] :
            /\ cout'[d][i].tag = 0 <=> cout'[d][i].kind = "banner"
            /\ cout'[d][i].kind = "written" => cout'[d][i] = r
      BY <1>4, <2>2, <2>3
    <3>2. kind = "written" => out' = Dump(r.tag)
      BY <1>6 DEF r
    <3> QED
      <4>1. Lines(d)'
        BY <1>3, <2>1, <3>1, EmptyDomain DEF Lines
      <4>2. \A i \in DOMAIN cout'[d] : cout'[d][i].kind = "written" => out' = Dump(cout'[d][i].tag)
        <5>1. TAKE i \in DOMAIN cout'[d]
        <5>2. HAVE cout'[d][i].kind = "written"
        <5>3. cout'[d][i] = r
          BY <3>1, <5>2
        <5>4. out' = Dump(r.tag)
          BY <2>3, <3>2, <5>2, <5>3
        <5> QED
          BY <5>3, <5>4
      <4>3. \A i \in DOMAIN stdout'[d] : FALSE
        BY <1>3, EmptyDomain
      <4>4. Told(d)'
        BY <2>1, <4>2, <4>3 DEF Told
      <4> QED
        BY <4>1, <4>4
  <2>6. Filtered(d)'
    <3>1. \A i \in DOMAIN cout'[d] : cout'[d][i].tag # 0 => cout'[d][i].tag = id'[a] /\ i = Len(cout'[d])
      BY <1>3, <1>4, <2>2, <2>3
    <3> QED
      BY <1>3, <2>1, <3>1 DEF Filtered, Dumping, DumpSteps
  <2> QED
    BY <2>4, <2>5, <2>6 DEF Placed
<1> QED
  BY <1>5, <1>6

(* So does a step of a daemon.                                             *)
LEMMA RestDaemon ==
  ASSUME IInv, NEW d \in Daemons, Work(d) \/ Die(d)
  PROVE  \A e \in Daemons : Rest(e)'
<1>1. /\ TypeOK /\ Ordered /\ Each(d) /\ Rest(d) /\ Alive(d) /\ d = daemon
      /\ UNCHANGED <<daemon, qlock, pc, call, id, sess, calls>>
  BY WorkAlive, OneAlive DEF IInv, Each, Rest
<1>2. /\ DOMAIN proc = Daemons /\ DOMAIN job = Daemons /\ DOMAIN stdin = Daemons
      /\ DOMAIN cout = Daemons /\ DOMAIN stdout = Daemons
      /\ stdin[d] \in Seq(Jobs) /\ cout[d] \in Seq(Replies) /\ stdout[d] \in Seq(Replies)
  BY <1>1 DEF TypeOK
<1>3. ASSUME NEW e \in Daemons, e # d PROVE Rest(e)'
  <2>1. ~Alive(e) /\ Rest(e)
    BY <1>1, <1>3, OneAlive DEF IInv, Each, Rest
  <2>2. /\ proc'[e] = proc[e] /\ stdin'[e] = stdin[e] /\ cout'[e] = cout[e] /\ stdout'[e] = stdout[e]
    <3>1. CASE Load(d) \/ GetLine(d) \/ Forward(d) \/ Exit(d) \/ Die(d)
      BY <1>2, <1>3, <3>1 DEF Load, GetLine, Forward, Exit, Die, Step, Say, pipes
    <3>2. CASE DumpOpen(d) \/ DumpWrite(d) \/ DumpReplace(d) \/ DumpRename(d) \/ DumpCleanup(d)
      BY <1>2, <1>3, <3>2 DEF DumpOpen, DumpWrite, DumpReplace, DumpRename, DumpCleanup, Reply, Step, Say, dumping
    <3> QED
      BY <3>1, <3>2 DEF Work
  <2>3. ~Alive(e)' /\ ~Running(e)'
    BY <2>1, <2>2 DEF Alive, Running, DumpSteps
  <2>4. Fresh(e)' /\ Answers(e)'
    BY <1>1, <2>1, <2>2 DEF Rest, Fresh, Answers, Reads
  <2>5. Placed(e)' /\ Told(e)' /\ Recorded(e)'
    BY <2>3 DEF Placed, Told, Recorded, Running, DumpSteps
  <2> QED
    BY <2>4, <2>5 DEF Rest
<1>4. \A a \in Agents : (Reads(a, d) <=> Reads(a, d)') /\ Command(a)' = Command(a)
  BY <1>1 DEF Reads, Command
<1>5. 0 \in Tags /\ \A a \in Agents : Reads(a, d) => id[a] # 0 /\ id[a] \in Tags
  BY <1>1, WaveServerAssumption DEF IInv, Flow, Reads, Tags, TypeOK
<1>6. Running(d) => Asked(d) /\ Executed(d) /\ Filtered(d) /\ Lines(d)
  BY <1>1 DEF Rest, Placed
<1>7. CASE Load(d)
  <2>1. /\ proc[d] = "loading" /\ UNCHANGED <<job, stdin, stdout, disk>>
        /\ cout[d] = <<>> /\ stdout[d] = <<>> /\ Running(d)
    BY <1>6, <1>7 DEF Load, Lines, Running
  <2>2. \/ proc'[d] = "serving" /\ cout'[d] = <<>>
        \/ proc'[d] = "serving" /\ cout'[d] = <<[tag |-> 0, kind |-> "banner"]>>
        \/ proc'[d] = "exiting" /\ cout'[d] = <<[tag |-> 0, kind |-> "error"]>>
    BY <1>2, <1>7, <2>1 DEF Load, Step, Say
  <2>3. Answers(d)'
    BY <2>1, EmptyDomain DEF Answers
  <2>4. \A i \in DOMAIN cout'[d] : cout'[d][i].tag = 0 /\ cout'[d][i].kind # "written"
    BY <2>2
  <2>5. CASE proc'[d] = "exiting"
    <3>1. stdout'[d] = <<>> /\ Quiet(cout'[d])
      BY <2>1, <2>4 DEF Quiet
    <3>2. Told(d)'
      BY <2>4, <3>1, EmptyDomain DEF Told, Quiet
    <3> QED
      BY <1>3, <2>3, <2>5, <3>2, Ended
  <2>6. CASE proc'[d] = "serving"
    <3>1. \A i \in DOMAIN cout'[d] : cout'[d][i].tag = 0 /\ cout'[d][i].kind = "banner"
      BY <2>2, <2>6
    <3>2. Asked(d)'
      BY <1>4, <1>6, <2>1, <2>4, <2>6 DEF Asked, Quiet, Dumping, DumpSteps
    <3>3. Executed(d)' /\ Filtered(d)' /\ Lines(d)' /\ Told(d)' /\ Recorded(d)' /\ Fresh(d)'
      BY <2>1, <2>4, <2>6, <3>1, EmptyDomain DEF Executed, Filtered, Lines, Told, Recorded, Fresh, Quiet, Dumping, DumpSteps
    <3> QED
      BY <1>3, <2>3, <3>2, <3>3 DEF Rest, Placed
  <2> QED
    BY <1>3, <2>2, <2>5, <2>6
<1>8. CASE Exit(d) \/ Die(d)
  <2>1. /\ proc'[d] = "dead" /\ stdout' = stdout /\ cout'[d] = <<>>
    BY <1>2, <1>8 DEF Exit, Die, Step, pipes
  <2>2. Answers(d)'
    BY <1>1, <1>4, <2>1 DEF Rest, Answers, Reads
  <2>3. Rest(d)'
    BY <2>1, <2>2, EmptyDomain, Ended
  <2> QED
    BY <1>3, <2>3
<1>9. CASE GetLine(d)
  <2>1. proc[d] = "serving" /\ stdin[d] # <<>> /\ Running(d)
    BY <1>9 DEF GetLine, Running
  <2>2. PICK a \in Agents : Reads(a, d) /\ stdin[d] = <<Command(a)>>
    BY <1>6, <2>1 DEF Asked
  <2>3. Quiet(cout[d]) /\ stdout[d] = <<>> /\ Lines(d) /\ Reads(a, d)' /\ Command(a)' = Command(a)
    BY <1>4, <1>6, <2>1, <2>2 DEF Asked
  <2>4. \A i \in DOMAIN cout[d] : cout[d][i].tag = 0 /\ cout[d][i].kind = "banner"
    BY <2>3 DEF Quiet, Lines
  <2>5. Head(stdin[d]) = Command(a) /\ Tail(stdin[d]) = <<>>
    BY <2>2
  <2>6. /\ job'[d] = Command(a) /\ stdin'[d] = <<>> /\ stdout'[d] = <<>> /\ UNCHANGED disk
    BY <1>2, <1>9, <2>3, <2>5 DEF GetLine
  <2>7. Fresh(d)' /\ Answers(d)' /\ Asked(d)'
    <3>1. proc'[d] # "unborn"
      BY <1>2, <1>9, <2>1 DEF GetLine, Step
    <3> QED
      BY <2>6, <3>1, EmptyDomain DEF Fresh, Answers, Asked
  <2>8. CASE call[a] = "query"
    <3> DEFINE r == [tag |-> id[a], kind |-> "answer"]
    <3>1. proc'[d] = "serving" /\ cout'[d] = Append(cout[d], r)
      BY <1>2, <1>9, <2>1, <2>5, <2>8 DEF GetLine, Say, Command
    <3>2. id[a] # 0 /\ r \in Replies
      BY <1>5, <2>2 DEF Replies
    <3>3. /\ Len(cout'[d]) = Len(cout[d]) + 1
          /\ \A i \in DOMAIN cout'[d] : \/ i \in DOMAIN cout[d] /\ cout'[d][i] = cout[d][i]
                                        \/ i = Len(cout[d]) + 1 /\ cout'[d][i] = r
      BY <1>2, <3>1, <3>2, AppendedIs
    <3>4. \A i \in DOMAIN cout'[d] :
            /\ cout'[d][i].tag = 0 <=> cout'[d][i].kind = "banner"
            /\ cout'[d][i].kind # "written"
            /\ cout'[d][i].tag # 0 => cout'[d][i].tag = id'[a] /\ i = Len(cout'[d])
      BY <1>1, <2>4, <3>2, <3>3
    <3> HIDE DEF r
    <3>5. Lines(d)' /\ Told(d)' /\ Filtered(d)'
      BY <2>3, <2>6, <3>1, <3>4, EmptyDomain DEF Lines, Told, Filtered, Dumping, DumpSteps
    <3>6. Executed(d)' /\ Recorded(d)'
      BY <3>1 DEF Executed, Recorded, Dumping, DumpSteps
    <3> QED
      BY <1>3, <2>7, <3>5, <3>6 DEF Rest, Placed
  <2>9. CASE call[a] # "query"
    <3>1. proc'[d] = "open" /\ cout' = cout
      BY <1>2, <1>9, <2>5, <2>9 DEF GetLine, Step, Command
    <3>2. Lines(d)' /\ Told(d)' /\ Filtered(d)' /\ Recorded(d)'
      BY <2>3, <2>4, <2>6, <3>1, EmptyDomain DEF Lines, Told, Filtered, Quiet, Recorded
    <3>3. Executed(d)'
      BY <1>1, <2>3, <2>6, <2>9, <3>1 DEF Executed, Quiet
    <3> QED
      BY <1>3, <2>7, <3>2, <3>3 DEF Rest, Placed
  <2> QED
    BY <2>8, <2>9
<1>10. CASE Forward(d)
  <2> DEFINE h == Head(cout[d])
  <2>1. /\ cout[d] # <<>> /\ cout'[d] = Tail(cout[d]) /\ UNCHANGED <<proc, job, stdin, disk>>
        /\ stdout'[d] = IF h.kind = "banner" THEN stdout[d] ELSE Append(stdout[d], h)
    BY <1>2, <1>10 DEF Forward
  <2>2. /\ h \in Replies /\ h = cout[d][1] /\ 1 \in DOMAIN cout[d] /\ Len(Tail(cout[d])) = Len(cout[d]) - 1
        /\ \A i \in DOMAIN cout'[d] : i + 1 \in DOMAIN cout[d] /\ cout'[d][i] = cout[d][i + 1] /\ i \in 1..Len(cout[d]) - 1
    BY <1>2, <2>1, Tailed
  <2>3. /\ DOMAIN stdout[d] = 1..Len(stdout[d]) /\ Len(stdout[d]) \in Nat
        /\ \A i \in DOMAIN stdout'[d] :
             \/ i \in DOMAIN stdout[d] /\ stdout'[d][i] = stdout[d][i]
             \/ h.kind # "banner" /\ i = Len(stdout[d]) + 1 /\ stdout'[d][i] = h
    BY <1>2, <2>1, <2>2, AppendedIs
  <2> HIDE DEF h
  <2>4. Fresh(d)' /\ Recorded(d)'
    BY <1>1, <2>1 DEF Rest, Fresh, Recorded, Alive, disk
  <2>5. Told(d)'
    <3>1. \A i \in DOMAIN cout'[d] : cout'[d][i].kind = "written" => out' = Dump(cout'[d][i].tag)
      BY <1>1, <2>1, <2>2 DEF Rest, Told, disk
    <3>2. \A i \in DOMAIN stdout'[d] : stdout'[d][i].kind = "written" => out' = Dump(stdout'[d][i].tag)
      BY <1>1, <2>1, <2>2, <2>3 DEF Rest, Told, disk
    <3>3. proc'[d] = "exiting" => Quiet(cout[d])'
      BY <1>1, <2>1, <2>2 DEF Rest, Told, Quiet
    <3> QED
      BY <3>1, <3>2, <3>3 DEF Told, Dump
  <2>6. CASE ~Running(d)
    <3>1. proc[d] = "exiting" /\ proc'[d] = "exiting"
      BY <1>1, <2>1, <2>6 DEF Running, Alive, TypeOK, DumpSteps
    <3>2. h.tag = 0
      BY <1>1, <2>2, <3>1 DEF Rest, Told, Quiet
    <3>3. Answers(d)'
      BY <1>1, <1>4, <2>3, <3>2 DEF Rest, Answers, Reads
    <3> QED
      BY <1>3, <2>5, <3>1, <3>3, Ended
  <2>7. CASE Running(d) /\ h.kind = "banner"
    <3>1. stdout'[d] = stdout[d] /\ proc[d] # "loading"
      BY <1>6, <2>1, <2>7 DEF Lines
    <3>2. Answers(d)'
      BY <1>1, <1>4, <3>1 DEF Rest, Answers, Reads
    <3>3. Quiet(cout[d]) => Quiet(cout[d])'
      BY <2>2 DEF Quiet
    <3>4. Asked(d)' /\ Executed(d)'
      <4>1. Asked(d) /\ Executed(d) /\ (Dumping(d)' <=> Dumping(d))
        BY <1>6, <2>1, <2>7 DEF Dumping
      <4>2. Asked(d)'
        BY <1>4, <2>1, <3>1, <3>3, <4>1 DEF Asked
      <4>3. Executed(d)'
        BY <1>1, <1>4, <2>1, <3>1, <3>3, <4>1 DEF Executed
      <4> QED
        BY <4>2, <4>3
    <3>5. Filtered(d)'
      <4>1. SUFFICES ASSUME ~Quiet(cout[d])' PROVE Filtered(d)'
        BY DEF Filtered
      <4>2. PICK a \in Agents : Reads(a, d) /\ \A i \in DOMAIN cout[d] :
              cout[d][i].tag # 0 => cout[d][i].tag = id[a] /\ i = Len(cout[d])
        BY <1>6, <2>7, <3>3, <4>1 DEF Filtered
      <4>3. \A i \in DOMAIN cout'[d] : cout'[d][i].tag # 0 => cout'[d][i].tag = id'[a] /\ i = Len(cout'[d])
        BY <1>1, <2>1, <2>2, <4>2
      <4> QED
        BY <1>4, <1>6, <2>1, <2>7, <3>1, <3>3, <4>1, <4>2, <4>3 DEF Filtered, Dumping
    <3>6. Lines(d)'
      BY <1>6, <2>1, <2>2, <2>7, <3>1 DEF Lines
    <3> QED
      BY <1>3, <2>4, <2>5, <3>2, <3>4, <3>5, <3>6 DEF Rest, Placed
  <2>8. CASE Running(d) /\ h.kind # "banner"
    <3>1. h.tag # 0 /\ ~Quiet(cout[d]) /\ proc[d] # "loading"
      BY <1>6, <2>1, <2>2, <2>8 DEF Lines, Quiet
    <3>2. PICK a \in Agents : Reads(a, d) /\ \A i \in DOMAIN cout[d] :
            cout[d][i].tag # 0 => cout[d][i].tag = id[a] /\ i = Len(cout[d])
      BY <1>6, <2>8, <3>1 DEF Filtered
    <3>3. h.tag = id[a] /\ Len(cout[d]) = 1 /\ stdin[d] = <<>> /\ stdout[d] = <<>> /\ ~Dumping(d)
      BY <1>6, <2>2, <2>8, <3>1, <3>2 DEF Filtered
    <3>4. \A i \in DOMAIN cout'[d] : FALSE
      BY <2>2, <3>3
    <3>5. \A i \in DOMAIN stdout'[d] : i = 1 /\ stdout'[d][i] = h
      BY <2>3, <3>3
    <3>6. Answers(d)'
      BY <1>1, <1>4, <3>2, <3>3, <3>5 DEF Answers
    <3>7. Asked(d)' /\ Executed(d)' /\ Filtered(d)' /\ Lines(d)'
      BY <2>1, <3>1, <3>3, <3>4, <3>5 DEF Asked, Executed, Filtered, Lines, Dumping, Quiet
    <3> QED
      BY <1>3, <2>4, <2>5, <3>6, <3>7 DEF Rest, Placed
  <2> QED
    BY <2>6, <2>7, <2>8
<1>11. ASSUME Dumping(d), UNCHANGED dumping, Work(d),
              \/ proc'[d] \in DumpSteps /\ cout' = cout
              \/ \E kind \in {"error", "written"} : Reply(d, kind) /\ (kind = "written" => out' = Dump(job[d].tag)),
              Recorded(d)'
       PROVE  \A e \in Daemons : Rest(e)'
  <2>1. UNCHANGED <<job, stdin, stdout, qlock, pc, id, call>>
    BY <1>11 DEF dumping, agent
  <2>2. Rest(d)'
    BY <1>11, <2>1, DumpSteppedOrAnswered DEF Rest
  <2> QED
    BY <1>3, <2>2
<1> USE DEF Step
<1>12. CASE DumpOpen(d)
  <2>1. Dumping(d) /\ Work(d) /\ UNCHANGED dumping
    BY <1>12 DEF DumpOpen, Dumping, DumpSteps, Work
  <2>2. \/ proc'[d] \in DumpSteps /\ cout' = cout
        \/ \E kind \in {"error", "written"} : Reply(d, kind) /\ (kind = "written" => out' = Dump(job[d].tag))
    BY <1>2, <1>12 DEF DumpOpen, DumpSteps
  <2>3. job[d] \in Jobs /\ job[d].tag \in Tags /\ Len(<<>>) = 0 /\ Records \in Nat
    BY <2>1, JobKnown, WaveServerAssumption
  <2>4. Recorded(d)'
    <3>1. proc[d] = "open" /\ UNCHANGED <<job, out, made>> /\ gone' = (gone \/ (made /\ out = None))
      BY <1>12 DEF DumpOpen, dumping
    <3>2. CASE proc'[d] = "serving"
      BY <3>2 DEF Recorded
    <3>3. CASE Step(d, "write") /\ tmp' = <<>> /\ (out = None \/ job[d].cmd = "replace")
      <4>1. tmp' \in Seq(Tags) /\ Len(tmp') <= Records /\ \A i \in DOMAIN tmp' : tmp'[i] = job'[d].tag
        BY <2>3, <3>3, EmptyPipes, EmptyDomain
      <4>2. proc'[d] = "write"
        BY <1>2, <3>3
      <4> QED
        BY <3>1, <3>3, <4>1, <4>2 DEF Recorded
    <3>4. proc'[d] = "serving" \/ (Step(d, "write") /\ tmp' = <<>> /\ (out = None \/ job[d].cmd = "replace"))
      BY <1>2, <1>12 DEF DumpOpen, Reply
    <3> QED
      BY <3>2, <3>3, <3>4
  <2> QED
    BY <1>11, <2>1, <2>2, <2>4
<1>13. CASE DumpWrite(d)
  <2>1. Dumping(d) /\ Work(d) /\ UNCHANGED dumping /\ proc[d] = "write"
    BY <1>13 DEF DumpWrite, Dumping, DumpSteps, Work
  <2>2. \/ proc'[d] \in DumpSteps /\ cout' = cout
        \/ \E kind \in {"error", "written"} : Reply(d, kind) /\ (kind = "written" => out' = Dump(job[d].tag))
    BY <1>2, <1>13 DEF DumpWrite, DumpSteps
  <2>3. /\ tmp \in Seq(Tags) /\ Len(tmp) <= Records /\ (\A i \in DOMAIN tmp : tmp[i] = job[d].tag)
        /\ job[d].tag \in Tags /\ job' = job /\ Records \in Nat /\ UNCHANGED <<out, made, gone>>
        /\ (out # None => job[d].cmd = "replace") /\ (made /\ out = None => gone)
    BY <1>1, <1>13, <2>1, JobKnown, WaveServerAssumption DEF Rest, Recorded, DumpWrite, dumping
  <2>4. CASE Len(tmp) < Records /\ tmp' = Append(tmp, job[d].tag) /\ proc' = proc
    <3>1. /\ tmp' \in Seq(Tags) /\ Len(tmp') = Len(tmp) + 1 /\ Len(tmp) \in Nat
          /\ \A i \in DOMAIN tmp' : tmp'[i] = job[d].tag
      BY <2>3, <2>4, AppendedIs
    <3> QED
      BY <1>11, <2>1, <2>2, <2>3, <2>4, <3>1 DEF Recorded
  <2>5. CASE Len(tmp) = Records /\ proc' = [proc EXCEPT ![d] = "replace"] /\ tmp' = tmp
    <3>1. tmp' = Dump(job[d].tag)
      BY <2>3, <2>5 DEF Dump
    <3>2. Recorded(d)'
      BY <1>2, <2>3, <2>5, <3>1 DEF Recorded, Dump
    <3> QED
      BY <1>11, <2>1, <2>2, <3>2
  <2>6. CASE proc' = [proc EXCEPT ![d] = "cleanup"]
    <3>1. Recorded(d)'
      BY <1>2, <2>3, <2>6 DEF Recorded
    <3> QED
      BY <1>11, <2>1, <2>2, <3>1
  <2>7. CASE Reply(d, "error")
    <3>1. Recorded(d)'
      BY <1>2, <2>7 DEF Recorded, Reply
    <3> QED
      BY <1>11, <2>1, <2>2, <3>1
  <2> QED
    BY <1>13, <2>4, <2>5, <2>6, <2>7 DEF DumpWrite
<1>14. CASE DumpReplace(d)
  <2>1. Dumping(d) /\ Work(d) /\ UNCHANGED dumping /\ proc[d] = "replace"
    BY <1>14 DEF DumpReplace, Dumping, DumpSteps, Work
  <2>2. proc'[d] \in DumpSteps /\ cout' = cout
    BY <1>2, <1>14 DEF DumpReplace, DumpSteps
  <2>3. /\ tmp = Dump(job[d].tag) /\ (out # None => job[d].cmd = "replace") /\ UNCHANGED <<job, tmp, made, gone>>
    BY <1>1, <1>14 DEF Rest, Recorded, DumpReplace, dumping
  <2>4. Recorded(d)'
    BY <1>2, <1>14, <2>3 DEF DumpReplace, Recorded, Dump
  <2> QED
    BY <1>11, <2>1, <2>2, <2>4
<1>15. CASE DumpRename(d)
  <2>1. Dumping(d) /\ Work(d) /\ UNCHANGED dumping /\ proc[d] = "rename"
    BY <1>15 DEF DumpRename, Dumping, DumpSteps, Work
  <2>2. tmp = Dump(job[d].tag)
    BY <1>1, <2>1 DEF Rest, Recorded
  <2>3. \/ proc'[d] \in DumpSteps /\ cout' = cout
        \/ \E kind \in {"error", "written"} : Reply(d, kind) /\ (kind = "written" => out' = Dump(job[d].tag))
    BY <1>2, <1>15, <2>2 DEF DumpRename, DumpSteps
  <2>4. Recorded(d)'
    BY <1>2, <1>15, <2>2 DEF DumpRename, Recorded, Reply
  <2> QED
    BY <1>11, <2>1, <2>3, <2>4
<1>16. CASE DumpCleanup(d)
  <2>1. Dumping(d) /\ Work(d) /\ UNCHANGED dumping /\ Reply(d, "error")
    BY <1>16 DEF DumpCleanup, Dumping, DumpSteps, Work
  <2>2. Recorded(d)'
    BY <1>2, <2>1 DEF Recorded, Reply
  <2> QED
    BY <1>11, <2>1, <2>2
<1> QED
  BY <1>7, <1>8, <1>9, <1>10, <1>12, <1>13, <1>14, <1>15, <1>16 DEF Work

-----------------------------------------------------------------------------
(* The file                                                                *)

LEMMA DiskAgent ==
  ASSUME NEW a \in Agents,
         Get(a) \/ Enter(a) \/ Send(a) \/ Read(a) \/ Timeout(a) \/ \E cmd \in Cmds : Call(a, cmd)
  PROVE  UNCHANGED disk
BY DEF Get, Enter, Send, Read, Timeout, Call, Return

(* What a step of a daemon does to the file.                               *)
LEMMA DiskDaemon ==
  ASSUME IInv, NEW d \in Daemons, Work(d) \/ Die(d)
  PROVE  /\ Intact' /\ NothingLost'
         /\ out # None /\ out' # out => Dumping(d) /\ job[d].cmd = "replace"
<1>1. Intact /\ NothingLost /\ Recorded(d)
  BY DEF IInv, Each
<1>2. CASE UNCHANGED disk
  BY <1>1, <1>2 DEF disk, Intact, NothingLost, Dump
<1>3. Dumping(d) => job[d].tag \in Tags
  BY JobKnown
<1>4. CASE DumpOpen(d)
  <2>1. UNCHANGED <<out, made>> /\ gone' = (gone \/ (made /\ out = None))
    BY <1>4 DEF DumpOpen
  <2> QED
    BY <1>1, <2>1 DEF Intact, NothingLost
<1>5. CASE DumpWrite(d) \/ DumpCleanup(d)
  <2>1. UNCHANGED <<out, made, gone>> /\ proc[d] \in {"write", "cleanup"}
    BY <1>5 DEF DumpWrite, DumpCleanup
  <2> QED
    BY <1>1, <2>1 DEF Intact, NothingLost, Recorded
<1>6. CASE DumpReplace(d)
  <2>1. proc[d] = "replace" /\ Dumping(d) /\ UNCHANGED <<tmp, made, gone>>
    BY <1>6 DEF DumpReplace, Dumping, DumpSteps
  <2>2. (out' = None /\ job[d].cmd = "replace") \/ out' = out
    BY <1>6 DEF DumpReplace
  <2>3. tmp' = Dump(job[d].tag) /\ job[d].tag \in Tags
    BY <1>1, <1>3, <2>1 DEF Recorded
  <2> QED
    BY <1>1, <2>1, <2>2, <2>3 DEF Intact, NothingLost
<1>7. CASE DumpRename(d)
  <2>1. proc[d] = "rename" /\ Dumping(d) /\ out = None
    BY <1>1, <1>7 DEF DumpRename, Dumping, DumpSteps, Recorded
  <2>2. tmp = Dump(job[d].tag) /\ job[d].tag \in Tags
    BY <1>1, <1>3, <2>1 DEF Recorded
  <2>3. CASE out' = tmp /\ tmp' = None
    <3>1. \E tag \in Tags : tmp = Dump(tag)
      BY <2>2
    <3>2. \E tag \in Tags : out' = Dump(tag)
      BY <2>3, <3>1
    <3>3. out' = None => \E tag \in Tags : tmp' = Dump(tag)
      BY <2>3, <3>2
    <3> QED
      BY <2>1, <3>2, <3>3 DEF Intact, NothingLost
  <2>4. CASE out' = out /\ gone' = (gone \/ out = None)
    BY <2>1, <2>4 DEF Intact, NothingLost
  <2> QED
    BY <1>7, <2>3, <2>4 DEF DumpRename
<1>8. CASE Load(d) \/ GetLine(d) \/ Forward(d) \/ Exit(d) \/ Die(d)
  BY <1>2, <1>8 DEF Load, GetLine, Forward, Exit, Die
<1> QED
  BY <1>4, <1>5, <1>6, <1>7, <1>8 DEF Work

-----------------------------------------------------------------------------
(* Together                                                                *)

LEMMA Initial == Init => IInv
<1> SUFFICES ASSUME Init PROVE IInv
  OBVIOUS
<1>1. /\ 0 \in Tags /\ "query" \in Cmds /\ MaxFaults \in Nat /\ MaxCalls \in Nat
      /\ Dump(0) \in Seq(Tags) /\ \A S : <<>> \in Seq(S)
  <2>1. 0 \in Tags /\ Records \in Nat /\ MaxFaults \in Nat /\ MaxCalls \in Nat
    BY WaveServerAssumption DEF Tags
  <2>2. Dump(0) \in Seq(Tags)
    BY <2>1 DEF Dump
  <2> QED
    BY <2>1, <2>2, EmptyPipes DEF Cmds
<1>2. TypeOK
  <2>1. /\ stdin \in [Daemons -> Seq(Jobs)] /\ cout \in [Daemons -> Seq(Replies)]
        /\ stdout \in [Daemons -> Seq(Replies)]
    BY <1>1 DEF Init
  <2>2. /\ out \in Seq(Tags) \cup {None} /\ tmp \in Seq(Tags) \cup {None}
        /\ made \in BOOLEAN /\ gone \in BOOLEAN
    BY <1>1 DEF Init
  <2>3. /\ pc \in [Agents -> {"idle", "get", "enter", "send", "read"}]
        /\ call \in [Agents -> Cmds] /\ id \in [Agents -> Tags] /\ sess \in [Agents -> Daemons \cup {0}]
    BY <1>1 DEF Init
  <2>4. /\ daemon \in Daemons \cup {0} /\ calls \in 0..MaxCalls /\ faults \in 0..MaxFaults
        /\ qlock \in [Daemons -> Agents \cup {None}] /\ job \in [Daemons -> Jobs \cup {None}]
        /\ proc \in [Daemons -> {"unborn", "loading", "serving", "exiting", "dead"} \cup DumpSteps]
    BY <1>1 DEF Init
  <2> QED
    BY <2>1, <2>2, <2>3, <2>4 DEF TypeOK
<1>3. Ordered
  BY WaveServerAssumption DEF Init, Ordered, Daemons
<1>4. Intact /\ NothingLost
  BY <1>1 DEF Init, Intact, NothingLost
<1>5. \A a \in Agents : Flow(a)
  BY DEF Init, Flow
<1>6. ASSUME NEW d \in Daemons PROVE Each(d)
  <2>1. proc[d] = "unborn" /\ stdin[d] = <<>> /\ cout[d] = <<>> /\ stdout[d] = <<>> /\ qlock[d] = None
    BY DEF Init
  <2>2. Placed(d) /\ Told(d) /\ Recorded(d)
    BY <2>1 DEF Placed, Running, Told, Alive, Recorded, DumpSteps
  <2> QED
    BY <2>1, <2>2, EmptyDomain DEF Each, Fresh, Locked, Answers
<1> QED
  BY <1>2, <1>3, <1>4, <1>5, <1>6 DEF IInv

(* The invariant is inductive.                                             *)
LEMMA Inductive == IInv /\ [Next]_vars => IInv'
<1> SUFFICES ASSUME IInv, [Next]_vars PROVE IInv'
  OBVIOUS
<1>1. ASSUME NEW a \in Agents,
             Get(a) \/ Enter(a) \/ Send(a) \/ Read(a) \/ Timeout(a) \/ \E cmd \in Cmds : Call(a, cmd)
      PROVE  IInv'
  <2>1. TypeOK' /\ Ordered'
    BY <1>1, AgentTypes, OrderedStep DEF Next, Agent
  <2>2. (\A b \in Agents : Flow(b))' /\ (\A d \in Daemons : Locked(d))'
    BY <1>1, FlowAgent
  <2>3. \A d \in Daemons : Rest(d)'
    BY <1>1, RestAgent
  <2>4. Intact' /\ NothingLost'
    BY <1>1, DiskAgent DEF IInv, disk, Intact, NothingLost, Dump
  <2> QED
    BY <2>1, <2>2, <2>3, <2>4 DEF IInv, Each, Rest
<1>2. ASSUME NEW d \in Daemons, Work(d) \/ Die(d) PROVE IInv'
  <2>1. TypeOK' /\ Ordered'
    BY <1>2, DaemonTypes, OrderedStep DEF Next
  <2>2. (\A b \in Agents : Flow(b))' /\ (\A e \in Daemons : Locked(e))'
    BY <1>2, FlowDaemon
  <2>3. \A e \in Daemons : Rest(e)'
    BY <1>2, RestDaemon
  <2>4. Intact' /\ NothingLost'
    BY <1>2, DiskDaemon
  <2> QED
    BY <2>1, <2>2, <2>3, <2>4 DEF IInv, Each, Rest
<1>3. CASE UNCHANGED vars
  <2>1. UNCHANGED <<daemon, proc, job, stdin, cout, stdout, qlock, out, tmp, made, gone, pc, call, id, sess, calls, faults>>
    BY <1>3 DEF vars, server, pipes, disk, agent
  <2>2. TypeOK' /\ Ordered' /\ Intact' /\ NothingLost' /\ (\A a \in Agents : Flow(a))'
    <3>1. TypeOK'
      BY <2>1 DEF IInv, TypeOK
    <3>2. Ordered' /\ Intact' /\ NothingLost' /\ (\A a \in Agents : Flow(a))'
      BY <2>1 DEF IInv, Ordered, Intact, NothingLost, Flow, Dump
    <3> QED
      BY <3>1, <3>2
  <2>3. ASSUME NEW d \in Daemons PROVE Each(d)'
    <3>1. Rest(d)'
      BY <2>1, Frame DEF Reads, disk
    <3>2. Locked(d)'
      BY <2>1 DEF IInv, Each, Locked
    <3> QED
      BY <3>1, <3>2 DEF Each, Rest
  <2> QED
    BY <2>2, <2>3 DEF IInv
<1> QED
  BY <1>1, <1>2, <1>3 DEF Next, Agent

(* The state of every agent, daemon, pipe and file is consistent, in every *)
(* order of calls, deaths, timeouts and failed steps.                      *)
THEOREM ServerInvariant == Spec => []IInv
<1> QED
  BY Initial, Inductive, PTL DEF Spec

(* The variables keep their types.                                         *)
THEOREM ServerTypes == Spec => []TypeOK
<1>1. IInv => TypeOK
  BY DEF IInv
<1> QED
  BY <1>1, ServerInvariant, PTL

(* At most one process of wave_agent_cli works for the waveform.           *)
THEOREM OneProcess == Spec => []OneDaemon
<1>1. IInv => OneDaemon
  BY OneAlive DEF OneDaemon
<1> QED
  BY <1>1, ServerInvariant, PTL

(* No agent reads the answer to another query, whatever died before.       *)
THEOREM OwnAnswers == Spec => []OwnAnswer
<1>1. IInv => OwnAnswer
  <2> SUFFICES ASSUME IInv, NEW d \in Daemons, NEW i \in DOMAIN stdout[d], stdout[d][i].tag # 0
               PROVE  i = 1 /\ qlock[d] # None /\ id[qlock[d]] = stdout[d][i].tag
    BY DEF OwnAnswer
  <2>1. PICK a \in Agents : i = 1 /\ Reads(a, d) /\ id[a] = stdout[d][i].tag
    BY DEF IInv, Each, Answers
  <2> QED
    BY <2>1, WaveServerAssumption DEF Reads
<1> QED
  BY <1>1, ServerInvariant, PTL

(* The file of a dump is whole, is the dump that was reported, is touched  *)
(* only by a call that may replace it, and is lost only as NothingLost     *)
(* says.                                                                   *)
THEOREM OutputIsSafe == Spec => OutputSafe
<1> DEFINE Preserved == out # None /\ out' # out => \E a \in Agents : call[a] = "replace" /\ pc[a] = "read"
<1>1. IInv => WholeOutput /\ NothingLost
  BY DEF IInv, Each, Intact, Told, WholeOutput
<1>2. IInv /\ [Next]_vars => Preserved
  <2> SUFFICES ASSUME IInv, [Next]_vars, out # None, out' # out
               PROVE  \E a \in Agents : call[a] = "replace" /\ pc[a] = "read"
    OBVIOUS
  <2>1. PICK d \in Daemons : Work(d) \/ Die(d)
    BY DiskAgent DEF Next, Agent, vars, disk
  <2>2. Dumping(d) /\ job[d].cmd = "replace"
    BY <2>1, DiskDaemon
  <2>3. PICK a \in Agents : Reads(a, d) /\ job[d] = Command(a)
    BY <2>2, JobKnown
  <2> QED
    BY <2>2, <2>3 DEF Reads, Command
<1>3. IInv' => WholeOutput' /\ NothingLost'
  BY <1>1, PTL
<1>4. IInv /\ IInv' /\ [Next]_vars => [WholeOutput' /\ NothingLost' /\ Preserved]_vars
  BY <1>2, <1>3
<1> QED
  BY <1>4, ServerInvariant, PTL DEF Spec, OutputSafe

---------------------------------------------------------------------------
(* The database of a waveform.                                             *)

(* The paths that the loop over the signals has visited with stem s.       *)
Visited(s) == {p \in DOMAIN info \ pending : p # s /\ StripBitSuffix(p) = s}

(* An entry stands for the only path of its stem; two make it ambiguous.   *)
Indexes ==
  /\ \A s \in DOMAIN base : Visited(s) = {base[s]}
  /\ \A s \in ambiguous : \E p, q \in Visited(s) : p # q
  /\ DOMAIN base \cap ambiguous = {}
  /\ \A p \in DOMAIN info \ pending :
       StripBitSuffix(p) # p => StripBitSuffix(p) \in DOMAIN base \cup ambiguous

(* No transition is later than the time that was read last.                *)
Past(w) == \A i \in DOMAIN w : w[i].t <= now
Timed == \A d \in DOMAIN trans : InOrder(trans[d]) /\ Flagged(trans[d]) /\ Past(trans[d])

WInv ==
  /\ WaveTypes /\ Timed
  /\ phase = "reading" => base = <<>> /\ ambiguous = {} /\ pending = {}
  /\ phase \in {"indexing", "ready"} => Indexes
  /\ phase = "ready" => pending = {}

---------------------------------------------------------------------------
(* Paths.                                                                  *)

LEMMA StripTopType == ASSUME NEW p \in Seq(Char) PROVE StripTop(p) \in Seq(Char)
<1>1. Len(Top) \in Nat
  BY WaveAssumption
<1>2. CASE IsPrefixOf(Top, p)
  <2>1. SubSeq(p, Len(Top) + 1, Len(p)) \in Seq(Char)
    BY <1>1
  <2> QED
    BY <1>2, <2>1 DEF StripTop
<1> QED
  BY <1>2 DEF StripTop

(* A stem ends before the first bracket.                                   *)
LEMMA StemHasNoBracket ==
    ASSUME NEW p \in Seq(Char)
    PROVE  StripBitSuffix(p) \in Seq(Char) /\ ~HasBracket(StripBitSuffix(p))
<1> DEFINE first == {i \in DOMAIN p : p[i] = Bracket /\ \A j \in 1..i-1 : p[j] # Bracket}
<1>1. CASE first = {}
  <2>1. StripBitSuffix(p) = p
    BY <1>1 DEF StripBitSuffix
  <2>2. ASSUME HasBracket(p)
        PROVE  FALSE
    <3> DEFINE B == {i \in Nat : i \in DOMAIN p /\ p[i] = Bracket}
    <3>1. B \in SUBSET Nat /\ B # {}
      BY <2>2 DEF HasBracket
    <3>2. PICK k \in B : \A j \in B : k <= j
      <4> HIDE DEF B
      <4> QED
        BY <3>1, LeastExists
    <3>3. k \in DOMAIN p /\ p[k] = Bracket /\ k \in Nat
      BY <3>2
    <3>4. \A j \in 1 .. k - 1 : p[j] # Bracket
      <4> SUFFICES ASSUME NEW j \in 1 .. k - 1, p[j] = Bracket
                   PROVE  FALSE
        OBVIOUS
      <4>1. j \in B
        BY <3>3
      <4> QED
        BY <3>2, <3>3, <4>1
    <3> QED
      BY <1>1, <3>3, <3>4
  <2> QED
    BY <2>1, <2>2
<1>2. CASE first # {}
  <2> DEFINE k == CHOOSE i \in first : TRUE
  <2>1. k \in first /\ StripBitSuffix(p) = SubSeq(p, 1, k - 1)
    BY <1>2 DEF StripBitSuffix
  <2> HIDE DEF k
  <2>2. k \in 1 .. Len(p) /\ \A j \in 1 .. k - 1 : p[j] # Bracket
    BY <2>1
  <2>3. /\ SubSeq(p, 1, k - 1) \in Seq(Char) /\ Len(SubSeq(p, 1, k - 1)) = k - 1
        /\ \A j \in 1 .. k - 1 : SubSeq(p, 1, k - 1)[j] = p[j]
    BY <2>2
  <2> QED
    BY <2>1, <2>2, <2>3 DEF HasBracket
<1> QED
  BY <1>1, <1>2

(* The prefix that is put before a path is the one that is taken off.      *)
LEMMA TopOfTop == ASSUME NEW s \in Seq(Char) PROVE StripTop(Top \o s) = s
<1> DEFINE t == Top \o s
<1>1. /\ Top \in Seq(Char) /\ Len(Top) \in Nat /\ Len(s) \in Nat
      /\ t \in Seq(Char) /\ Len(t) = Len(Top) + Len(s)
      /\ \A i \in 1 .. Len(Top) : t[i] = Top[i]
      /\ \A i \in 1 .. Len(s) : t[Len(Top) + i] = s[i]
  BY WaveAssumption
<1> HIDE DEF t
<1>2. SubSeq(t, 1, Len(Top)) = Top
  <2>1. /\ SubSeq(t, 1, Len(Top)) \in Seq(Char) /\ Len(SubSeq(t, 1, Len(Top))) = Len(Top)
        /\ \A i \in 1 .. Len(Top) : SubSeq(t, 1, Len(Top))[i] = t[i]
    BY <1>1
  <2> QED
    BY <1>1, <2>1, SameEntries
<1>3. SubSeq(t, Len(Top) + 1, Len(t)) = s
  <2>1. /\ SubSeq(t, Len(Top) + 1, Len(t)) \in Seq(Char) /\ Len(SubSeq(t, Len(Top) + 1, Len(t))) = Len(s)
        /\ \A i \in 1 .. Len(s) : SubSeq(t, Len(Top) + 1, Len(t))[i] = t[Len(Top) + i]
    BY <1>1
  <2> QED
    BY <1>1, <2>1, SameEntries
<1>4. IsPrefixOf(Top, t)
  BY <1>1, <1>2 DEF IsPrefixOf
<1> QED
  BY <1>3, <1>4 DEF StripTop, t

LEMMA TopHasNoBracket ==
    ASSUME NEW s \in Seq(Char), ~HasBracket(s)
    PROVE  ~HasBracket(Top \o s)
<1> SUFFICES ASSUME NEW i \in DOMAIN (Top \o s), (Top \o s)[i] = Bracket
             PROVE  FALSE
  BY DEF HasBracket
<1>1. /\ Len(Top) \in Nat /\ Len(s) \in Nat /\ i \in 1 .. Len(Top) + Len(s)
      /\ DOMAIN Top = 1 .. Len(Top) /\ DOMAIN s = 1 .. Len(s)
  BY WaveAssumption
<1>2. CASE i <= Len(Top)
  <2>1. (Top \o s)[i] = Top[i] /\ i \in DOMAIN Top
    BY <1>1, <1>2, WaveAssumption
  <2> QED
    BY <2>1, WaveAssumption
<1>3. CASE i > Len(Top)
  <2>1. (Top \o s)[i] = s[i - Len(Top)] /\ i - Len(Top) \in DOMAIN s
    BY <1>1, <1>3, WaveAssumption
  <2> QED
    BY <2>1 DEF HasBracket
<1> QED
  BY <1>1, <1>2, <1>3

---------------------------------------------------------------------------
(* The file.                                                               *)

LEMMA InitHolds == WaveInit => WInv
<1> SUFFICES ASSUME WaveInit PROVE WInv
  OBVIOUS
<1>1. DOMAIN info = {} /\ DOMAIN trans = {} /\ DOMAIN base = {}
  BY DEF WaveInit
<1>2. WaveTypes
  <2>1. 0 \in 0 .. MaxTime /\ 0 \in 0 .. MaxLines /\ <<>> \in Seq(Char)
    BY WaveAssumption
  <2>2. info \in [DOMAIN info -> Signals] /\ trans \in [DOMAIN trans -> Seq(Transitions)]
        /\ base \in [DOMAIN base -> DOMAIN info]
    BY <1>1 DEF WaveInit
  <2> QED
    BY <1>1, <2>1, <2>2 DEF WaveInit, WaveTypes
<1> QED
  BY <1>1, <1>2 DEF WaveInit, WInv, Timed

LEMMA ReadScopeHolds == ASSUME WInv, NEW name \in Names, ReadScope(name) PROVE WInv'
<1>1. scope' \in Seq(Char) /\ lines' \in 0 .. MaxLines
  <2>1. scope \in Seq(Char) /\ name \in Seq(Char) /\ <<Dot>> \in Seq(Char) /\ lines \in 0 .. MaxLines
    BY WaveAssumption DEF WInv, WaveTypes
  <2>2. scope \o name \in Seq(Char)
    BY <2>1
  <2> QED
    BY <2>1, <2>2, WaveAssumption DEF ReadScope, Line
<1> QED
  BY <1>1 DEF WInv, WaveTypes, Timed, Past, ReadScope, Line, index

LEMMA ReadUpscopeHolds == ASSUME WInv, ReadUpscope PROVE WInv'
<1> DEFINE dots == {i \in 1..Len(scope) - 1 : scope[i] = Dot}
           k == CHOOSE i \in dots : \A j \in dots : j <= i
<1>1. scope \in Seq(Char) /\ Len(scope) \in Nat /\ lines \in 0 .. MaxLines /\ <<>> \in Seq(Char)
  BY DEF WInv, WaveTypes
<1>4. lines' \in 0 .. MaxLines /\ phase = "reading" /\ UNCHANGED <<phase, now, info, trans, base, ambiguous, pending>>
  BY <1>1, WaveAssumption DEF ReadUpscope, Line, index
<1>2. CASE dots = {}
  <2>1. scope' = <<>>
    BY <1>2 DEF ReadUpscope
  <2> QED
    BY <1>1, <1>4, <2>1 DEF WInv, WaveTypes, Timed, Past
<1>3. CASE dots # {}
  <2> DEFINE D == {i \in Nat : Len(scope) - i \in dots}
  <2>1. PICK d \in D : \A j \in D : d <= j
    <3>1. PICK i \in dots : TRUE
      BY <1>3
    <3>2. Len(scope) - i \in Nat /\ Len(scope) - (Len(scope) - i) = i
      BY <1>1
    <3>3. Len(scope) - i \in D
      BY <3>2
    <3>4. D \in SUBSET Nat /\ D # {}
      BY <3>3
    <3> HIDE DEF D
    <3> QED
      BY <3>4, LeastExists
  <2>2. Len(scope) - d \in dots
    BY <2>1
  <2>3. \A j \in dots : j <= Len(scope) - d
    <3> SUFFICES ASSUME NEW j \in dots
                 PROVE  j <= Len(scope) - d
      OBVIOUS
    <3>1. Len(scope) - j \in Nat /\ Len(scope) - (Len(scope) - j) = j /\ j \in Nat /\ d \in Nat
      BY <1>1, <2>1
    <3>2. d <= Len(scope) - j
      BY <2>1, <3>1
    <3> QED
      BY <1>1, <3>1, <3>2
  <2>4. k \in dots
    BY <2>2, <2>3
  <2>5. scope' = SubSeq(scope, 1, k)
    BY <1>3 DEF ReadUpscope
  <2> HIDE DEF k
  <2>6. k \in 1 .. Len(scope)
    BY <1>1, <2>4
  <2>7. scope' \in Seq(Char)
    BY <1>1, <2>5, <2>6
  <2> QED
    BY <1>4, <2>7 DEF WInv, WaveTypes, Timed, Past
<1> QED
  BY <1>2, <1>3

LEMMA ReadVarHolds == ASSUME WInv, NEW name \in Names, NEW signal \in Signals, ReadVar(name, signal) PROVE WInv'
<1> DEFINE path == StripTop(scope \o name)
<1>1. /\ WaveTypes /\ Timed /\ phase = "reading" /\ base = <<>> /\ ambiguous = {} /\ pending = {}
      /\ lines' \in 0 .. MaxLines /\ UNCHANGED <<phase, scope, now, base, ambiguous, pending>>
      /\ info' = [p \in DOMAIN info \cup {path} |-> IF p = path THEN signal ELSE info[p]]
      /\ trans' = [d \in DOMAIN trans \cup {signal.id} |-> IF d \in DOMAIN trans THEN trans[d] ELSE <<>>]
  BY WaveAssumption DEF WInv, WaveTypes, ReadVar, Line, index
<1>2. path \in Seq(Char)
  <2>1. scope \o name \in Seq(Char)
    BY <1>1, WaveAssumption DEF WaveTypes
  <2> QED
    BY <2>1, StripTopType
<1> HIDE DEF path
<1>3. DOMAIN info' \subseteq Seq(Char) /\ info' \in [DOMAIN info' -> Signals]
  BY <1>1, <1>2 DEF WaveTypes
<1>4. <<>> \in Seq(Transitions) /\ signal.id \in Ids
  BY DEF Signals
<1>5. DOMAIN trans' \subseteq Ids /\ trans' \in [DOMAIN trans' -> Seq(Transitions)]
  BY <1>1, <1>4 DEF WaveTypes
<1>6. WaveTypes'
  <2>1. DOMAIN base = {}
    BY <1>1
  <2>2. DOMAIN base' \subseteq Seq(Char) /\ base' \in [DOMAIN base' -> DOMAIN info']
    BY <1>1, <2>1 DEF WaveTypes
  <2> QED
    BY <1>1, <1>3, <1>5, <2>2 DEF WaveTypes
<1>7. Timed'
  <2> SUFFICES ASSUME NEW d \in DOMAIN trans'
               PROVE  (InOrder(trans[d]) /\ Flagged(trans[d]) /\ Past(trans[d]))'
    BY DEF Timed
  <2>1. CASE d \in DOMAIN trans
    <3>1. trans'[d] = trans[d]
      BY <1>1, <2>1
    <3>2. InOrder(trans[d]) /\ Flagged(trans[d]) /\ Past(trans[d])
      BY <1>1, <2>1 DEF Timed
    <3>3. InOrder(trans'[d]) /\ Flagged(trans'[d])
      BY <3>1, <3>2
    <3>4. \A i \in DOMAIN trans'[d] : trans'[d][i].t <= now'
      BY <1>1, <3>1, <3>2 DEF Past
    <3> QED
      BY <3>3, <3>4 DEF Past
  <2>2. CASE d \notin DOMAIN trans
    <3>1. trans'[d] = <<>> /\ DOMAIN trans'[d] = {}
      BY <1>1, <2>2
    <3> QED
      BY <3>1 DEF InOrder, Flagged, Past
  <2> QED
    BY <2>1, <2>2
<1> QED
  BY <1>1, <1>6, <1>7 DEF WInv

LEMMA ReadTimeHolds == ASSUME WInv, NEW t \in 0 .. MaxTime, ReadTime(t) PROVE WInv'
<1>1. /\ WaveTypes /\ Timed /\ phase = "reading" /\ now' = t /\ t > now /\ now \in 0 .. MaxTime
      /\ UNCHANGED <<phase, scope, info, trans, lines, base, ambiguous, pending>>
  BY DEF WInv, WaveTypes, ReadTime, index
<1>2. WaveTypes'
  BY <1>1 DEF WaveTypes
<1>3. Timed'
  <2> SUFFICES ASSUME NEW d \in DOMAIN trans, NEW i \in DOMAIN trans[d]
               PROVE  trans[d][i].t <= t
    <3>1. trans' = trans /\ now' = t
      BY <1>1
    <3>2. \A d \in DOMAIN trans : InOrder(trans[d]) /\ Flagged(trans[d])
      BY <1>1 DEF Timed
    <3> QED
      BY <3>1, <3>2 DEF Timed, Past
  <2>1. trans[d][i].t <= now /\ trans[d][i].t \in 0 .. MaxTime
    <3>1. trans[d] \in Seq(Transitions)
      BY <1>1 DEF WaveTypes
    <3>2. trans[d][i] \in Transitions
      BY <3>1
    <3> QED
      BY <1>1, <3>2 DEF Timed, Past, Transitions
  <2> QED
    BY <1>1, <2>1, WaveAssumption
<1> QED
  BY <1>1, <1>2, <1>3 DEF WInv

LEMMA ReadMalformedTimeHolds == WInv /\ ReadMalformedTime => WInv'
BY DEF WInv, WaveTypes, Timed, Past, ReadMalformedTime, file, index

(* A transition that is added at the end, at a time no earlier than any.   *)
LEMMA AppendedFits ==
    ASSUME NEW w \in Seq(Transitions), InOrder(w), Flagged(w),
           NEW t \in 0 .. MaxTime, \A i \in DOMAIN w : w[i].t <= t,
           NEW v \in UNION {Values[m] : m \in Widths}
    PROVE  /\ Appended(w, t, v) \in Seq(Transitions)
           /\ InOrder(Appended(w, t, v)) /\ Flagged(Appended(w, t, v))
           /\ \A i \in DOMAIN Appended(w, t, v) : Appended(w, t, v)[i].t <= t
<1> DEFINE u == Appended(w, t, v)
<1>1. PICK n \in Nat : n = Len(w) /\ DOMAIN w = 1 .. n
  OBVIOUS
<1> DEFINE again == n > 0 /\ w[n].t = t
<1>2. /\ DOMAIN u = 1 .. n + 1 /\ u[n + 1] = [t |-> t, v |-> v, glitch |-> again]
      /\ \A i \in 1 .. n : u[i] = IF again /\ i = n THEN [w[i] EXCEPT !.glitch = TRUE] ELSE w[i]
      /\ u = [i \in 1 .. n + 1 |-> u[i]]
  BY <1>1 DEF Appended
<1>3. \A i \in 1 .. n : w[i] \in Transitions /\ w[i].t \in 0 .. MaxTime /\ w[i].t <= t /\ w[i].glitch \in BOOLEAN
  <2>1. \A i \in 1 .. n : w[i] \in Transitions
    BY <1>1
  <2> QED
    BY <1>1, <2>1 DEF Transitions
<1>4. \A i \in 1 .. n : /\ u[i] \in Transitions /\ u[i].t = w[i].t
                        /\ u[i].glitch = ((again /\ i = n) \/ w[i].glitch)
  <2> HIDE DEF u
  <2> SUFFICES ASSUME NEW i \in 1 .. n
               PROVE  /\ u[i] \in Transitions /\ u[i].t = w[i].t
                      /\ u[i].glitch = ((again /\ i = n) \/ w[i].glitch)
    OBVIOUS
  <2>1. CASE again /\ i = n
    <3>1. u[i] = [w[i] EXCEPT !.glitch = TRUE]
      BY <1>2, <2>1
    <3>2. u[i].t = w[i].t /\ u[i].glitch = TRUE /\ u[i] \in Transitions
      BY <1>3, <3>1 DEF Transitions
    <3> QED
      BY <2>1, <3>2
  <2>2. CASE ~(again /\ i = n)
    <3>1. u[i] = w[i]
      BY <1>2, <2>2
    <3>2. u[i].glitch = w[i].glitch /\ u[i].t = w[i].t /\ w[i].glitch \in BOOLEAN
      BY <1>3, <3>1
    <3> QED
      BY <1>3, <2>2, <3>1, <3>2
  <2> QED
    BY <2>1, <2>2
<1>5. u[n + 1] \in Transitions /\ u[n + 1].t = t /\ u[n + 1].glitch = again
  BY <1>2 DEF Transitions
<1>6. \A i \in 1 .. n + 1 : i # n + 1 => i \in 1 .. n
  BY <1>1
<1> HIDE DEF u
<1>7. u \in Seq(Transitions)
  <2>1. \A i \in 1 .. n + 1 : u[i] \in Transitions
    BY <1>4, <1>5, <1>6
  <2>2. u \in [1 .. n + 1 -> Transitions]
    BY <1>2, <2>1
  <2> QED
    BY <1>1, <2>2
<1>8. InOrder(u) /\ \A i \in DOMAIN u : u[i].t <= t
  <2>1. \A i \in 1 .. n + 1 : u[i].t <= t
    BY <1>3, <1>4, <1>5, <1>6
  <2>2. ASSUME NEW i \in 1 .. n + 1, NEW j \in 1 .. n + 1, i < j
        PROVE  u[i].t <= u[j].t
    <3>1. i \in 1 .. n
      BY <1>1, <2>2
    <3>2. CASE j = n + 1
      BY <1>5, <2>1, <3>2
    <3>3. CASE j # n + 1
      <4>1. j \in 1 .. n
        BY <1>6, <3>3
      <4>2. w[i].t <= w[j].t
        BY <1>1, <2>2, <3>1, <4>1 DEF InOrder
      <4> QED
        BY <1>4, <3>1, <4>1, <4>2
    <3> QED
      BY <3>2, <3>3
  <2> QED
    BY <1>2, <2>1, <2>2 DEF InOrder
<1>9. ASSUME NEW i \in 1 .. n
      PROVE  u[i].glitch <=> \E j \in 1 .. n + 1 : j # i /\ u[j].t = u[i].t
  <2>1. w[i].glitch <=> \E j \in 1 .. n : j # i /\ w[j].t = w[i].t
    BY <1>1 DEF Flagged
  <2>2. (\E j \in 1 .. n + 1 : j # i /\ u[j].t = u[i].t) <=> (w[i].t = t \/ \E j \in 1 .. n : j # i /\ w[j].t = w[i].t)
    <3>1. \A j \in 1 .. n : u[j].t = w[j].t /\ j \in 1 .. n + 1
      BY <1>4
    <3>2. n + 1 \in 1 .. n + 1 /\ n + 1 # i
      BY <1>1
    <3> QED
      BY <1>5, <1>6, <3>1, <3>2
  <2>3. w[i].t = t => (again /\ i = n) \/ \E j \in 1 .. n : j # i /\ w[j].t = w[i].t
    <3> SUFFICES ASSUME w[i].t = t
                 PROVE  (again /\ i = n) \/ \E j \in 1 .. n : j # i /\ w[j].t = w[i].t
      OBVIOUS
    <3>1. n \in 1 .. n /\ n > 0
      BY <1>1
    <3>2. i # n => w[i].t <= w[n].t
      <4>1. i # n => i < n
        BY <1>1
      <4> QED
        BY <1>1, <3>1, <4>1 DEF InOrder
    <3>3. w[n].t <= t /\ w[n].t \in 0 .. MaxTime
      BY <1>3, <3>1
    <3>4. i # n => w[n].t = w[i].t
      BY <3>2, <3>3, WaveAssumption
    <3> QED
      BY <3>1, <3>4
  <2>4. again /\ i = n => w[i].t = t
    OBVIOUS
  <2>5. w[i].glitch \in BOOLEAN /\ u[i].glitch = ((again /\ i = n) \/ w[i].glitch)
    BY <1>3, <1>4
  <2> QED
    BY <2>1, <2>2, <2>3, <2>4, <2>5
<1>10. u[n + 1].glitch <=> \E j \in 1 .. n + 1 : j # n + 1 /\ u[j].t = u[n + 1].t
  <2>1. again => \E j \in 1 .. n + 1 : j # n + 1 /\ u[j].t = u[n + 1].t
    <3> SUFFICES ASSUME again
                 PROVE  \E j \in 1 .. n + 1 : j # n + 1 /\ u[j].t = u[n + 1].t
      OBVIOUS
    <3>1. n \in 1 .. n /\ n \in 1 .. n + 1 /\ n # n + 1
      BY <1>1
    <3> QED
      BY <1>4, <1>5, <3>1
  <2>2. ASSUME NEW j \in 1 .. n, u[j].t = t
        PROVE  again
    <3>1. w[j].t = t /\ n \in 1 .. n /\ n > 0 /\ (j # n => j < n)
      BY <1>1, <1>4, <2>2
    <3>2. w[j].t <= w[n].t
      <4>1. CASE j = n
        BY <1>3, <4>1
      <4>2. CASE j # n
        BY <1>1, <3>1, <4>2 DEF InOrder
      <4> QED
        BY <4>1, <4>2
    <3>3. w[n].t <= t /\ w[n].t \in 0 .. MaxTime
      BY <1>3, <3>1
    <3> QED
      BY <3>1, <3>2, <3>3, WaveAssumption
  <2> QED
    BY <1>5, <1>6, <2>1, <2>2
<1>11. Flagged(u)
  <2>1. \A i \in 1 .. n + 1 : u[i].glitch <=> \E j \in 1 .. n + 1 : j # i /\ u[j].t = u[i].t
    BY <1>6, <1>9, <1>10
  <2> QED
    BY <1>2, <2>1 DEF Flagged
<1> QED
  BY <1>7, <1>8, <1>11 DEF u

LEMMA ReadChangeHolds ==
    ASSUME WInv, NEW sid \in Ids, NEW v \in UNION {Values[m] : m \in Widths}, ReadChange(sid, v)
    PROVE  WInv'
<1>1. /\ WaveTypes /\ Timed /\ phase = "reading" /\ lines' \in 0 .. MaxLines /\ sid \in DOMAIN trans
      /\ trans' = [trans EXCEPT ![sid] = Appended(trans[sid], now, v)]
      /\ UNCHANGED <<phase, scope, now, info, base, ambiguous, pending>>
  BY WaveAssumption DEF WInv, WaveTypes, ReadChange, Line, index
<1>2. now \in 0 .. MaxTime /\ trans \in [DOMAIN trans -> Seq(Transitions)]
  BY <1>1 DEF WaveTypes
<1> DEFINE u == Appended(trans[sid], now, v)
<1>3. u \in Seq(Transitions) /\ InOrder(u) /\ Flagged(u) /\ \A i \in DOMAIN u : u[i].t <= now
  <2>1. trans[sid] \in Seq(Transitions)
    BY <1>1, <1>2
  <2>2. InOrder(trans[sid]) /\ Flagged(trans[sid]) /\ \A i \in DOMAIN trans[sid] : trans[sid][i].t <= now
    BY <1>1 DEF Timed, Past
  <2> QED
    BY <1>2, <2>1, <2>2, AppendedFits
<1> HIDE DEF u
<1>4. DOMAIN trans' = DOMAIN trans /\ \A d \in DOMAIN trans : trans'[d] = IF d = sid THEN u ELSE trans[d]
  BY <1>1, <1>2 DEF u
<1>5. trans' \in [DOMAIN trans -> Seq(Transitions)]
  BY <1>1, <1>2, <1>3 DEF u
<1>6. WaveTypes'
  BY <1>1, <1>4, <1>5 DEF WaveTypes
<1>7. Timed'
  <2> SUFFICES ASSUME NEW d \in DOMAIN trans
               PROVE  /\ InOrder(trans'[d]) /\ Flagged(trans'[d])
                      /\ \A i \in DOMAIN trans'[d] : trans'[d][i].t <= now
    BY <1>1, <1>4 DEF Timed, Past
  <2>1. CASE d = sid
    <3>1. trans'[d] = u
      BY <1>4, <2>1
    <3> QED
      BY <1>3, <3>1
  <2>2. CASE d # sid
    <3>1. trans'[d] = trans[d]
      BY <1>4, <2>2
    <3>2. InOrder(trans[d]) /\ Flagged(trans[d]) /\ \A i \in DOMAIN trans[d] : trans[d][i].t <= now
      BY <1>1 DEF Timed, Past
    <3> QED
      BY <3>1, <3>2
  <2> QED
    BY <2>1, <2>2
<1> QED
  BY <1>1, <1>6, <1>7 DEF WInv

---------------------------------------------------------------------------
(* The index.                                                              *)

LEMMA EndOfFileHolds == ASSUME WInv, EndOfFile PROVE WInv'
<1>1. /\ WaveTypes /\ Timed /\ base = <<>> /\ ambiguous = {} /\ phase' = "indexing" /\ pending' = DOMAIN info
      /\ UNCHANGED <<scope, now, info, trans, lines, base, ambiguous>>
  BY DEF WInv, EndOfFile, file
<1>2. WaveTypes' /\ Timed'
  BY <1>1 DEF WaveTypes, Timed, Past
<1>3. Indexes'
  BY <1>1 DEF Indexes, Visited
<1> QED
  BY <1>1, <1>2, <1>3 DEF WInv

LEMMA IndexPathHolds == ASSUME WInv, NEW path \in pending, IndexPath(path) PROVE WInv'
<1> DEFINE stem == StripBitSuffix(path)
           seen(s) == {p \in DOMAIN info \ (pending \ {path}) : p # s /\ StripBitSuffix(p) = s}
<1>1. /\ WaveTypes /\ Timed /\ Indexes /\ phase = "indexing" /\ pending' = pending \ {path}
      /\ UNCHANGED <<phase, scope, now, info, trans, lines>>
  BY DEF WInv, IndexPath, file
<1>2. path \in DOMAIN info /\ path \in Seq(Char) /\ stem \in Seq(Char)
  BY <1>1, StemHasNoBracket DEF WaveTypes
<1>3. \A s : seen(s) = IF s = stem /\ stem # path THEN Visited(s) \cup {path} ELSE Visited(s)
  BY <1>2 DEF Visited
<1>4. Timed'
  BY <1>1 DEF Timed, Past
<1> HIDE DEF stem
<1>5. CASE stem = path \/ stem \in ambiguous
  <2>1. UNCHANGED <<base, ambiguous>>
    BY <1>5 DEF IndexPath, stem
  <2>2. WaveTypes'
    BY <1>1, <2>1 DEF WaveTypes
  <2>3. \A s \in DOMAIN base : seen(s) = {base[s]}
    BY <1>1, <1>3, <1>5 DEF Indexes
  <2>4. \A s \in ambiguous : \E p, q \in seen(s) : p # q
    BY <1>1, <1>3 DEF Indexes
  <2>5. \A p \in DOMAIN info \ (pending \ {path}) : StripBitSuffix(p) # p => StripBitSuffix(p) \in DOMAIN base \cup ambiguous
    BY <1>1, <1>5 DEF Indexes, stem
  <2>6. Indexes'
    BY <1>1, <2>1, <2>3, <2>4, <2>5 DEF Indexes, Visited
  <2> QED
    BY <1>1, <1>4, <2>2, <2>6 DEF WInv
<1>6. CASE stem # path /\ stem \notin ambiguous /\ stem \notin DOMAIN base
  <2>1. /\ base' = [s \in DOMAIN base \cup {stem} |-> IF s = stem THEN path ELSE base[s]]
        /\ UNCHANGED ambiguous
    BY <1>6 DEF IndexPath, stem
  <2>2. WaveTypes'
    <3>1. DOMAIN base' \subseteq Seq(Char) /\ base' \in [DOMAIN base' -> DOMAIN info]
      BY <1>1, <1>2, <2>1 DEF WaveTypes
    <3> QED
      BY <1>1, <2>1, <3>1 DEF WaveTypes
  <2>3. Visited(stem) = {}
    BY <1>1, <1>6 DEF Indexes, Visited
  <2>4. ASSUME NEW s \in DOMAIN base' PROVE seen(s) = {base'[s]}
    <3>1. CASE s = stem
      <4>1. seen(s) = Visited(stem) \cup {path} /\ base'[s] = path
        BY <1>3, <1>6, <2>1, <3>1
      <4> HIDE DEF seen
      <4> QED
        BY <2>3, <4>1
    <3>2. CASE s # stem
      <4>1. seen(s) = Visited(s) /\ base'[s] = base[s] /\ s \in DOMAIN base
        BY <1>3, <2>1, <3>2
      <4> HIDE DEF seen
      <4> QED
        BY <1>1, <4>1 DEF Indexes
    <3> QED
      BY <3>1, <3>2
  <2>5. \A s \in ambiguous : \E p, q \in seen(s) : p # q
    BY <1>1, <1>3 DEF Indexes
  <2>6. \A p \in DOMAIN info \ (pending \ {path}) : StripBitSuffix(p) # p => StripBitSuffix(p) \in DOMAIN base' \cup ambiguous
    BY <1>1, <2>1 DEF Indexes, stem
  <2>7. Indexes'
    <3>1. \A s : Visited(s)' = seen(s)
      BY <1>1 DEF Visited
    <3>2. DOMAIN base' = DOMAIN base \cup {stem} /\ DOMAIN base' \cap ambiguous = {}
      BY <1>1, <1>6, <2>1 DEF Indexes
    <3> HIDE DEF seen
    <3> QED
      BY <1>1, <2>1, <2>4, <2>5, <2>6, <3>1, <3>2 DEF Indexes
  <2> QED
    BY <1>1, <1>4, <2>2, <2>7 DEF WInv
<1>7. CASE stem # path /\ stem \notin ambiguous /\ stem \in DOMAIN base
  <2>1. /\ base' = [s \in DOMAIN base \ {stem} |-> base[s]]
        /\ ambiguous' = ambiguous \cup {stem}
    BY <1>7 DEF IndexPath, stem
  <2>2. WaveTypes'
    <3>1. DOMAIN base' \subseteq Seq(Char) /\ base' \in [DOMAIN base' -> DOMAIN info] /\ ambiguous' \subseteq Seq(Char)
      BY <1>1, <1>2, <2>1 DEF WaveTypes
    <3> QED
      BY <1>1, <2>1, <3>1 DEF WaveTypes
  <2>3. Visited(stem) = {base[stem]} /\ path \notin Visited(stem)
    BY <1>1, <1>7 DEF Indexes, Visited
  <2>4. \A s \in DOMAIN base' : seen(s) = {base'[s]}
    BY <1>1, <1>3, <2>1 DEF Indexes
  <2>5. \A s \in ambiguous' : \E p, q \in seen(s) : p # q
    <3>1. \E p, q \in seen(stem) : p # q
      BY <1>3, <1>7, <2>3
    <3>2. \A s \in ambiguous : \E p, q \in seen(s) : p # q
      BY <1>1, <1>3 DEF Indexes
    <3> QED
      BY <2>1, <3>1, <3>2
  <2>6. \A p \in DOMAIN info \ (pending \ {path}) : StripBitSuffix(p) # p => StripBitSuffix(p) \in DOMAIN base' \cup ambiguous'
    BY <1>1, <2>1 DEF Indexes, stem
  <2>7. Indexes'
    BY <1>1, <2>1, <2>4, <2>5, <2>6 DEF Indexes, Visited
  <2> QED
    BY <1>1, <1>4, <2>2, <2>7 DEF WInv
<1> QED
  BY <1>5, <1>6, <1>7

LEMMA IndexedHolds == WInv /\ Indexed => WInv'
<1> SUFFICES ASSUME WInv, Indexed
             PROVE  WInv'
  OBVIOUS
<1>1. /\ WaveTypes /\ Timed /\ Indexes /\ phase' = "ready" /\ pending' = {} /\ pending = {}
      /\ UNCHANGED <<scope, now, info, trans, lines, base, ambiguous>>
  BY DEF WInv, Indexed, file, index
<1>2. WaveTypes' /\ Timed' /\ Indexes'
  BY <1>1 DEF WaveTypes, Timed, Past, Indexes, Visited
<1> QED
  BY <1>1, <1>2 DEF WInv

LEMMA StepHolds == WInv /\ [WaveNext]_waveVars => WInv'
<1> SUFFICES ASSUME WInv, [WaveNext]_waveVars
             PROVE  WInv'
  OBVIOUS
<1>1. CASE WaveNext
  BY <1>1, ReadScopeHolds, ReadUpscopeHolds, ReadVarHolds, ReadTimeHolds, ReadMalformedTimeHolds,
     ReadChangeHolds, EndOfFileHolds, IndexPathHolds, IndexedHolds DEF WaveNext
<1>2. CASE UNCHANGED waveVars
  BY <1>2 DEF waveVars, file, index, WInv, WaveTypes, Timed, Past, Indexes, Visited
<1> QED
  BY <1>1, <1>2

---------------------------------------------------------------------------
(* When the index is complete it resolves every stem to its only path.     *)
Stemmed(s) == {p \in DOMAIN info : p # s /\ StripBitSuffix(p) = s}
Plain(s) ==
  /\ ~IsPrefixOf(Top, s)
  /\ {s, Top \o s, Top \o (Top \o s)} \cap DOMAIN info = {}
Means(path, s) ==
  IF \E p \in DOMAIN info : Stemmed(s) = {p} THEN Stemmed(s) = {Resolve(path)} ELSE ~HasSignal(path)

LEMMA IndexResolves == WInv => StemIndex
<1> SUFFICES ASSUME WInv, phase = "ready",
                    NEW s \in {StripBitSuffix(p) : p \in DOMAIN info}, Plain(s), NEW path \in {s, Top \o s}
             PROVE  Means(path, s)
  BY DEF StemIndex, Plain, Means, Stemmed
<1>0. PICK p0 \in DOMAIN info : s = StripBitSuffix(p0)
  OBVIOUS
<1>1. WaveTypes /\ Indexes /\ pending = {}
  BY DEF WInv
<1>2. s \in Seq(Char) /\ ~HasBracket(s)
  BY <1>0, <1>1, StemHasNoBracket DEF WaveTypes
<1>3. StripTop(path) = s /\ ~HasBracket(path)
  <2>1. CASE path = s
    BY <1>2, <2>1 DEF StripTop, Plain
  <2>2. CASE path = Top \o s
    BY <1>2, <2>2, TopOfTop, TopHasNoBracket
  <2> QED
    BY <2>1, <2>2
<1>4. path \notin DOMAIN info /\ s \notin DOMAIN info /\ Top \o path \notin DOMAIN info
  BY DEF Plain
<1>5. Resolve(path) = IF s \in DOMAIN base THEN base[s] ELSE path
  BY <1>3, <1>4 DEF Resolve
<1>6. Visited(s) = Stemmed(s)
  BY <1>1 DEF Visited, Stemmed
<1>7. CASE s \in DOMAIN base
  <2>1. Stemmed(s) = {base[s]} /\ base[s] \in DOMAIN info
    BY <1>1, <1>6, <1>7 DEF Indexes, WaveTypes
  <2> QED
    BY <1>5, <1>7, <2>1 DEF Means
<1>8. CASE s \notin DOMAIN base
  <2>1. ~HasSignal(path)
    BY <1>4, <1>5, <1>8 DEF HasSignal
  <2>3. s \in ambiguous
    BY <1>0, <1>1, <1>4, <1>8 DEF Indexes
  <2>4. PICK p, q \in Stemmed(s) : p # q
    BY <1>1, <1>6, <2>3 DEF Indexes
  <2>5. ~\E r \in DOMAIN info : Stemmed(s) = {r}
    BY <2>4
  <2> QED
    BY <2>1, <2>5 DEF Means
<1> QED
  BY <1>7, <1>8

(* Whatever a file declares and in whatever order the loop visits its      *)
(* paths: every variable keeps its type, transitions are in order and      *)
(* flagged exactly where they share a time, and a path without its range   *)
(* stands for a signal exactly if one signal has that stem.                *)
THEOREM DatabaseIsExact == WaveSpec => []DatabaseExact
<1>1. WaveInit => WInv
  BY InitHolds
<1>2. WInv /\ [WaveNext]_waveVars => WInv'
  BY StepHolds
<1>3. WInv => DatabaseExact
  BY IndexResolves DEF WInv, Timed, GlitchesFlagged, DatabaseExact
<1> QED
  BY <1>1, <1>2, <1>3, PTL DEF WaveSpec

---------------------------------------------------------------------------
(* Answers in parts.                                                       *)

(* An answer to a continuation c, before which pos[c] entries of the list  *)
(* were given: the next ones, and where to go on.                          *)
Part(a, list, C, pos, c) ==
  \E m \in pos[c] .. Len(list) :
    /\ a.data = SubSeq(list, pos[c] + 1, m)
    /\ IF a.has_more THEN m > pos[c] /\ a.next_cursor \in C /\ pos[a.next_cursor] = m ELSE m = Len(list)

Answered(S, N) == [data : Seq(S), has_more : BOOLEAN, next_cursor : N]

(* What was collected after k further answers: the list, or at least k + 1 *)
(* entries of it.                                                          *)
Reached(g, list, C, pos, k) ==
  \E p \in 0 .. Len(list) :
    /\ g.data = SubSeq(list, 1, p)
    /\ IF g.has_more THEN p > k /\ g.next_cursor \in C /\ pos[g.next_cursor] = p ELSE p = Len(list)

More(ask, g) ==
  IF ~g.has_more THEN g
  ELSE [data |-> g.data \o ask[g.next_cursor].data,
        has_more |-> ask[g.next_cursor].has_more, next_cursor |-> ask[g.next_cursor].next_cursor]

LEMMA Joined ==
    ASSUME NEW S, NEW list \in Seq(S), NEW p \in 0 .. Len(list), NEW m \in p .. Len(list)
    PROVE  SubSeq(list, 1, p) \o SubSeq(list, p + 1, m) = SubSeq(list, 1, m)
<1> DEFINE u == SubSeq(list, 1, p)
           v == SubSeq(list, p + 1, m)
           w == SubSeq(list, 1, m)
<1>1. u \in Seq(S) /\ Len(u) = p /\ \A i \in 1 .. p : u[i] = list[i]
  OBVIOUS
<1>2. v \in Seq(S) /\ Len(v) = m - p /\ \A i \in 1 .. m - p : v[i] = list[p + i]
  OBVIOUS
<1>3. w \in Seq(S) /\ Len(w) = m /\ \A i \in 1 .. m : w[i] = list[i]
  OBVIOUS
<1> HIDE DEF u, v, w
<1>4. u \o v \in Seq(S) /\ Len(u \o v) = m
  <2>1. u \o v \in Seq(S) /\ Len(u \o v) = Len(u) + Len(v)
    BY <1>1, <1>2
  <2> QED
    BY ONLY <1>1, <1>2, <2>1
<1>5. ASSUME NEW i \in 1 .. m PROVE (u \o v)[i] = list[i]
  <2>1. CASE i <= p
    BY <1>1, <1>2, <2>1
  <2>2. CASE i > p
    <3>1. i - p \in 1 .. m - p /\ p + (i - p) = i
      BY <2>2
    <3>2. (u \o v)[i] = v[i - p]
      BY <1>1, <1>2, <2>2
    <3>3. v[i - p] = list[p + (i - p)]
      BY <1>2, <3>1
    <3> QED
      BY <3>1, <3>2, <3>3
  <2>3. i <= p \/ i > p
    OBVIOUS
  <2> QED
    BY <2>1, <2>2, <2>3
<1>6. u \o v = w
  BY <1>3, <1>4, <1>5, SameEntries
<1> QED
  BY <1>6 DEF u, v, w

LEMMA MoreReached ==
    ASSUME NEW S, NEW N, NEW list \in Seq(S), NEW C, NEW ask, \A c \in C : ask[c] \in Answered(S, N),
           NEW pos \in [C -> 0 .. Len(list)], \A c \in C : Part(ask[c], list, C, pos, c),
           NEW k \in Nat, NEW g \in Answered(S, N), Reached(g, list, C, pos, k)
    PROVE  More(ask, g) \in Answered(S, N) /\ Reached(More(ask, g), list, C, pos, k + 1)
<1>1. PICK p \in 0 .. Len(list) :
        /\ g.data = SubSeq(list, 1, p)
        /\ IF g.has_more THEN p > k /\ g.next_cursor \in C /\ pos[g.next_cursor] = p ELSE p = Len(list)
  BY DEF Reached
<1>2. CASE ~g.has_more
  <2>1. More(ask, g) = g
    BY <1>2 DEF More
  <2> QED
    BY <1>2, <2>1 DEF Reached
<1>3. CASE g.has_more
  <2> DEFINE c == g.next_cursor
             h == More(ask, g)
  <2>1. c \in C /\ pos[c] = p /\ p > k /\ ask[c] \in Answered(S, N)
    BY <1>1, <1>3
  <2>2. h = [data |-> g.data \o ask[c].data, has_more |-> ask[c].has_more, next_cursor |-> ask[c].next_cursor]
    BY <1>3 DEF More
  <2> HIDE DEF c, h
  <2>3. PICK m \in p .. Len(list) :
          /\ ask[c].data = SubSeq(list, p + 1, m)
          /\ IF ask[c].has_more THEN m > p /\ ask[c].next_cursor \in C /\ pos[ask[c].next_cursor] = m
             ELSE m = Len(list)
    BY <2>1 DEF Part
  <2>4. h.data = g.data \o ask[c].data /\ h.has_more = ask[c].has_more /\ h.next_cursor = ask[c].next_cursor
    BY <2>2
  <2>5. h.data = SubSeq(list, 1, m)
    BY <1>1, <2>3, <2>4, Joined
  <2>6. g.data \in Seq(S) /\ ask[c].data \in Seq(S) /\ ask[c].has_more \in BOOLEAN /\ ask[c].next_cursor \in N
    BY <2>1 DEF Answered
  <2>7. g.data \o ask[c].data \in Seq(S)
    BY <2>6
  <2>8. h \in Answered(S, N)
    BY <2>2, <2>6, <2>7 DEF Answered
  <2>9. m \in 0 .. Len(list) /\ (m > p => m > k + 1)
    BY <2>1
  <2>10. Reached(h, list, C, pos, k + 1)
    BY <2>3, <2>4, <2>5, <2>9 DEF Reached
  <2> QED
    BY <2>8, <2>10 DEF h
<1> QED
  BY <1>2, <1>3

(* Who asks again often enough collects the list.                          *)
LEMMA CollectedIs ==
    ASSUME NEW S, NEW N, NEW list \in Seq(S), NEW C, NEW ask, \A c \in C : ask[c] \in Answered(S, N),
           NEW pos \in [C -> 0 .. Len(list)], \A c \in C : Part(ask[c], list, C, pos, c),
           NEW first \in C, pos[first] = 0, NEW n \in Nat, Len(list) <= n
    PROVE  Whole(Collected(ask, first, n), list)
<1> DEFINE R == Answered(S, N)
           J == [k \in 0 .. n |-> {g \in R : Reached(g, list, C, pos, k)}]
           G == [x \in (1 .. n) \X R |-> More(ask, x[2])]
           got == CHOOSE f : f = [k \in 0 .. n |->
                    IF k = 0 THEN ask[first]
                    ELSE IF ~f[k - 1].has_more THEN f[k - 1]
                    ELSE [data |-> f[k - 1].data \o ask[f[k - 1].next_cursor].data,
                          has_more |-> ask[f[k - 1].next_cursor].has_more,
                          next_cursor |-> ask[f[k - 1].next_cursor].next_cursor]]
<1>1. Collected(ask, first, n) = got[n]
  BY DEF Collected
<1>2. J \in [0 .. n -> SUBSET R]
  OBVIOUS
<1>3. ask[first] \in J[0]
  <2>1. PICK m \in 0 .. Len(list) :
          /\ ask[first].data = SubSeq(list, 1, m)
          /\ IF ask[first].has_more
             THEN m > 0 /\ ask[first].next_cursor \in C /\ pos[ask[first].next_cursor] = m ELSE m = Len(list)
    <3>1. Part(ask[first], list, C, pos, first)
      OBVIOUS
    <3>2. pos[first] = 0 /\ pos[first] + 1 = 1
      OBVIOUS
    <3> QED
      BY ONLY <3>1, <3>2 DEF Part
  <2>2. Reached(ask[first], list, C, pos, 0)
    BY <2>1 DEF Reached
  <2> QED
    BY <2>2
<1>4. \A k \in 1 .. n : \A g \in J[k - 1] : More(ask, g) \in J[k] /\ G[<<k, g>>] = More(ask, g)
  <2> SUFFICES ASSUME NEW k \in 1 .. n, NEW g \in J[k - 1]
               PROVE  More(ask, g) \in J[k] /\ G[<<k, g>>] = More(ask, g)
    OBVIOUS
  <2>1. k - 1 \in 0 .. n /\ k - 1 \in Nat /\ k \in 0 .. n /\ (k - 1) + 1 = k
    OBVIOUS
  <2>2. g \in R /\ Reached(g, list, C, pos, k - 1)
    BY <2>1
  <2>3. More(ask, g) \in R /\ Reached(More(ask, g), list, C, pos, k)
    <3> HIDE DEF J, G, got
    <3> QED
      <4>1. More(ask, g) \in R /\ Reached(More(ask, g), list, C, pos, (k - 1) + 1)
        BY <2>1, <2>2, MoreReached
      <4> QED
        BY <2>1, <4>1
  <2> QED
    BY <2>1, <2>2, <2>3
<1> HIDE DEF R, J, G
<1>5. PICK f : InSteps(f, n, ask[first], G, J)
  BY <1>2, <1>3, <1>4, StepsInside
<1>6. f = [k \in 0 .. n |-> IF k = 0 THEN ask[first] ELSE More(ask, f[k - 1])]
  <2>1. ASSUME NEW k \in 0 .. n, k # 0
        PROVE  G[<<k, f[k - 1]>>] = More(ask, f[k - 1])
    <3>1. k - 1 \in 0 .. n /\ k \in 1 .. n
      BY <2>1
    <3> QED
      BY <1>4, <1>5, <3>1 DEF InSteps
  <2> QED
    BY <1>5, <2>1 DEF InSteps
<1>7. got = [k \in 0 .. n |-> IF k = 0 THEN ask[first] ELSE More(ask, got[k - 1])]
  BY <1>6 DEF More
<1> HIDE DEF got
<1>8. got[0] = ask[first] /\ \A k \in 1 .. n : got[k] = More(ask, got[k - 1])
  <2>1. 0 \in 0 .. n /\ \A k \in 1 .. n : k \in 0 .. n /\ k # 0
    OBVIOUS
  <2> QED
    BY <1>7, <2>1
<1>9. \A k \in 0 .. n : got[k] \in J[k]
  <2>1. got[0] \in J[0]
    BY <1>3, <1>8
  <2>2. \A k \in 1 .. n : got[k - 1] \in J[k - 1] => got[k] \in J[k]
    BY <1>4, <1>8
  <2> QED
    BY <2>1, <2>2, StepwiseIn
<1>10. Reached(got[n], list, C, pos, n) /\ got[n] \in R
  BY <1>9 DEF J
<1>11. ~got[n].has_more /\ got[n].data = SubSeq(list, 1, Len(list))
  BY <1>10 DEF Reached
<1>12. SubSeq(list, 1, Len(list)) = list
  <2>1. /\ SubSeq(list, 1, Len(list)) \in Seq(S) /\ Len(SubSeq(list, 1, Len(list))) = Len(list)
        /\ \A i \in 1 .. Len(list) : SubSeq(list, 1, Len(list))[i] = list[i]
    OBVIOUS
  <2> QED
    BY <2>1, SameEntries
<1> QED
  BY <1>1, <1>11, <1>12 DEF Whole

---------------------------------------------------------------------------
(* A list of transitions in the order of time.                             *)

Wave(w) == w \in Seq(Transitions) /\ InOrder(w) /\ Flagged(w)

(* A set of the first numbers.                                             *)
LEMMA FirstNumbers ==
    ASSUME NEW n \in Nat, NEW T \in SUBSET (1 .. n), \A i \in T : \A j \in 1 .. i : j \in T
    PROVE  Cardinality(T) \in 0 .. n /\ T = 1 .. Cardinality(T)
<1> DEFINE D == {j \in Nat : j # 0 /\ j \notin T}
<1>1. D \in SUBSET Nat /\ n + 1 \in D
  OBVIOUS
<1>2. PICK k \in D : \A j \in D : k <= j
  <2> HIDE DEF D
  <2> QED
    BY <1>1, LeastExists
<1>3. k \in Nat /\ k # 0 /\ k \notin T /\ k <= n + 1
  BY <1>1, <1>2
<1>4. \A j \in 1 .. k - 1 : j \in T
  <2> SUFFICES ASSUME NEW j \in 1 .. k - 1, j \notin T PROVE FALSE
    OBVIOUS
  <2>1. j \in D
    BY <1>3
  <2> QED
    BY <1>2, <1>3, <2>1
<1>5. \A i \in T : i < k
  <2> SUFFICES ASSUME NEW i \in T, ~(i < k) PROVE FALSE
    OBVIOUS
  <2>1. k \in 1 .. i
    BY <1>3
  <2> QED
    BY <1>3, <2>1
<1>6. T = 1 .. k - 1
  <2>1. \A i \in T : i \in 1 .. k - 1
    BY <1>3, <1>5
  <2> QED
    BY <1>4, <2>1
<1>7. Cardinality(1 .. k - 1) = k - 1
  BY <1>3, FS_Interval
<1> QED
  BY <1>3, <1>6, <1>7

LEMMA WaveIs ==
    ASSUME NEW w, Wave(w)
    PROVE  /\ DOMAIN w = 1 .. Len(w) /\ Len(w) \in Nat
           /\ \A i \in 1 .. Len(w) : w[i] \in Transitions /\ w[i].t \in 0 .. MaxTime
           /\ \A i, j \in 1 .. Len(w) : i <= j => w[i].t <= w[j].t
           /\ MaxTime \in Nat
<1>1. DOMAIN w = 1 .. Len(w) /\ Len(w) \in Nat /\ \A i \in 1 .. Len(w) : w[i] \in Transitions
  BY DEF Wave
<1>2. \A i \in 1 .. Len(w) : w[i].t \in 0 .. MaxTime
  BY <1>1 DEF Transitions
<1>3. MaxTime \in Nat
  BY WaveAssumption
<1>4. ASSUME NEW i \in 1 .. Len(w), NEW j \in 1 .. Len(w), i <= j
      PROVE  w[i].t <= w[j].t
  <2>1. CASE i = j
    BY <1>2, <1>3, <2>1
  <2>2. CASE i < j
    BY <1>1, <2>2 DEF Wave, InOrder
  <2> QED
    BY <1>4, <2>1, <2>2
<1> QED
  BY <1>1, <1>2, <1>3, <1>4

LEMMA UpToIs ==
    ASSUME NEW w, Wave(w), NEW t \in Int
    PROVE  /\ UpTo(w, t) \in 0 .. Len(w)
           /\ \A i \in 1 .. Len(w) : i <= UpTo(w, t) <=> w[i].t <= t
<1> DEFINE T == {i \in DOMAIN w : w[i].t <= t}
<1>1. T \in SUBSET (1 .. Len(w)) /\ Len(w) \in Nat
  BY WaveIs
<1>2. \A i \in T : \A j \in 1 .. i : j \in T
  <2> SUFFICES ASSUME NEW i \in T, NEW j \in 1 .. i PROVE j \in T
    OBVIOUS
  <2>1. i \in 1 .. Len(w) /\ j \in 1 .. Len(w) /\ j <= i /\ w[i].t <= t
    BY <1>1
  <2>2. w[j].t <= w[i].t /\ w[j].t \in Int /\ w[i].t \in Int /\ j \in DOMAIN w
    BY <2>1, WaveIs
  <2> QED
    BY <2>1, <2>2
<1>3. Cardinality(T) \in 0 .. Len(w) /\ T = 1 .. Cardinality(T)
  <2> HIDE DEF T
  <2> QED
    BY <1>1, <1>2, FirstNumbers
<1>4. UpTo(w, t) = Cardinality(T)
  BY DEF UpTo
<1>5. \A i \in 1 .. Len(w) : i \in T <=> w[i].t <= t
  BY WaveIs
<1> HIDE DEF T
<1> QED
  BY <1>1, <1>3, <1>4, <1>5

LEMMA FromIs ==
    ASSUME NEW w, Wave(w), NEW t \in Int
    PROVE  /\ From(w, t) \in 1 .. Len(w) + 1 /\ From(w, t) = UpTo(w, t - 1) + 1
           /\ \A i \in 1 .. Len(w) : i >= From(w, t) <=> w[i].t >= t
<1>1. {i \in DOMAIN w : w[i].t < t} = {i \in DOMAIN w : w[i].t <= t - 1}
  <2>1. \A i \in DOMAIN w : w[i].t < t <=> w[i].t <= t - 1
    BY WaveIs
  <2> QED
    BY <2>1
<1>2. From(w, t) = UpTo(w, t - 1) + 1
  <2>1. t - 1 \in Int
    OBVIOUS
  <2>2. UpTo(w, t - 1) \in 0 .. Len(w)
    BY <2>1, UpToIs
  <2>3. UpTo(w, t - 1) \in Int
    BY <2>2, WaveIs
  <2>4. From(w, t) = 1 + Cardinality({i \in DOMAIN w : w[i].t < t})
    BY DEF From
  <2>5. UpTo(w, t - 1) = Cardinality({i \in DOMAIN w : w[i].t <= t - 1})
    BY DEF UpTo
  <2>6. 1 + UpTo(w, t - 1) = UpTo(w, t - 1) + 1
    BY <2>3
  <2> QED
    BY <1>1, <2>4, <2>5, <2>6
<1>3. /\ UpTo(w, t - 1) \in 0 .. Len(w) /\ Len(w) \in Nat
      /\ \A i \in 1 .. Len(w) : i <= UpTo(w, t - 1) <=> w[i].t <= t - 1
  <2>1. t - 1 \in Int
    OBVIOUS
  <2> QED
    BY <2>1, UpToIs, WaveIs
<1>4. ASSUME NEW i \in 1 .. Len(w) PROVE i >= From(w, t) <=> w[i].t >= t
  <2>1. w[i].t \in Int
    BY WaveIs
  <2> QED
    BY <1>2, <1>3, <2>1
<1> QED
  BY <1>2, <1>3, <1>4

(* Without glitches no two transitions are at one time.                    *)
LEMMA Strictly ==
    ASSUME NEW w, Wave(w), \A i \in DOMAIN w : ~w[i].glitch
    PROVE  \A i, j \in 1 .. Len(w) : i < j => w[i].t < w[j].t
<1> SUFFICES ASSUME NEW i \in 1 .. Len(w), NEW j \in 1 .. Len(w), i < j
             PROVE  w[i].t < w[j].t
  OBVIOUS
<1>1. w[i].t <= w[j].t /\ w[i].t \in Int /\ w[j].t \in Int /\ DOMAIN w = 1 .. Len(w)
  BY WaveIs
<1>2. j \in DOMAIN w \ {i}
  BY <1>1
<1>3. w[j].t # w[i].t
  BY <1>1, <1>2 DEF Wave, Flagged
<1> QED
  BY <1>1, <1>3

---------------------------------------------------------------------------
(* A window in parts.                                                      *)

LEMMA CutIs ==
    ASSUME NEW S, NEW list \in Seq(S), NEW a \in Nat \ {0}, NEW b \in Nat, b <= Len(list), a <= b + 1
    PROVE  /\ SubSeq(list, a, b) \in Seq(S) /\ Len(SubSeq(list, a, b)) = b - a + 1
           /\ \A k \in 1 .. b - a + 1 : SubSeq(list, a, b)[k] = list[a + k - 1] /\ a + k - 1 \in a .. b
<1>1. \A k \in a .. b : list[k] \in S
  OBVIOUS
<1>2. Len(SubSeq(list, a, b)) = b - a + 1 /\ \A k \in 1 .. b - a + 1 : SubSeq(list, a, b)[k] = list[a + k - 1]
  OBVIOUS
<1>3. \A k \in 1 .. b - a + 1 : a + k - 1 \in a .. b
  OBVIOUS
<1>4. SubSeq(list, a, b) \in Seq(S)
  BY <1>1
<1> QED
  BY <1>2, <1>3, <1>4

LEMMA CutOfCut ==
    ASSUME NEW S, NEW list \in Seq(S), NEW a \in Nat \ {0}, NEW b \in Nat, b <= Len(list), a <= b + 1,
           NEW c \in Nat \ {0}, NEW d \in Nat, d <= b - a + 1, c <= d + 1
    PROVE  SubSeq(SubSeq(list, a, b), c, d) = SubSeq(list, a + c - 1, a + d - 1)
<1> DEFINE u == SubSeq(list, a, b)
           v == SubSeq(u, c, d)
           w == SubSeq(list, a + c - 1, a + d - 1)
<1>0. Len(list) \in Nat
  OBVIOUS
<1>1. u \in Seq(S) /\ Len(u) = b - a + 1 /\ \A k \in 1 .. b - a + 1 : u[k] = list[a + k - 1]
  BY CutIs
<1> HIDE DEF u
<1>2. v \in Seq(S) /\ Len(v) = d - c + 1 /\ \A k \in 1 .. d - c + 1 : v[k] = u[c + k - 1]
  BY <1>1, CutIs
<1>3. w \in Seq(S) /\ Len(w) = d - c + 1 /\ \A k \in 1 .. d - c + 1 : w[k] = list[(a + c - 1) + k - 1]
  <2> DEFINE x == a + c - 1
             y == a + d - 1
  <2>1. x \in Nat \ {0} /\ y \in Nat /\ y <= Len(list) /\ x <= y + 1 /\ y - x + 1 = d - c + 1
    BY <1>0
  <2> HIDE DEF x, y
  <2>2. /\ SubSeq(list, x, y) \in Seq(S) /\ Len(SubSeq(list, x, y)) = y - x + 1
        /\ \A k \in 1 .. y - x + 1 : SubSeq(list, x, y)[k] = list[x + k - 1]
    BY <2>1, CutIs
  <2> QED
    BY <2>1, <2>2 DEF x, y
<1> HIDE DEF v, w
<1>4. ASSUME NEW k \in 1 .. Len(v) PROVE v[k] = w[k]
  <2>1. k \in 1 .. d - c + 1 /\ k \in Int
    BY <1>2
  <2>2. c + k - 1 \in 1 .. b - a + 1
    BY ONLY <2>1, a \in Nat, b \in Nat, c \in Nat \ {0}, d \in Nat, d <= b - a + 1
  <2>3. a + (c + k - 1) - 1 = (a + c - 1) + k - 1
    BY ONLY <2>1, a \in Nat, c \in Nat
  <2> QED
    BY <1>1, <1>2, <1>3, <2>1, <2>2, <2>3
<1>5. v = w
  BY <1>2, <1>3, <1>4, SameEntries
<1> QED
  BY <1>5 DEF u, v, w

LEMMA PickedRun ==
    ASSUME NEW S, NEW list \in Seq(S), NEW a \in Nat \ {0}, NEW b \in Nat, b <= Len(list), a <= b + 1
    PROVE  Picked(list, a .. b) = SubSeq(list, a, b)
<1> DEFINE n == b - a + 1
           s == [k \in 1 .. n |-> a + k - 1]
<1>1. n \in Nat /\ s \in Seq(a .. b) /\ DOMAIN s = 1 .. n
  <2>1. n \in Nat /\ \A k \in 1 .. n : a + k - 1 \in a .. b
    OBVIOUS
  <2> QED
    BY <2>1
<1>2. a .. b \subseteq ToSet(s)
  <2> SUFFICES ASSUME NEW i \in a .. b PROVE i \in ToSet(s)
    OBVIOUS
  <2>1. i - a + 1 \in 1 .. n /\ a + (i - a + 1) - 1 = i
    OBVIOUS
  <2>2. s[i - a + 1] = i
    BY <2>1
  <2> QED
    BY <1>1, <2>1, <2>2 DEF ToSet
<1>3. a .. b \in SUBSET Int /\ IsFiniteSet(a .. b)
  BY FS_Interval
<1>4. \A i, j \in DOMAIN s : i < j => s[i] < s[j]
  BY <1>1
<1>5. s = Ascending(a .. b)
  <2> HIDE DEF s, n
  <2> QED
    BY <1>1, <1>2, <1>3, <1>4, AscendingOnce
<1>6. Picked(list, a .. b) = [k \in 1 .. n |-> list[a + k - 1]]
  BY <1>1, <1>5 DEF Picked
<1>7. /\ SubSeq(list, a, b) \in Seq(S) /\ Len(SubSeq(list, a, b)) = n
      /\ \A k \in 1 .. n : SubSeq(list, a, b)[k] = list[a + k - 1]
  BY CutIs
<1>8. SubSeq(list, a, b) = [k \in 1 .. n |-> SubSeq(list, a, b)[k]]
  BY <1>7
<1> QED
  BY <1>6, <1>7, <1>8

(* The transitions of a window.                                            *)
LEMMA WindowIs ==
    ASSUME NEW w, Wave(w), NEW start \in Int, NEW end \in Int, start <= end + 1
    PROVE  /\ From(w, start) \in 1 .. UpTo(w, end) + 1 /\ UpTo(w, end) \in 0 .. Len(w)
           /\ {i \in DOMAIN w : start <= w[i].t /\ w[i].t <= end} = From(w, start) .. UpTo(w, end)
           /\ From(w, start) \in Nat \ {0} /\ UpTo(w, end) \in Nat
<1>1. /\ Len(w) \in Nat /\ DOMAIN w = 1 .. Len(w) /\ \A i \in 1 .. Len(w) : w[i].t \in Int
  BY WaveIs
<1>2. UpTo(w, end) \in 0 .. Len(w) /\ \A i \in 1 .. Len(w) : i <= UpTo(w, end) <=> w[i].t <= end
  BY UpToIs
<1>3. /\ From(w, start) \in 1 .. Len(w) + 1
      /\ \A i \in 1 .. Len(w) : i >= From(w, start) <=> w[i].t >= start
  BY FromIs
<1>4. From(w, start) <= UpTo(w, end) + 1
  <2> DEFINE i == From(w, start) - 1
  <2>1. CASE From(w, start) = 1
    BY <1>1, <1>2, <2>1
  <2>2. CASE From(w, start) # 1
    <3>1. i \in 1 .. Len(w) /\ ~(i >= From(w, start))
      BY <1>1, <1>3, <2>2
    <3>2. w[i].t <= end
      BY <1>1, <1>3, <3>1
    <3> QED
      BY <1>1, <1>2, <1>3, <3>1, <3>2
  <2> QED
    BY <2>1, <2>2
<1>5. ASSUME NEW i \in 1 .. Len(w)
      PROVE  start <= w[i].t /\ w[i].t <= end <=> i \in From(w, start) .. UpTo(w, end)
  BY <1>1, <1>2, <1>3
<1>6. From(w, start) .. UpTo(w, end) \subseteq 1 .. Len(w)
  BY <1>1, <1>2, <1>3
<1>7. {i \in DOMAIN w : start <= w[i].t /\ w[i].t <= end} = From(w, start) .. UpTo(w, end)
  BY <1>1, <1>5, <1>6
<1> QED
  BY <1>1, <1>2, <1>3, <1>4, <1>7

LEMMA FromGrows ==
    ASSUME NEW w, Wave(w), NEW s \in Int, NEW t \in Int, s <= t
    PROVE  From(w, s) <= From(w, t)
<1>1. /\ From(w, s) \in 1 .. Len(w) + 1 /\ From(w, t) \in 1 .. Len(w) + 1 /\ Len(w) \in Nat
      /\ \A i \in 1 .. Len(w) : i >= From(w, s) <=> w[i].t >= s
      /\ \A i \in 1 .. Len(w) : i >= From(w, t) <=> w[i].t >= t
  BY FromIs, WaveIs
<1> SUFFICES ASSUME ~(From(w, s) <= From(w, t)) PROVE FALSE
  OBVIOUS
<1> DEFINE i == From(w, t)
<1>2. i \in 1 .. Len(w) /\ i >= From(w, t) /\ ~(i >= From(w, s))
  BY <1>1
<1>3. w[i].t \in Int
  BY <1>2, WaveIs
<1>4. w[i].t >= t /\ ~(w[i].t >= s)
  BY <1>1, <1>2
<1> QED
  BY <1>3, <1>4

Stop(w, from, end, limit) ==
  IF UpTo(w, end) < From(w, from) + limit THEN UpTo(w, end) ELSE From(w, from) + limit - 1
Answer(w, from, end, limit) ==
  LET part == get_transitions(w, from, end, limit)
  IN  [data |-> part.data, has_more |-> part.truncated,
       next_cursor |-> IF part.truncated THEN part.data[Len(part.data)].t + 1 ELSE 0]

(* An answer ends where the next one starts.                               *)
LEMMA StopIs ==
    ASSUME NEW w, Wave(w), \A i \in DOMAIN w : ~w[i].glitch,
           NEW from \in Int, NEW end \in Int, from <= end + 1, NEW limit \in Nat \ {0}
    PROVE  LET F == From(w, from)
               B == UpTo(w, end)
               s == Stop(w, from, end, limit)
               a == Answer(w, from, end, limit)
           IN  /\ s \in F - 1 .. B /\ s \in Nat /\ F \in Nat \ {0}
               /\ a = [data |-> SubSeq(w, F, s), has_more |-> s < B,
                       next_cursor |-> IF s < B THEN w[s].t + 1 ELSE 0]
               /\ s < B => s >= F /\ w[s].t \in from .. end /\ From(w, w[s].t + 1) = s + 1
<1> DEFINE F == From(w, from)
           B == UpTo(w, end)
           s == Stop(w, from, end, limit)
<1>1. F \in 1 .. B + 1 /\ B \in 0 .. Len(w) /\ F \in Nat \ {0} /\ B \in Nat /\ Len(w) \in Nat
  BY WindowIs, WaveIs
<1>2. s \in F - 1 .. B /\ s \in Nat /\ (s < B => s >= F)
  BY <1>1 DEF Stop
<1>3. s < B => s \in 1 .. Len(w) /\ w[s].t \in from .. end
  <2>1. \A i \in 1 .. Len(w) : i <= B <=> w[i].t <= end
    BY UpToIs
  <2>2. \A i \in 1 .. Len(w) : i >= F <=> w[i].t >= from
    BY FromIs
  <2>3. \A i \in 1 .. Len(w) : w[i].t \in Int
    BY WaveIs
  <2> HIDE DEF s, F, B
  <2> QED
    BY <1>1, <1>2, <2>1, <2>2, <2>3
<1>4. s < B => From(w, w[s].t + 1) = s + 1
  <2> SUFFICES ASSUME s < B PROVE From(w, w[s].t + 1) = s + 1
    OBVIOUS
  <2> DEFINE t == w[s].t
  <2>1. t \in Int /\ t + 1 \in Int /\ (t + 1) - 1 = t
    BY <1>3
  <2>2. From(w, t + 1) = UpTo(w, t) + 1
    BY <2>1, FromIs
  <2>3. UpTo(w, t) \in 0 .. Len(w) /\ \A i \in 1 .. Len(w) : i <= UpTo(w, t) <=> w[i].t <= t
    BY <2>1, UpToIs
  <2>4. \A i, j \in 1 .. Len(w) : i < j => w[i].t < w[j].t
    BY Strictly
  <2>5. \A i \in 1 .. Len(w) : w[i].t \in Int
    BY WaveIs
  <2>6. s <= UpTo(w, t)
    BY <1>3, <2>1, <2>3
  <2>7. UpTo(w, t) <= s
    <3> SUFFICES ASSUME ~(UpTo(w, t) <= s) PROVE FALSE
      OBVIOUS
    <3>1. UpTo(w, t) \in 1 .. Len(w) /\ s < UpTo(w, t)
      BY <1>1, <1>2, <1>3, <2>3
    <3>2. w[UpTo(w, t)].t <= t /\ t < w[UpTo(w, t)].t
      BY <1>3, <2>3, <2>4, <3>1
    <3> QED
      BY <2>1, <2>5, <3>1, <3>2
  <2> HIDE DEF s, t
  <2> QED
    BY <1>1, <1>2, <2>2, <2>3, <2>6, <2>7 DEF t
<1>5. Answer(w, from, end, limit)
        = [data |-> SubSeq(w, F, s), has_more |-> s < B, next_cursor |-> IF s < B THEN w[s].t + 1 ELSE 0]
  <2>1. get_transitions(w, from, end, limit) = [data |-> SubSeq(w, F, s), truncated |-> s < B]
    BY DEF get_transitions, Stop
  <2>2. s < B => SubSeq(w, F, s)[Len(SubSeq(w, F, s))] = w[s]
    <3> SUFFICES ASSUME s < B PROVE SubSeq(w, F, s)[Len(SubSeq(w, F, s))] = w[s]
      OBVIOUS
    <3>1. w \in Seq(Transitions) /\ s <= Len(w) /\ F <= s + 1 /\ s - F + 1 \in 1 .. s - F + 1 /\ F + (s - F + 1) - 1 = s
      BY <1>1, <1>2 DEF Wave
    <3> HIDE DEF s, F, B
    <3>2. /\ Len(SubSeq(w, F, s)) = s - F + 1
          /\ \A k \in 1 .. s - F + 1 : SubSeq(w, F, s)[k] = w[F + k - 1]
      BY <1>1, <1>2, <3>1, CutIs
    <3>3. SubSeq(w, F, s)[s - F + 1] = w[F + (s - F + 1) - 1]
      BY <3>1, <3>2
    <3> QED
      BY <3>1, <3>2, <3>3
  <2> HIDE DEF s, F, B
  <2> DEFINE part == get_transitions(w, from, end, limit)
  <2>3. part.data = SubSeq(w, F, s) /\ part.truncated = (s < B)
    <3>1. part = [data |-> SubSeq(w, F, s), truncated |-> s < B]
      BY <2>1
    <3> HIDE DEF part
    <3> QED
      BY <3>1, Zenon
  <2>4. Answer(w, from, end, limit)
          = [data |-> part.data, has_more |-> part.truncated,
             next_cursor |-> IF part.truncated THEN part.data[Len(part.data)].t + 1 ELSE 0]
    BY DEF Answer
  <2> HIDE DEF part
  <2> QED
    BY <2>2, <2>3, <2>4
<1> QED
  BY <1>1, <1>2, <1>3, <1>4, <1>5

LEMMA WindowContinues ==
    ASSUME NEW w, Wave(w), \A i \in DOMAIN w : ~w[i].glitch,
           NEW start \in 0 .. MaxTime, NEW end \in 0 .. MaxTime, start <= end, NEW limit \in Nat \ {0}
    PROVE  Whole(Continued(w, start, end, limit),
                 Picked(w, {i \in DOMAIN w : start <= w[i].t /\ w[i].t <= end}))
<1> DEFINE A == From(w, start)
           B == UpTo(w, end)
           list == SubSeq(w, A, B)
           C == start .. end + 1
           pos == [c \in C |-> From(w, c) - A]
           ask == [from \in 0 .. MaxTime + 1 |-> Answer(w, from, end, limit)]
<1>0. MaxTime \in Nat /\ start \in Int /\ end \in Int /\ start <= end + 1 /\ C \subseteq 0 .. MaxTime + 1 /\ start \in C
  BY WaveIs
<1>1. A \in 1 .. B + 1 /\ B \in 0 .. Len(w) /\ A \in Nat \ {0} /\ B \in Nat /\ Len(w) \in Nat /\ w \in Seq(Transitions)
      /\ B <= Len(w) /\ A <= B + 1
  <2>1. A \in 1 .. B + 1 /\ B \in 0 .. Len(w) /\ A \in Nat \ {0} /\ B \in Nat /\ Len(w) \in Nat /\ w \in Seq(Transitions)
    BY <1>0, WindowIs, WaveIs DEF Wave
  <2> HIDE DEF A, B
  <2> QED
    BY <2>1
<1>2. Picked(w, {i \in DOMAIN w : start <= w[i].t /\ w[i].t <= end}) = list
  <2>1. {i \in DOMAIN w : start <= w[i].t /\ w[i].t <= end} = A .. B
    BY <1>0, WindowIs
  <2>2. Picked(w, A .. B) = SubSeq(w, A, B)
    <3> HIDE DEF A, B
    <3> QED
      BY <1>1, PickedRun
  <2> QED
    BY <2>1, <2>2
<1>3. list \in Seq(Transitions) /\ Len(list) = B - A + 1 /\ Len(list) <= Len(w)
  <2> HIDE DEF A, B
  <2> QED
    BY <1>1, CutIs
<1> HIDE DEF list, A, B
<1>4. \A c \in C : From(w, c) \in A .. B + 1
  <2> SUFFICES ASSUME NEW c \in C PROVE From(w, c) \in A .. B + 1
    OBVIOUS
  <2>1. c \in Int /\ c <= end + 1 /\ start <= c
    BY <1>0
  <2>2. From(w, c) \in 1 .. B + 1
    BY <1>0, <2>1, WindowIs DEF B
  <2>3. A <= From(w, c)
    BY <1>0, <2>1, FromGrows DEF A
  <2> QED
    BY <1>1, <2>2, <2>3
<1>5. pos \in [C -> 0 .. Len(list)] /\ pos[start] = 0
  <2>1. \A c \in C : From(w, c) - A \in 0 .. Len(list)
    BY <1>1, <1>3, <1>4
  <2>2. From(w, start) - A = 0
    BY <1>1 DEF A
  <2> QED
    BY <1>0, <2>1, <2>2
<1>6. ASSUME NEW c \in C
      PROVE  ask[c] \in Answered(Transitions, Int) /\ Part(ask[c], list, C, pos, c)
  <2> DEFINE F == From(w, c)
             s == Stop(w, c, end, limit)
  <2>1. c \in Int /\ c <= end + 1 /\ start <= c /\ ask[c] = Answer(w, c, end, limit)
    BY <1>0
  <2>2. /\ s \in F - 1 .. B /\ s \in Nat /\ F \in Nat \ {0}
        /\ ask[c] = [data |-> SubSeq(w, F, s), has_more |-> s < B,
                    next_cursor |-> IF s < B THEN w[s].t + 1 ELSE 0]
        /\ s < B => s >= F /\ w[s].t \in c .. end /\ From(w, w[s].t + 1) = s + 1
    <3>1. c \in Int /\ end \in Int /\ c <= end + 1
      BY <1>0, <2>1
    <3> HIDE DEF ask, pos, C, F, s, B
    <3>2. /\ Stop(w, c, end, limit) \in From(w, c) - 1 .. UpTo(w, end) /\ Stop(w, c, end, limit) \in Nat
          /\ From(w, c) \in Nat \ {0}
          /\ Answer(w, c, end, limit)
               = [data |-> SubSeq(w, From(w, c), Stop(w, c, end, limit)),
                  has_more |-> Stop(w, c, end, limit) < UpTo(w, end),
                  next_cursor |-> IF Stop(w, c, end, limit) < UpTo(w, end)
                                  THEN w[Stop(w, c, end, limit)].t + 1 ELSE 0]
          /\ Stop(w, c, end, limit) < UpTo(w, end) =>
               /\ Stop(w, c, end, limit) >= From(w, c) /\ w[Stop(w, c, end, limit)].t \in c .. end
               /\ From(w, w[Stop(w, c, end, limit)].t + 1) = Stop(w, c, end, limit) + 1
      BY <3>1, StopIs
    <3> QED
      BY <2>1, <3>2 DEF F, s, B
  <2>3. F \in A .. B + 1 /\ pos[c] = F - A
    BY <1>4
  <2> HIDE DEF s, F, ask, pos, C
  <2>4. SubSeq(w, F, s) \in Seq(Transitions)
    BY <1>1, <2>2, CutIs
  <2>5. (IF s < B THEN w[s].t + 1 ELSE 0) \in Int
    BY <2>2
  <2>6. ask[c] \in Answered(Transitions, Int)
    BY <2>2, <2>4, <2>5 DEF Answered
  <2> DEFINE m == s - A + 1
  <2>7. m \in pos[c] .. Len(list) /\ (s < B => m > pos[c]) /\ (~(s < B) => m = Len(list))
    BY <1>1, <1>3, <2>2, <2>3
  <2>8. SubSeq(list, pos[c] + 1, m) = SubSeq(w, F, s)
    <3>0. A \in Nat \ {0} /\ B \in Nat /\ F \in Nat /\ s \in Nat /\ A <= F /\ F <= s + 1 /\ s <= B /\ pos[c] = F - A
      BY <1>1, <2>2, <2>3
    <3>1. /\ pos[c] + 1 \in Nat \ {0} /\ m \in Nat /\ m <= B - A + 1 /\ pos[c] + 1 <= m + 1
          /\ A + (pos[c] + 1) - 1 = F /\ A + m - 1 = s
      BY ONLY <3>0
    <3> HIDE DEF m
    <3>2. ASSUME NEW x \in Nat \ {0}, NEW y \in Nat, y <= B - A + 1, x <= y + 1
          PROVE  SubSeq(SubSeq(w, A, B), x, y) = SubSeq(w, A + x - 1, A + y - 1)
      BY ONLY <1>1, <3>2, CutOfCut
    <3>3. SubSeq(SubSeq(w, A, B), pos[c] + 1, m) = SubSeq(w, A + (pos[c] + 1) - 1, A + m - 1)
      BY <3>1, <3>2, Zenon
    <3> QED
      BY <3>1, <3>3 DEF list
  <2>9. s < B => w[s].t + 1 \in C /\ pos[w[s].t + 1] = m
    <3> SUFFICES ASSUME s < B PROVE w[s].t + 1 \in C /\ pos[w[s].t + 1] = m
      OBVIOUS
    <3>1. w[s].t + 1 \in C
      BY <1>0, <2>1, <2>2 DEF C
    <3>2. pos[w[s].t + 1] = From(w, w[s].t + 1) - A
      BY <3>1 DEF pos
    <3>3. (s + 1) - A = m
      BY <1>1, <2>2
    <3> QED
      BY <2>2, <3>1, <3>2, <3>3
  <2> HIDE DEF m
  <2>10. Part(ask[c], list, C, pos, c)
    <3>1. /\ ask[c].data = SubSeq(w, F, s) /\ ask[c].has_more = (s < B)
          /\ s < B => ask[c].next_cursor = w[s].t + 1
      BY <2>2
    <3> QED
      BY <2>7, <2>8, <2>9, <3>1 DEF Part
  <2> QED
    BY <2>6, <2>10
<1>7. Continued(w, start, end, limit) = Collected(ask, start, Len(w))
  BY DEF Continued, Answer
<1> HIDE DEF ask, pos, C
<1>8. Whole(Collected(ask, start, Len(w)), list)
  BY <1>0, <1>1, <1>3, <1>5, <1>6, CollectedIs
<1> QED
  BY <1>2, <1>7, <1>8

---------------------------------------------------------------------------
(* What a file declares.                                                   *)

(* Paths are finitely many, and none is empty.                            *)
Paths == IsFiniteSet(DOMAIN info) /\ DOMAIN info \subseteq Seq(Char) /\ <<>> \notin DOMAIN info

(* Each signal has a list of transitions, with values of its width.        *)
Declared ==
  /\ Paths
  /\ \A p \in DOMAIN info : /\ info[p].id \in DOMAIN trans
                            /\ \A i \in DOMAIN trans[info[p].id] : trans[info[p].id][i].v \in Values[info[p].width]

LEMMA DeclaredFirst == WaveInit => Declared
<1> SUFFICES ASSUME WaveInit PROVE Declared
  OBVIOUS
<1>1. DOMAIN info = {}
  BY DEF WaveInit
<1> QED
  BY <1>1, FS_EmptySet DEF Declared, Paths

(* A name is more than the prefix that is taken off.                       *)
LEMMA StrippedIsNamed ==
    ASSUME NEW s \in Seq(Char), NEW name \in Names
    PROVE  StripTop(s \o name) # <<>>
<1> DEFINE p == s \o name
<1>1. /\ name \in Seq(Char) /\ Len(name) \in Nat \ {0} /\ name[Len(name)] # Dot
      /\ Top \in Seq(Char) /\ Len(Top) \in Nat \ {0} /\ Top[Len(Top)] = Dot
  <2>1. name \in Seq(Char) /\ name # <<>> /\ name[Len(name)] # Dot
    BY WaveAssumption
  <2>2. Top \in Seq(Char) /\ Top # <<>> /\ Top[Len(Top)] = Dot
    BY WaveAssumption
  <2> QED
    BY <2>1, <2>2
<1>2. p \in Seq(Char) /\ Len(p) = Len(s) + Len(name) /\ p[Len(p)] = name[Len(name)] /\ Len(p) >= 1
  <2>1. p \in Seq(Char) /\ Len(p) = Len(s) + Len(name) /\ Len(s) \in Nat
    BY <1>1
  <2>2. p[Len(s) + Len(name)] = name[Len(name)]
    BY <1>1
  <2> HIDE DEF p
  <2> QED
    BY <1>1, <2>1, <2>2
<1> HIDE DEF p
<1>3. CASE ~IsPrefixOf(Top, p)
  <2>1. StripTop(p) = p
    BY <1>3 DEF StripTop
  <2>2. Len(<<>>) = 0
    OBVIOUS
  <2> QED
    BY <1>2, <2>1, <2>2 DEF p
<1>4. CASE IsPrefixOf(Top, p)
  <2> SUFFICES ASSUME StripTop(p) = <<>> PROVE FALSE
    BY DEF p
  <2>1. Len(Top) <= Len(p) /\ SubSeq(p, 1, Len(Top)) = Top /\ StripTop(p) = SubSeq(p, Len(Top) + 1, Len(p))
    BY <1>4 DEF IsPrefixOf, StripTop
  <2>2. Len(SubSeq(p, Len(Top) + 1, Len(p))) = Len(p) - Len(Top)
    <3>1. ASSUME NEW a \in Nat \ {0}, a <= Len(p) + 1
          PROVE  Len(SubSeq(p, a, Len(p))) = Len(p) - a + 1
      BY ONLY <1>2, <3>1
    <3>2. /\ Len(Top) + 1 \in Nat \ {0} /\ Len(Top) + 1 <= Len(p) + 1
          /\ Len(p) - (Len(Top) + 1) + 1 = Len(p) - Len(Top)
      BY <1>1, <1>2, <2>1
    <3>3. Len(SubSeq(p, Len(Top) + 1, Len(p))) = Len(p) - (Len(Top) + 1) + 1
      BY <3>1, <3>2, Zenon
    <3> QED
      BY <3>2, <3>3
  <2>3. Len(p) - Len(Top) = 0
    <3>1. SubSeq(p, Len(Top) + 1, Len(p)) = <<>>
      BY <2>1, Zenon
    <3>2. Len(<<>>) = 0
      OBVIOUS
    <3> QED
      BY <2>2, <3>1, <3>2, Zenon
  <2>4. Len(p) = Len(Top)
    BY <1>1, <1>2, <2>3
  <2>5. SubSeq(p, 1, Len(Top))[Len(Top)] = p[Len(Top)]
    BY <1>1, <1>2, <2>4
  <2> QED
    BY <1>1, <1>2, <2>1, <2>4, <2>5
<1> QED
  BY <1>3, <1>4

LEMMA DeclaredVar ==
    ASSUME WInv, Declared, NEW name \in Names, NEW signal \in Signals, ReadVar(name, signal)
    PROVE  Declared'
<1> DEFINE path == StripTop(scope \o name)
<1>1. /\ WaveTypes /\ Paths
      /\ \A p \in DOMAIN info : info[p].id \in DOMAIN trans
      /\ \A d \in DOMAIN trans : trans[d] = <<>>
      /\ info' = [p \in DOMAIN info \cup {path} |-> IF p = path THEN signal ELSE info[p]]
      /\ trans' = [d \in DOMAIN trans \cup {signal.id} |-> IF d \in DOMAIN trans THEN trans[d] ELSE <<>>]
  BY DEF WInv, Declared, ReadVar, Declaring
<1>2. path \in Seq(Char) /\ path # <<>>
  <2>1. scope \in Seq(Char)
    BY <1>1 DEF WaveTypes
  <2>2. scope \o name \in Seq(Char)
    BY <2>1, WaveAssumption
  <2> QED
    BY <2>1, <2>2, StripTopType, StrippedIsNamed
<1> HIDE DEF path
<1>3. DOMAIN info' = DOMAIN info \cup {path} /\ DOMAIN trans' = DOMAIN trans \cup {signal.id}
  BY <1>1
<1>4. Paths'
  <2>1. IsFiniteSet(DOMAIN info \cup {path})
    BY <1>1, FS_AddElement DEF Paths
  <2> QED
    BY <1>1, <1>2, <1>3, <2>1 DEF Paths
<1>5. \A d \in DOMAIN trans' : trans'[d] = <<>>
  BY <1>1
<1>6. \A p \in DOMAIN info' : info'[p].id \in DOMAIN trans'
  BY <1>1, <1>3
<1>7. DOMAIN <<>> = {}
  OBVIOUS
<1> QED
  BY <1>4, <1>5, <1>6, <1>7 DEF Declared

LEMMA DeclaredChange ==
    ASSUME WInv, Declared, NEW sid \in Ids, NEW v, ReadChange(sid, v)
    PROVE  Declared'
<1>1. /\ info' = info /\ Paths /\ sid \in DOMAIN trans /\ trans \in [DOMAIN trans -> Seq(Transitions)]
      /\ trans' = [trans EXCEPT ![sid] = Appended(trans[sid], now, v)]
      /\ \A p \in DOMAIN info : info[p].id = sid => v \in Values[info[p].width]
  BY DEF WInv, WaveTypes, Declared, ReadChange
<1> DEFINE u == Appended(trans[sid], now, v)
<1>2. DOMAIN trans' = DOMAIN trans /\ trans'[sid] = u /\ \A d \in DOMAIN trans : d # sid => trans'[d] = trans[d]
  BY <1>1
<1>3. \A i \in DOMAIN u : u[i].v = v \/ (i \in DOMAIN trans[sid] /\ u[i].v = trans[sid][i].v)
  <2> DEFINE w == trans[sid]
             n == Len(w)
             again == n > 0 /\ w[n].t = now
  <2>1. w \in Seq(Transitions) /\ n \in Nat /\ DOMAIN w = 1 .. n /\ \A i \in 1 .. n : w[i] \in Transitions
    BY <1>1
  <2>2. u = [i \in 1 .. n + 1 |-> IF i = n + 1 THEN [t |-> now, v |-> v, glitch |-> again]
                                  ELSE IF again /\ i = n THEN [w[i] EXCEPT !.glitch = TRUE] ELSE w[i]]
    BY DEF Appended
  <2> HIDE DEF w, n, again, u
  <2> SUFFICES ASSUME NEW i \in DOMAIN u PROVE u[i].v = v \/ (i \in DOMAIN w /\ u[i].v = w[i].v)
    BY DEF w
  <2>3. i \in 1 .. n + 1
    BY <2>2
  <2>4. CASE i = n + 1
    BY <2>2, <2>3, <2>4
  <2>5. CASE i # n + 1
    <3>1. i \in 1 .. n /\ u[i] = IF again /\ i = n THEN [w[i] EXCEPT !.glitch = TRUE] ELSE w[i]
      BY <2>1, <2>2, <2>3, <2>5
    <3>2. [w[i] EXCEPT !.glitch = TRUE].v = w[i].v
      BY <2>1, <3>1 DEF Transitions
    <3> QED
      BY <2>1, <3>1, <3>2
  <2> QED
    BY <2>4, <2>5
<1> HIDE DEF u
<1>4. ASSUME NEW p \in DOMAIN info
      PROVE  /\ info[p].id \in DOMAIN trans'
             /\ \A i \in DOMAIN trans'[info[p].id] : trans'[info[p].id][i].v \in Values[info[p].width]
  <2>1. /\ info[p].id \in DOMAIN trans
        /\ \A i \in DOMAIN trans[info[p].id] : trans[info[p].id][i].v \in Values[info[p].width]
    BY DEF Declared
  <2>2. CASE info[p].id = sid
    BY <1>1, <1>2, <1>3, <2>1, <2>2
  <2>3. CASE info[p].id # sid
    BY <1>2, <2>1, <2>3
  <2> QED
    BY <2>2, <2>3
<1> QED
  BY <1>1, <1>4 DEF Declared, Paths

LEMMA DeclaredStep == WInv /\ Declared /\ [WaveNext]_waveVars => Declared'
<1> SUFFICES ASSUME WInv, Declared, [WaveNext]_waveVars
             PROVE  Declared'
  OBVIOUS
<1>1. CASE UNCHANGED <<info, trans>>
  BY <1>1 DEF Declared, Paths
<1>2. CASE \E n \in Names, s \in Signals : ReadVar(n, s)
  BY <1>2, DeclaredVar
<1>3. CASE \E d \in Ids : \E v \in UNION {Values[n] : n \in Widths} : ReadChange(d, v)
  BY <1>3, DeclaredChange
<1> QED
  BY <1>1, <1>2, <1>3
     DEF WaveNext, ReadScope, ReadUpscope, ReadTime, ReadMalformedTime, EndOfFile, IndexPath, Indexed, waveVars, file

(* The transitions of a signal are a list that the queries can search.     *)
LEMMA SignalsAreWaves ==
    ASSUME WInv, Declared, NEW x \in Waves
    PROVE  /\ Wave(x.w) /\ x.width \in Widths
           /\ \A i \in DOMAIN x.w : x.w[i].v \in Values[x.width]
<1>1. PICK p \in DOMAIN info : x = [w |-> trans[info[p].id], width |-> info[p].width]
  BY DEF Waves
<1>2. info[p].id \in DOMAIN trans /\ info[p] \in Signals
  BY DEF Declared, WInv, WaveTypes
<1>3. trans[info[p].id] \in Seq(Transitions) /\ InOrder(trans[info[p].id]) /\ Flagged(trans[info[p].id])
  BY <1>2 DEF WInv, WaveTypes, Timed
<1>4. \A i \in DOMAIN trans[info[p].id] : trans[info[p].id][i].v \in Values[info[p].width]
  BY DEF Declared
<1>5. x.w = trans[info[p].id] /\ x.width = info[p].width
  BY <1>1
<1> QED
  BY <1>2, <1>3, <1>4, <1>5 DEF Wave, Signals

---------------------------------------------------------------------------
(* Pages of paths.                                                         *)

LEMMA PathsAreNumbers == Seq(Char) \subseteq Seq(Nat)
<1> SUFFICES ASSUME NEW s \in Seq(Char) PROVE s \in Seq(Nat)
  OBVIOUS
<1>1. s = [i \in 1 .. Len(s) |-> s[i]] /\ Len(s) \in Nat /\ \A i \in 1 .. Len(s) : s[i] \in Nat
  BY WaveAssumption
<1> QED
  BY <1>1

LEMMA MinMaxIs ==
    ASSUME NEW a \in Int, NEW b \in Int
    PROVE  Min({a, b}) = (IF a <= b THEN a ELSE b) /\ Max({a, b}) = (IF a >= b THEN a ELSE b)
<1>1. \A x \in {a, b} : (\A y \in {a, b} : x <= y) <=> x = (IF a <= b THEN a ELSE b)
  OBVIOUS
<1>2. \A x \in {a, b} : (\A y \in {a, b} : x >= y) <=> x = (IF a >= b THEN a ELSE b)
  OBVIOUS
<1> QED
  BY <1>1, <1>2 DEF Min, Max

PathOrder(S) == {x \in S \X S : PathLess(x[1], x[2])}

LEMMA PathOrderTotal ==
    ASSUME NEW S \in SUBSET Seq(Char)
    PROVE  TotalOn(PathOrder(S), S)
<1>0. \A x, y \in S : <<x, y>> \in PathOrder(S) <=> Lexicographic(x, y)
  BY DEF PathOrder, PathLess
<1>1. \A x \in S : x \in Seq(Nat)
  BY PathsAreNumbers
<1>2. \A x \in S : <<x, x>> \notin PathOrder(S)
  BY <1>0, <1>1, LexIrreflexive
<1>3. ASSUME NEW x \in S, NEW y \in S, NEW z \in S, <<x, y>> \in PathOrder(S), <<y, z>> \in PathOrder(S)
      PROVE  <<x, z>> \in PathOrder(S)
  BY <1>0, <1>1, <1>3, LexTransitive
<1>4. ASSUME NEW x \in S, NEW y \in S, x # y
      PROVE  <<x, y>> \in PathOrder(S) \/ <<y, x>> \in PathOrder(S)
  BY <1>0, <1>1, <1>4, LexTotal
<1> QED
  BY <1>2, <1>3, <1>4 DEF TotalOn

LEMMA SortedIs ==
    ASSUME NEW S \in SUBSET Seq(Char), IsFiniteSet(S)
    PROVE  /\ IsListed(Sorted(S), S, PathOrder(S)) /\ ToSet(Sorted(S)) = S
           /\ Len(Sorted(S)) = Cardinality(S) /\ Cardinality(S) \in Nat
BY PathOrderTotal, InTurnLists, FS_CardinalityType DEF Sorted, PathOrder

(* What has the prefix does not sort before it, and sorts before           *)
(* everything else that sorts after the prefix.                            *)
LEMMA PrefixNotAfter ==
    ASSUME NEW prefix \in Seq(Nat), NEW p \in Seq(Nat), IsPrefixOf(prefix, p)
    PROVE  ~PathLess(p, prefix)
<1>1. Len(prefix) <= Len(p) /\ Len(prefix) \in Nat /\ Len(p) \in Nat
  BY DEF IsPrefixOf
<1>2. \A i \in 1 .. Len(prefix) : p[i] = prefix[i] /\ p[i] \in Nat
  <2>1. SubSeq(p, 1, Len(prefix)) = prefix
    BY DEF IsPrefixOf
  <2>2. \A i \in 1 .. Len(prefix) : SubSeq(p, 1, Len(prefix))[i] = p[i]
    BY <1>1
  <2> QED
    BY <2>1, <2>2
<1> QED
  BY <1>1, <1>2 DEF PathLess, Lexicographic

LEMMA PrefixBlock ==
    ASSUME NEW prefix \in Seq(Nat), NEW p \in Seq(Nat), NEW q \in Seq(Nat),
           IsPrefixOf(prefix, p), ~IsPrefixOf(prefix, q), PathLess(prefix, q)
    PROVE  PathLess(p, q)
<1>1. Len(prefix) <= Len(p) /\ Len(prefix) \in Nat /\ Len(p) \in Nat /\ Len(q) \in Nat
  BY DEF IsPrefixOf
<1>2. \A i \in 1 .. Len(prefix) : p[i] = prefix[i] /\ p[i] \in Nat
  <2>1. SubSeq(p, 1, Len(prefix)) = prefix
    BY DEF IsPrefixOf
  <2>2. \A i \in 1 .. Len(prefix) : SubSeq(p, 1, Len(prefix))[i] = p[i]
    BY <1>1
  <2> QED
    BY <2>1, <2>2
<1>3. PICK k \in 1 .. Len(q) : /\ \A j \in 1 .. k - 1 : j <= Len(prefix) /\ prefix[j] = q[j]
                               /\ Len(prefix) < k \/ prefix[k] < q[k]
  BY DEF PathLess, Lexicographic
<1>4. CASE Len(prefix) < k
  <2>1. k = Len(prefix) + 1
    <3> SUFFICES ASSUME k # Len(prefix) + 1 PROVE FALSE
      OBVIOUS
    <3>0. k \in Int /\ Len(prefix) \in Nat
      BY <1>1
    <3>1. Len(prefix) + 1 \in 1 .. k - 1
      BY <1>4, <3>0
    <3> QED
      BY <1>1, <1>3, <3>1
  <2>2. SubSeq(q, 1, Len(prefix)) = prefix
    <3>1. Len(prefix) <= Len(q) /\ \A i \in 1 .. Len(prefix) : prefix[i] = q[i]
      BY <1>1, <1>3, <2>1
    <3>2. /\ SubSeq(q, 1, Len(prefix)) \in Seq(Nat) /\ Len(SubSeq(q, 1, Len(prefix))) = Len(prefix)
          /\ \A i \in 1 .. Len(prefix) : SubSeq(q, 1, Len(prefix))[i] = q[i]
      BY <1>1, <3>1
    <3> QED
      BY <3>1, <3>2, SameEntries
  <2> QED
    BY <1>1, <2>1, <2>2 DEF IsPrefixOf
<1>5. CASE ~(Len(prefix) < k)
  <2>1. k \in 1 .. Len(prefix) /\ p[k] < q[k]
    BY <1>1, <1>2, <1>3, <1>5
  <2>2. \A j \in 1 .. k - 1 : j <= Len(p) /\ p[j] = q[j]
    BY <1>1, <1>2, <1>3, <2>1
  <2> QED
    BY <2>1, <2>2 DEF PathLess, Lexicographic
<1> QED
  BY <1>4, <1>5

Named(prefix) == {p \in DOMAIN info : IsPrefixOf(prefix, p)}
Behind(prefix, c) == {p \in Named(prefix) : c = <<>> \/ PathLess(c, p)}
Page(found, limit) ==
  LET n == Min({Len(found), Max({limit, 1})})
  IN  [data |-> SubSeq(found, 1, n), has_more |-> n < Len(found),
       next_cursor |-> IF n < Len(found) THEN found[n] ELSE <<>>]

(* A page shows paths with the prefix only, and stops short of none.       *)
LEMMA PageIs ==
    ASSUME Paths, NEW prefix \in Seq(Char), NEW c, NEW limit
    PROVE  list_signal_paths_page(prefix, c, limit) = Page(Sorted(Behind(prefix, c)), limit)
<1> DEFINE after == {p \in DOMAIN info : ~PathLess(p, prefix) /\ (c = <<>> \/ PathLess(c, p))}
           stops == {p \in after : ~IsPrefixOf(prefix, p) /\ PathLess(prefix, p)}
           found == {p \in after : IsPrefixOf(prefix, p) /\ \A q \in stops : PathLess(p, q)}
<1>1. prefix \in Seq(Nat) /\ \A p \in DOMAIN info : p \in Seq(Nat)
  BY PathsAreNumbers DEF Paths
<1>2. \A p \in found : p \in Behind(prefix, c)
  BY DEF Behind, Named
<1>3. \A p \in Behind(prefix, c) : p \in found
  <2> SUFFICES ASSUME NEW p \in Behind(prefix, c) PROVE p \in found
    OBVIOUS
  <2>1. p \in DOMAIN info /\ IsPrefixOf(prefix, p) /\ (c = <<>> \/ PathLess(c, p))
    BY DEF Behind, Named
  <2>2. p \in after
    BY <1>1, <2>1, PrefixNotAfter
  <2>3. ASSUME NEW q \in stops PROVE PathLess(p, q)
    <3>1. q \in DOMAIN info /\ ~IsPrefixOf(prefix, q) /\ PathLess(prefix, q)
      OBVIOUS
    <3> QED
      BY <1>1, <2>1, <3>1, PrefixBlock
  <2> QED
    BY <2>1, <2>2, <2>3
<1>4. found = Behind(prefix, c)
  BY <1>2, <1>3
<1>5. list_signal_paths_page(prefix, c, limit) = Page(Sorted(found), limit)
  BY DEF list_signal_paths_page, Page
<1> HIDE DEF found
<1> QED
  BY <1>4, <1>5

(* What is left behind the k-th path is the rest of the list.              *)
LEMMA BehindIs ==
    ASSUME Paths, NEW prefix \in Seq(Char), NEW k \in 0 .. Len(Sorted(Named(prefix))),
           NEW c, c = IF k = 0 THEN <<>> ELSE Sorted(Named(prefix))[k]
    PROVE  Sorted(Behind(prefix, c)) = SubSeq(Sorted(Named(prefix)), k + 1, Len(Sorted(Named(prefix))))
<1> DEFINE S == Named(prefix)
           L == Sorted(S)
           N == Len(L)
           R == SubSeq(L, k + 1, N)
           T == Behind(prefix, c)
<1>1. S \in SUBSET Seq(Char) /\ IsFiniteSet(S) /\ <<>> \notin S /\ T \subseteq S
  <2>1. S \subseteq DOMAIN info /\ T \subseteq S
    BY DEF Named, Behind
  <2> QED
    BY <2>1, FS_Subset DEF Paths
<1>2. T \in SUBSET Seq(Char) /\ IsFiniteSet(T)
  BY <1>1, FS_Subset
<1>3. IsListed(L, S, PathOrder(S)) /\ ToSet(L) = S /\ TotalOn(PathOrder(S), S)
  BY <1>1, SortedIs, PathOrderTotal
<1>4. T = {p \in S : c = <<>> \/ PathLess(c, p)}
  BY DEF Behind
<1> HIDE DEF S, L, T
<1>5. L \in Seq(S) /\ N \in Nat /\ DOMAIN L = 1 .. N /\ \A i \in 1 .. N : L[i] \in S
  BY <1>3 DEF IsListed
<1>6. \A i, j \in 1 .. N : i < j => PathLess(L[i], L[j]) /\ ~PathLess(L[j], L[i])
  <2> SUFFICES ASSUME NEW i \in 1 .. N, NEW j \in 1 .. N, i < j
               PROVE  PathLess(L[i], L[j]) /\ ~PathLess(L[j], L[i])
    OBVIOUS
  <2>1. <<L[i], L[j]>> \in PathOrder(S) /\ L[i] \in S /\ L[j] \in S
    BY <1>3, <1>5 DEF IsListed
  <2>2. <<L[j], L[i]>> \notin PathOrder(S)
    BY <1>3, <2>1 DEF TotalOn
  <2> QED
    BY <2>1, <2>2 DEF PathOrder
<1>7. \A i \in 1 .. N : ~PathLess(L[i], L[i])
  BY <1>3, <1>5 DEF TotalOn, PathOrder
<1>8. \A i \in 1 .. N : L[i] \in T <=> i > k
  <2> SUFFICES ASSUME NEW i \in 1 .. N PROVE L[i] \in T <=> i > k
    OBVIOUS
  <2>1. CASE k = 0
    BY <1>4, <1>5, <2>1
  <2>2. CASE k # 0
    <3>1. k \in 1 .. N /\ c = L[k] /\ c # <<>>
      BY <1>1, <1>5, <2>2 DEF L, S
    <3>2. L[i] \in T <=> PathLess(L[k], L[i])
      BY <1>4, <1>5, <3>1
    <3>3. i > k \/ i = k \/ i < k
      BY <1>5, <3>1
    <3> QED
      BY <1>5, <1>6, <1>7, <3>1, <3>2, <3>3
  <2> QED
    BY <2>1, <2>2
<1>9. /\ Len(R) = N - k /\ DOMAIN R = 1 .. N - k
      /\ \A i \in 1 .. N - k : R[i] = L[k + i] /\ k + i \in 1 .. N /\ k + i > k
  <2>1. k \in 0 .. N
    BY DEF L, S
  <2>2. k + 1 \in Nat \ {0} /\ k + 1 <= N + 1 /\ N - (k + 1) + 1 = N - k
    BY <1>5, <2>1
  <2>3. /\ R \in Seq(S) /\ Len(R) = N - (k + 1) + 1
        /\ \A i \in 1 .. N - (k + 1) + 1 : R[i] = L[(k + 1) + i - 1]
    <3>1. ASSUME NEW a \in Nat \ {0}, a <= N + 1
          PROVE  /\ SubSeq(L, a, N) \in Seq(S) /\ Len(SubSeq(L, a, N)) = N - a + 1
                 /\ \A i \in 1 .. N - a + 1 : SubSeq(L, a, N)[i] = L[a + i - 1]
      BY ONLY <1>5, <3>1, CutIs
    <3> QED
      BY <2>2, <3>1, Zenon
  <2> HIDE DEF R
  <2>4. DOMAIN R = 1 .. N - k
    BY <2>2, <2>3
  <2>5. \A i \in 1 .. N - k : (k + 1) + i - 1 = k + i /\ k + i \in 1 .. N /\ k + i > k
    BY <1>5, <2>1
  <2> QED
    BY <2>2, <2>3, <2>4, <2>5
<1>10. R \in Seq(T)
  <2>1. R = [i \in 1 .. N - k |-> R[i]] /\ N - k \in Nat
    <3>1. k \in 0 .. N
      BY DEF L, S
    <3>2. R \in Seq(S)
      BY <1>5, <3>1
    <3> HIDE DEF R
    <3> QED
      BY <1>5, <1>9, <3>1, <3>2
  <2>2. \A i \in 1 .. N - k : R[i] \in T
    BY <1>8, <1>9
  <2> HIDE DEF R
  <2> QED
    BY <2>1, <2>2
<1>11. T \subseteq ToSet(R)
  <2> SUFFICES ASSUME NEW p \in T PROVE \E i \in 1 .. N - k : R[i] = p
    BY <1>9 DEF ToSet
  <2>1. p \in S
    BY <1>4
  <2>2. PICK i \in 1 .. N : L[i] = p
    BY <1>3, <1>5, <2>1 DEF ToSet
  <2>3. i > k /\ i - k \in 1 .. N - k /\ k + (i - k) = i
    <3>1. i > k /\ k \in Nat
      BY <1>8, <2>2
    <3> QED
      BY <1>5, <3>1
  <2> QED
    BY <1>9, <2>2, <2>3
<1>12. ASSUME NEW i \in DOMAIN R, NEW j \in DOMAIN R, i < j
       PROVE  <<R[i], R[j]>> \in PathOrder(T)
  <2>1. i \in 1 .. N - k /\ j \in 1 .. N - k /\ k + i < k + j
    BY <1>9, <1>12
  <2>2. R[i] = L[k + i] /\ R[j] = L[k + j] /\ k + i \in 1 .. N /\ k + j \in 1 .. N
    BY <1>9, <2>1
  <2>3. R[i] \in T /\ R[j] \in T
    BY <1>8, <1>9, <2>1
  <2>4. PathLess(R[i], R[j])
    BY <1>6, <2>1, <2>2
  <2> QED
    BY <2>3, <2>4 DEF PathOrder
<1>13. IsListed(R, T, PathOrder(T))
  <2> HIDE DEF R
  <2> QED
    BY <1>10, <1>11, <1>12 DEF IsListed
<1>14. Sorted(T) = R
  <2>1. IsListed(Sorted(T), T, PathOrder(T)) /\ TotalOn(PathOrder(T), T)
    BY <1>2, SortedIs, PathOrderTotal
  <2> HIDE DEF R
  <2> QED
    BY <1>13, <2>1, ListedOnce
<1> QED
  BY <1>14 DEF L, S, T

LEMMA PagesContinue ==
    ASSUME Paths, NEW prefix \in Seq(Char), NEW limit \in Nat
    PROVE  Whole(Pages(prefix, limit), list_signals(TRUE, prefix, {}))
<1> DEFINE S == Named(prefix)
           L == Sorted(S)
           C == {<<>>} \cup S
           pos == [c \in C |-> IF c = <<>> THEN 0 ELSE CHOOSE k \in 1 .. Len(L) : L[k] = c]
           ask == [c \in {<<>>} \cup DOMAIN info |-> list_signal_paths_page(prefix, c, limit)]
<1>1. S \in SUBSET Seq(Char) /\ IsFiniteSet(S) /\ <<>> \notin S /\ S \subseteq DOMAIN info
      /\ Cardinality(S) <= Cardinality(DOMAIN info) /\ Cardinality(DOMAIN info) \in Nat
  <2>1. S \subseteq DOMAIN info
    BY DEF Named
  <2> QED
    BY <2>1, FS_Subset, FS_CardinalityType DEF Paths
<1>2. list_signals(TRUE, prefix, {}) = L
  BY DEF list_signals, Named
<1>3. /\ IsListed(L, S, PathOrder(S)) /\ ToSet(L) = S /\ TotalOn(PathOrder(S), S)
      /\ Len(L) = Cardinality(S) /\ Len(L) \in Nat
  BY <1>1, SortedIs, PathOrderTotal
<1> HIDE DEF S
<1>4. L \in Seq(S) /\ DOMAIN L = 1 .. Len(L) /\ \A k \in 1 .. Len(L) : L[k] \in S
  <2> HIDE DEF L
  <2> QED
    BY <1>3 DEF IsListed
<1>5. \A i, j \in 1 .. Len(L) : L[i] = L[j] => i = j
  <2> HIDE DEF L
  <2>1. ASSUME NEW i \in 1 .. Len(L), NEW j \in 1 .. Len(L), i < j PROVE L[i] # L[j]
    <3>1. <<L[i], L[j]>> \in PathOrder(S) /\ L[i] \in S /\ L[j] \in S
      BY <1>3, <1>4, <2>1 DEF IsListed
    <3> QED
      BY <1>3, <3>1 DEF TotalOn
  <2> QED
    BY <1>3, <2>1
<1> HIDE DEF L
<1>6. /\ pos[<<>>] = 0 /\ \A k \in 1 .. Len(L) : L[k] \in C /\ L[k] # <<>> /\ pos[L[k]] = k
      /\ \A c \in C : c # <<>> => pos[c] \in 1 .. Len(L) /\ L[pos[c]] = c
  <2>1. \A c \in S : \E k \in 1 .. Len(L) : L[k] = c
    BY <1>3, <1>4 DEF ToSet
  <2>2. \A c \in S : pos[c] \in 1 .. Len(L) /\ L[pos[c]] = c
    BY <1>1, <2>1
  <2>3. \A k \in 1 .. Len(L) : L[k] \in C /\ L[k] # <<>> /\ pos[L[k]] = k
    BY <1>1, <1>4, <1>5, <2>2
  <2>4. pos[<<>>] = 0
    OBVIOUS
  <2> QED
    BY <2>2, <2>3, <2>4
<1>7. pos \in [C -> 0 .. Len(L)]
  <2>1. ASSUME NEW c \in C PROVE pos[c] \in 0 .. Len(L)
    <3> HIDE DEF pos, C
    <3>1. CASE c = <<>>
      BY <1>3, <1>6, <3>1
    <3>2. CASE c # <<>>
      BY <1>3, <1>6, <3>2
    <3> QED
      BY <3>1, <3>2
  <2>2. pos = [c \in C |-> pos[c]]
    OBVIOUS
  <2> HIDE DEF pos, C
  <2> QED
    BY <2>1, <2>2
<1> HIDE DEF pos
<1>8. ASSUME NEW c \in C
      PROVE  ask[c] \in Answered(S, C) /\ Part(ask[c], L, C, pos, c)
  <2> DEFINE k == pos[c]
             found == SubSeq(L, k + 1, Len(L))
             x == IF limit >= 1 THEN limit ELSE 1
             n == IF Len(found) <= x THEN Len(found) ELSE x
  <2>1. k \in 0 .. Len(L) /\ c = IF k = 0 THEN <<>> ELSE L[k]
    BY <1>6, <1>7
  <2>2. ask[c] = Page(Sorted(Behind(prefix, c)), limit)
    BY <1>1, PageIs
  <2>3. Sorted(Behind(prefix, c)) = found
    <3> HIDE DEF k
    <3>1. /\ k \in 0 .. Len(Sorted(Named(prefix)))
          /\ c = IF k = 0 THEN <<>> ELSE Sorted(Named(prefix))[k]
      BY <2>1 DEF L, S
    <3>2. Sorted(Behind(prefix, c)) = SubSeq(Sorted(Named(prefix)), k + 1, Len(Sorted(Named(prefix))))
      BY <3>1, BehindIs
    <3> QED
      BY <3>2 DEF L, S
  <2>4. found \in Seq(S) /\ Len(found) = Len(L) - k /\ \A i \in 1 .. Len(found) : found[i] = L[k + i]
    <3> DEFINE a == k + 1
               m == Len(L)
    <3> HIDE DEF k
    <3>1. a \in Nat \ {0} /\ m \in Nat /\ m <= Len(L) /\ a <= m + 1 /\ m - a + 1 = m - k
          /\ \A i \in 1 .. m - a + 1 : a + i - 1 = k + i
      BY <1>3, <2>1
    <3> HIDE DEF a, m
    <3>2. /\ SubSeq(L, a, m) \in Seq(S) /\ Len(SubSeq(L, a, m)) = m - a + 1
          /\ \A i \in 1 .. m - a + 1 : SubSeq(L, a, m)[i] = L[a + i - 1]
      BY <1>4, <3>1, CutIs
    <3>3. found = SubSeq(L, a, m)
      BY DEF a, m
    <3> HIDE DEF found
    <3>4. found \in Seq(S) /\ Len(found) = m - k /\ \A i \in 1 .. m - k : found[i] = L[k + i]
      BY <3>1, <3>2, <3>3
    <3> QED
      BY <3>4 DEF m
  <2> HIDE DEF k
  <2>5. Min({Len(found), Max({limit, 1})}) = n
    <3> HIDE DEF found
    <3>1. Len(found) \in Int /\ limit \in Int /\ 1 \in Int
      BY <1>3, <2>1, <2>4
    <3>2. Max({limit, 1}) = x /\ x \in Int
      BY <3>1, MinMaxIs
    <3> HIDE DEF x
    <3> QED
      BY <3>1, <3>2, MinMaxIs
  <2> HIDE DEF found
  <2>6. ask[c] = [data |-> SubSeq(found, 1, n), has_more |-> n < Len(found),
                  next_cursor |-> IF n < Len(found) THEN found[n] ELSE <<>>]
    BY <2>2, <2>3, <2>5 DEF Page
  <2>7. n \in 0 .. Len(found) /\ n \in Nat /\ (n < Len(found) => n >= 1) /\ k + n \in k .. Len(L)
        /\ (~(n < Len(found)) => k + n = Len(L))
    BY <1>3, <2>1, <2>4
  <2> HIDE DEF n, ask
  <2>8. n < Len(found) => found[n] = L[k + n] /\ k + n \in 1 .. Len(L)
    BY <1>3, <2>1, <2>4, <2>7
  <2>9. ask[c] \in Answered(S, C)
    <3>1. SubSeq(found, 1, n) \in Seq(S)
      BY <2>4, <2>7
    <3>2. (IF n < Len(found) THEN found[n] ELSE <<>>) \in C
      BY <1>6, <2>8
    <3> HIDE DEF C
    <3> QED
      BY <2>6, <3>1, <3>2 DEF Answered
  <2> DEFINE m == k + n
  <2>10. SubSeq(found, 1, n) = SubSeq(L, k + 1, m)
    <3>1. ASSUME NEW a \in Nat \ {0}, a <= Len(L) + 1, NEW d \in Nat, d <= Len(L) - a + 1
          PROVE  SubSeq(SubSeq(L, a, Len(L)), 1, d) = SubSeq(L, a + 1 - 1, a + d - 1)
      BY ONLY <1>3, <1>4, <3>1, CutOfCut
    <3>2. /\ k + 1 \in Nat \ {0} /\ k + 1 <= Len(L) + 1 /\ n <= Len(L) - (k + 1) + 1
          /\ (k + 1) + 1 - 1 = k + 1 /\ (k + 1) + n - 1 = k + n
      BY <1>3, <2>1, <2>4, <2>7
    <3>3. SubSeq(SubSeq(L, k + 1, Len(L)), 1, n) = SubSeq(L, (k + 1) + 1 - 1, (k + 1) + n - 1)
      BY <2>7, <3>1, <3>2, Zenon
    <3> QED
      BY <3>2, <3>3 DEF found
  <2>11. /\ ask[c].data = SubSeq(found, 1, n) /\ ask[c].has_more = (n < Len(found))
         /\ n < Len(found) => ask[c].next_cursor = found[n]
    <3> DEFINE next == IF n < Len(found) THEN found[n] ELSE <<>>
    <3>1. ask[c] = [data |-> SubSeq(found, 1, n), has_more |-> n < Len(found), next_cursor |-> next]
      BY <2>6
    <3>2. n < Len(found) => next = found[n]
      OBVIOUS
    <3> DEFINE part == SubSeq(found, 1, n)
    <3> HIDE DEF next, part
    <3>3. ask[c].data = part /\ ask[c].next_cursor = next
      <4>1. ask[c] = [data |-> part, has_more |-> n < Len(found), next_cursor |-> next]
        BY <3>1 DEF part
      <4> QED
        BY <4>1
    <3>4. ask[c].has_more = (n < Len(found))
      BY <3>1
    <3> QED
      BY <3>2, <3>3, <3>4 DEF part
  <2>12. n < Len(found) => m > k /\ found[n] \in C /\ pos[found[n]] = m
    BY <1>3, <1>6, <2>1, <2>7, <2>8
  <2> HIDE DEF C
  <2>13. Part(ask[c], L, C, pos, c)
    <3>1. m \in pos[c] .. Len(L) /\ pos[c] = k
      BY <2>7 DEF k
    <3> HIDE DEF m
    <3> QED
      BY <2>7, <2>10, <2>11, <2>12, <3>1 DEF Part, m
  <2> QED
    BY <2>9, <2>13
<1>9. Pages(prefix, limit) = Collected(ask, <<>>, Cardinality(DOMAIN info))
  BY DEF Pages
<1> HIDE DEF ask
<1>10. Whole(Collected(ask, <<>>, Cardinality(DOMAIN info)), L)
  <2>1. <<>> \in C /\ Len(L) <= Cardinality(DOMAIN info)
    BY <1>1, <1>3
  <2> HIDE DEF C
  <2> QED
    BY <1>1, <1>4, <1>6, <1>7, <1>8, <2>1, CollectedIs
<1> QED
  BY <1>2, <1>9, <1>10

---------------------------------------------------------------------------
(* Every listing that is asked for page by page, and every window that is  *)
(* asked for part by part, is collected whole: nothing twice, nothing      *)
(* left out, and the end is known.  A page can be of any size; so can the  *)
(* file, and a part.                                                       *)
LEMMA PartsJoin == WInv /\ Declared => PartsAreWhole
<1> SUFFICES ASSUME WInv, Declared PROVE PartsAreWhole
  OBVIOUS
<1>1. PagesAreTheList
  <2> SUFFICES ASSUME NEW limit \in 0 .. 2, NEW q \in DOMAIN info, NEW n \in 0 .. Len(q)
               PROVE  Whole(Pages(SubSeq(q, 1, n), limit), list_signals(TRUE, SubSeq(q, 1, n), {}))
    BY DEF PagesAreTheList
  <2>1. q \in Seq(Char) /\ limit \in Nat /\ Paths
    BY DEF WInv, WaveTypes, Declared
  <2>2. SubSeq(q, 1, n) \in Seq(Char)
    BY <2>1
  <2> QED
    BY <2>1, <2>2, PagesContinue
<1>2. TransitionsContinue
  <2> SUFFICES ASSUME NEW x \in Waves, NEW win \in Windows, NEW limit \in 1 .. 2, \A i \in DOMAIN x.w : ~x.w[i].glitch
               PROVE  Whole(Continued(x.w, win[1], win[2], limit),
                            Picked(x.w, {i \in DOMAIN x.w : win[1] <= x.w[i].t /\ x.w[i].t <= win[2]}))
    BY DEF TransitionsContinue
  <2>1. win[1] \in 0 .. MaxTime /\ win[2] \in 0 .. MaxTime /\ win[1] <= win[2] /\ limit \in Nat \ {0}
    BY DEF Windows, Times
  <2>2. Wave(x.w)
    BY SignalsAreWaves
  <2> QED
    BY <2>1, <2>2, WindowContinues
<1> QED
  BY <1>1, <1>2 DEF PartsAreWhole

(* In every file, and for every page size and limit that the runs try, who *)
(* follows the cursor of a listing or the end of a cut list of transitions *)
(* gets the whole, in order, and knows when there is no more.              *)
THEOREM PartsAreWholeAlways == WaveSpec => []PartsAreWhole
<1>1. WaveInit => WInv /\ Declared
  BY InitHolds, DeclaredFirst
<1>2. WInv /\ Declared /\ [WaveNext]_waveVars => WInv' /\ Declared'
  BY StepHolds, DeclaredStep
<1>3. WInv /\ Declared => PartsAreWhole
  BY PartsJoin
<1> QED
  BY <1>1, <1>2, <1>3, PTL DEF WaveSpec

---------------------------------------------------------------------------
(* What point queries show.                                                *)

LEMMA LeastIs ==
    ASSUME NEW S \in SUBSET Nat, S # {}
    PROVE  Min(S) \in S /\ \A x \in S : Min(S) <= x
<1>1. PICK k \in S : \A x \in S : k <= x
  BY LeastExists
<1> QED
  BY <1>1 DEF Min

LEMMA GreatestIs ==
    ASSUME NEW n \in Nat, NEW S \in SUBSET (0 .. n), S # {}
    PROVE  Max(S) \in S /\ \A x \in S : x <= Max(S)
<1> DEFINE T == {m \in 0 .. n : n - m \in S}
<1>1. T \in SUBSET Nat /\ T # {}
  <2>1. PICK x \in S : TRUE
    OBVIOUS
  <2>2. n - x \in 0 .. n /\ n - (n - x) = x
    BY <2>1
  <2>3. n - x \in T
    BY <2>1, <2>2
  <2>4. T \in SUBSET Nat
    OBVIOUS
  <2> HIDE DEF T
  <2> QED
    BY <2>3, <2>4
<1>2. PICK k \in T : \A m \in T : k <= m
  <2> HIDE DEF T
  <2> QED
    BY <1>1, LeastExists
<1>3. n - k \in S /\ \A x \in S : n - k >= x
  <2>1. n - k \in S /\ k \in 0 .. n
    BY <1>2
  <2>2. ASSUME NEW x \in S PROVE n - k >= x
    <3>1. x \in 0 .. n /\ n - x \in 0 .. n /\ n - (n - x) = x
      OBVIOUS
    <3>2. n - x \in T
      BY <3>1
    <3>3. k <= n - x
      BY <1>2, <3>2
    <3> QED
      BY <2>1, <3>1, <3>3
  <2> QED
    BY <2>1, <2>2
<1>4. Max(S) \in S /\ \A x \in S : Max(S) >= x
  BY <1>3 DEF Max
<1>5. \A x \in S : x \in 0 .. n
  OBVIOUS
<1> QED
  BY <1>4, <1>5

(* Without glitches a transition is the only one at its time.              *)
Steady(w) == Wave(w) /\ \A i \in DOMAIN w : ~w[i].glitch

LEMMA AloneAtItsTime ==
    ASSUME NEW w, Steady(w), NEW i \in 1 .. Len(w)
    PROVE  /\ UpTo(w, w[i].t) = i /\ UpTo(w, w[i].t - 1) = i - 1 /\ From(w, w[i].t) = i
           /\ w[i].t \in 0 .. MaxTime /\ get_value_at_time(w, w[i].t) = w[i].v
<1>1. /\ Wave(w) /\ Len(w) \in Nat /\ \A j \in 1 .. Len(w) : w[j].t \in 0 .. MaxTime /\ w[j].t \in Int
      /\ \A j, k \in 1 .. Len(w) : j < k => w[j].t < w[k].t
  BY WaveIs, Strictly DEF Steady
<1> DEFINE t == w[i].t
           u == UpTo(w, t)
           v == UpTo(w, t - 1)
<1>2. t \in Int /\ t - 1 \in Int /\ t \in 0 .. MaxTime
  BY <1>1
<1>3. u \in 0 .. Len(w) /\ \A j \in 1 .. Len(w) : j <= u <=> w[j].t <= t
  BY <1>1, <1>2, UpToIs
<1>4. v \in 0 .. Len(w) /\ \A j \in 1 .. Len(w) : j <= v <=> w[j].t <= t - 1
  BY <1>1, <1>2, UpToIs
<1>5. i <= u /\ ~(i <= v)
  BY <1>2, <1>3, <1>4
<1>6. ~(i < u)
  <2> SUFFICES ASSUME i < u PROVE FALSE
    OBVIOUS
  <2>1. u \in 1 .. Len(w) /\ w[u].t <= t /\ t < w[u].t
    BY <1>1, <1>3
  <2> QED
    BY <1>1, <1>2, <2>1
<1>7. i - 1 <= v
  <2>1. CASE i = 1
    BY <1>4, <2>1
  <2>2. CASE i # 1
    <3>1. i - 1 \in 1 .. Len(w) /\ w[i - 1].t < t
      BY <1>1, <2>2
    <3>2. w[i - 1].t <= t - 1
      BY <1>1, <1>2, <3>1
    <3> QED
      BY <1>4, <3>1, <3>2
  <2> QED
    BY <2>1, <2>2
<1>8. u = i /\ v = i - 1
  <2> HIDE DEF u, v
  <2> QED
    BY <1>1, <1>3, <1>4, <1>5, <1>6, <1>7
<1>9. From(w, t) = v + 1
  BY <1>1, <1>2, FromIs
<1>10. From(w, t) = i
  BY <1>8, <1>9
<1>11. get_value_at_time(w, t) = w[i].v
  <2>1. u # 0
    BY <1>8
  <2> QED
    BY <1>8, <2>1 DEF get_value_at_time
<1> QED
  BY <1>2, <1>8, <1>10, <1>11

(* The value at a time is the one of the last transition up to it.         *)
LEMMA ValueIs ==
    ASSUME NEW w, Wave(w), NEW t \in Int
    PROVE  /\ UpTo(w, t) = 0 => get_value_at_time(w, t) = Unset
           /\ UpTo(w, t) # 0 => /\ UpTo(w, t) \in 1 .. Len(w)
                                /\ get_value_at_time(w, t) = w[UpTo(w, t)].v /\ w[UpTo(w, t)].t <= t
<1>1. UpTo(w, t) \in 0 .. Len(w) /\ \A i \in 1 .. Len(w) : i <= UpTo(w, t) <=> w[i].t <= t
  BY UpToIs
<1>2. UpTo(w, t) # 0 => UpTo(w, t) \in 1 .. Len(w) /\ UpTo(w, t) <= UpTo(w, t) /\ w[UpTo(w, t)].t <= t
  <2>1. Len(w) \in Nat
    BY WaveIs
  <2> QED
    BY <1>1, <2>1
<1> QED
  BY <1>2 DEF get_value_at_time

---------------------------------------------------------------------------
(* Counts.                                                                 *)

LEMMA CountSplits ==
    ASSUME NEW w, Wave(w), NEW width, NEW type, NEW a \in Int, NEW b \in Int, NEW m \in a .. b - 1
    PROVE  count_transitions(w, width, a, b, type)
             = count_transitions(w, width, a, m, type) + count_transitions(w, width, m + 1, b, type)
<1> DEFINE Counts(i) ==
             LET event == classify_transition_event(width, ValueBefore(w, i), w[i].v)
             IN  event # "none" /\ (width > 1 \/ type = "anyedge" \/ event = type)
           S == {i \in From(w, a) .. UpTo(w, b) : Counts(i)}
           L == {i \in From(w, a) .. UpTo(w, m) : Counts(i)}
           R == {i \in From(w, m + 1) .. UpTo(w, b) : Counts(i)}
<1>1. /\ From(w, a) \in Int /\ UpTo(w, b) \in Int /\ UpTo(w, m) \in Int /\ From(w, m + 1) = UpTo(w, m) + 1
      /\ From(w, a) <= UpTo(w, m) + 1 /\ UpTo(w, m) <= UpTo(w, b)
  <2>1. m \in Int /\ m + 1 \in Int /\ (m + 1) - 1 = m /\ a <= m + 1 /\ m + 1 <= b + 1
    OBVIOUS
  <2>2. From(w, a) \in 1 .. UpTo(w, m) + 1 /\ UpTo(w, m) \in Nat /\ From(w, a) \in Nat
    BY <2>1, WindowIs
  <2>3. From(w, m + 1) \in 1 .. UpTo(w, b) + 1 /\ UpTo(w, b) \in Nat
    BY <2>1, WindowIs
  <2>4. From(w, m + 1) = UpTo(w, m) + 1
    BY <2>1, FromIs
  <2> QED
    BY <2>2, <2>3, <2>4
<1> HIDE DEF Counts
<1>2. S = L \cup R /\ L \cap R = {}
  BY <1>1
<1>3. IsFiniteSet(L) /\ IsFiniteSet(R)
  <2>1. IsFiniteSet(From(w, a) .. UpTo(w, m)) /\ IsFiniteSet(From(w, m + 1) .. UpTo(w, b))
    BY <1>1, FS_Interval
  <2> QED
    BY <2>1, FS_Subset
<1>4. count_transitions(w, width, a, b, type) = Cardinality(S)
  BY DEF count_transitions, Counts
<1>5. count_transitions(w, width, a, m, type) = Cardinality(L)
  BY DEF count_transitions, Counts
<1>6. count_transitions(w, width, m + 1, b, type) = Cardinality(R)
  BY DEF count_transitions, Counts
<1> HIDE DEF S, L, R
<1>7. Cardinality(L \cup R) = Cardinality(L) + Cardinality(R) - Cardinality(L \cap R)
  BY <1>3, FS_Union
<1>8. Cardinality(L) \in Nat /\ Cardinality(R) \in Nat /\ Cardinality({}) = 0
  BY <1>3, FS_CardinalityType, FS_EmptySet
<1>9. Cardinality(L \cap R) = 0 /\ Cardinality(S) = Cardinality(L \cup R)
  BY <1>2, <1>8, Zenon
<1>10. Cardinality(S) = Cardinality(L) + Cardinality(R)
  BY <1>7, <1>8, <1>9
<1> QED
  BY <1>4, <1>5, <1>6, <1>10, Zenon

---------------------------------------------------------------------------
(* Edges, with glitches.                                                   *)

LEMMA RisingIsFound ==
    ASSUME NEW w, Wave(w), NEW width, NEW t \in 1 .. MaxTime,
           format_signal_value_at_time(w, width, t, "hex").radix = "rising"
    PROVE  find_edge(w, "posedge", t - 1, "forward") = t
<1> DEFINE before == get_value_at_time(w, t - 1)
           value == get_value_at_time(w, t)
           F == From(w, t)
           E == {i \in From(w, t - 1) .. Len(w) :
                   w[i].t > t - 1 /\ IsEdge("posedge", get_value_at_time(w, w[i].t - 1), w[i].v)}
<1>0. MaxTime \in Nat /\ t \in Int /\ t - 1 \in Int /\ t # 0
  BY WaveIs
<1>1. F \in DOMAIN w /\ w[F].t = t /\ before = <<"0">> /\ value = <<"1">>
  <2>1. \A v, r : format_multibit_value(v, width, r).radix # "rising"
    BY DEF format_multibit_value
  <2> HIDE DEF before, value, F
  <2> QED
    BY <1>0, <2>1 DEF format_signal_value_at_time, before, value, F
<1>2. /\ Len(w) \in Nat /\ DOMAIN w = 1 .. Len(w) /\ \A i \in 1 .. Len(w) : w[i].t \in Int
      /\ \A i, j \in 1 .. Len(w) : i <= j => w[i].t <= w[j].t
  BY WaveIs
<1> DEFINE u == UpTo(w, t)
<1>3. u \in 1 .. Len(w) /\ w[u].t = t /\ w[u].v = <<"1">>
  <2>1. u \in 0 .. Len(w) /\ \A i \in 1 .. Len(w) : i <= u <=> w[i].t <= t
    BY <1>0, UpToIs
  <2>2. F <= u
    <3> HIDE DEF F, u
    <3> QED
      BY <1>0, <1>1, <1>2, <2>1
  <2>3. u \in 1 .. Len(w) /\ w[u].t <= t /\ w[F].t <= w[u].t
    <3> HIDE DEF F, u
    <3> QED
      BY <1>1, <1>2, <2>1, <2>2
  <2>4. w[u].t = t
    BY <1>0, <1>1, <1>2, <2>3
  <2>5. value = w[u].v
    BY <2>3 DEF get_value_at_time
  <2> QED
    BY <1>1, <2>3, <2>4, <2>5
<1>4. u \in E
  <2>1. \A i \in 1 .. Len(w) : i >= From(w, t - 1) <=> w[i].t >= t - 1
    BY <1>0, FromIs
  <2>2. From(w, t - 1) \in 1 .. Len(w) + 1
    BY <1>0, FromIs
  <2>3. IsEdge("posedge", before, w[u].v)
    BY <1>1, <1>3 DEF IsEdge
  <2>4. u >= From(w, t - 1) /\ w[u].t > t - 1
    BY <1>0, <1>3, <2>1
  <2>5. u \in From(w, t - 1) .. Len(w)
    BY <1>2, <1>3, <2>2, <2>4
  <2>6. get_value_at_time(w, w[u].t - 1) = before
    BY <1>3
  <2> HIDE DEF u, before
  <2> QED
    BY <2>3, <2>4, <2>5, <2>6
<1>5. E \in SUBSET Nat /\ \A i \in E : i \in 1 .. Len(w) /\ w[i].t > t - 1
  <2>1. From(w, t - 1) \in 1 .. Len(w) + 1
    BY <1>0, FromIs
  <2> QED
    BY <1>2, <2>1
<1> HIDE DEF E, u
<1>6. Min(E) \in E /\ Min(E) <= u
  BY <1>4, <1>5, LeastIs
<1>7. w[Min(E)].t = t
  <2>1. Min(E) \in 1 .. Len(w) /\ w[Min(E)].t > t - 1
    BY <1>5, <1>6
  <2>2. w[Min(E)].t <= w[u].t /\ w[Min(E)].t \in Int
    BY <1>2, <1>3, <1>6, <2>1
  <2> QED
    BY <1>0, <1>3, <2>1, <2>2
<1>8. find_edge(w, "posedge", t - 1, "forward") = w[Min(E)].t
  <2>1. find_edge(w, "posedge", t - 1, "forward") = IF E = {} THEN -1 ELSE w[Min(E)].t
    BY DEF find_edge, E
  <2> QED
    BY <1>4, <2>1
<1> QED
  BY <1>7, <1>8

LEMMA UpToGrows ==
    ASSUME NEW w, Wave(w), NEW s \in Int, NEW t \in Int, s <= t
    PROVE  UpTo(w, s) <= UpTo(w, t) /\ UpTo(w, s) \in 0 .. Len(w) /\ UpTo(w, t) \in 0 .. Len(w)
<1>1. s + 1 \in Int /\ t + 1 \in Int /\ s + 1 <= t + 1 /\ (s + 1) - 1 = s /\ (t + 1) - 1 = t
  OBVIOUS
<1>2. From(w, s + 1) <= From(w, t + 1)
  BY <1>1, FromGrows
<1>3. From(w, s + 1) = UpTo(w, s) + 1 /\ From(w, t + 1) = UpTo(w, t) + 1
  BY <1>1, FromIs
<1>4. UpTo(w, s) \in 0 .. Len(w) /\ UpTo(w, t) \in 0 .. Len(w) /\ Len(w) \in Nat
  BY UpToIs, WaveIs
<1> QED
  BY <1>2, <1>3, <1>4

LEMMA FromFits ==
    ASSUME NEW w, Wave(w), NEW t \in Int
    PROVE  From(w, t) <= UpTo(w, t) + 1 /\ From(w, t) \in 1 .. Len(w) + 1
<1>1. t - 1 \in Int /\ t - 1 <= t
  OBVIOUS
<1>2. UpTo(w, t - 1) <= UpTo(w, t) /\ UpTo(w, t - 1) \in 0 .. Len(w) /\ UpTo(w, t) \in 0 .. Len(w) /\ Len(w) \in Nat
  BY <1>1, UpToGrows, WaveIs
<1>3. From(w, t) = UpTo(w, t - 1) + 1 /\ From(w, t) \in 1 .. Len(w) + 1
  BY FromIs
<1> QED
  BY <1>2, <1>3

---------------------------------------------------------------------------
(* Conditions.                                                             *)
Having(w, v, T) == {u \in T : get_value_at_time(w, u) = v}

LEMMA ConditionAhead ==
    ASSUME NEW w, Steady(w), NEW v, v # Unset, NEW t \in 0 .. MaxTime
    PROVE  LET ahead == Having(w, v, t .. MaxTime)
           IN  find_condition(w, v, t, "forward") = IF ahead = {} THEN -1 ELSE Min(ahead)
<1> DEFINE ahead == Having(w, v, t .. MaxTime)
           found == {i \in From(w, t) .. Len(w) : w[i].v = v}
<1>0. /\ Wave(w) /\ MaxTime \in Nat /\ t \in Int /\ Len(w) \in Nat /\ DOMAIN w = 1 .. Len(w)
      /\ \A i \in 1 .. Len(w) : w[i].t \in 0 .. MaxTime
      /\ \A i, j \in 1 .. Len(w) : i <= j => w[i].t <= w[j].t
      /\ From(w, t) \in 1 .. Len(w) + 1
  <2>1. Wave(w)
    BY DEF Steady
  <2>2. /\ MaxTime \in Nat /\ t \in Int /\ Len(w) \in Nat /\ DOMAIN w = 1 .. Len(w)
        /\ \A i \in 1 .. Len(w) : w[i].t \in 0 .. MaxTime
        /\ \A i, j \in 1 .. Len(w) : i <= j => w[i].t <= w[j].t
    BY <2>1, WaveIs
  <2>3. From(w, t) \in 1 .. Len(w) + 1
    BY <2>1, <2>2, FromFits
  <2> QED
    BY <2>1, <2>2, <2>3
<1>1. ahead \in SUBSET Nat /\ \A u \in ahead : u \in t .. MaxTime /\ get_value_at_time(w, u) = v
  BY <1>0 DEF Having
<1>2. CASE get_value_at_time(w, t) = v
  <2>1. t \in ahead
    BY <1>0, <1>2 DEF Having
  <2>2. Min(ahead) \in ahead /\ Min(ahead) <= t
    BY <1>1, <2>1, LeastIs
  <2>3. Min(ahead) = t
    BY <1>0, <1>1, <2>2
  <2>4. find_condition(w, v, t, "forward") = t
    BY <1>2 DEF find_condition
  <2> QED
    BY <2>1, <2>3, <2>4
<1>3. CASE get_value_at_time(w, t) # v
  <2>1. find_condition(w, v, t, "forward") = IF found = {} THEN -1 ELSE w[Min(found)].t
    BY <1>3 DEF find_condition
  <2>2. ASSUME NEW u \in ahead
        PROVE  \E k \in found : w[k].t <= u
    <3> DEFINE k == UpTo(w, u)
    <3>1. u \in t .. MaxTime /\ get_value_at_time(w, u) = v /\ u \in Int
      BY <1>0, <1>1
    <3>2. k \in 1 .. Len(w) /\ w[k].v = v /\ w[k].t <= u
      BY <1>0, <3>1, ValueIs
    <3>3. UpTo(w, t) <= k /\ UpTo(w, t) \in 0 .. Len(w)
      BY <1>0, <3>1, UpToGrows
    <3>4. k # UpTo(w, t)
      <4>1. k = UpTo(w, t) => get_value_at_time(w, t) = get_value_at_time(w, u)
        BY DEF get_value_at_time
      <4> QED
        BY <1>3, <3>1, <4>1
    <3>5. From(w, t) <= UpTo(w, t) + 1
      BY <1>0, FromFits
    <3> HIDE DEF k
    <3>6. k \in found
      BY <1>0, <3>2, <3>3, <3>4, <3>5
    <3> QED
      BY <3>2, <3>6
  <2>3. CASE found = {}
    <3>1. ahead = {}
      BY <2>2, <2>3
    <3> QED
      BY <2>1, <2>3, <3>1
  <2>4. CASE found # {}
    <3>1. found \in SUBSET Nat /\ found \subseteq 1 .. Len(w)
      BY <1>0
    <3> HIDE DEF found, ahead
    <3>2. Min(found) \in found /\ Min(found) \in 1 .. Len(w) /\ \A k \in found : Min(found) <= k
      BY <2>4, <3>1, LeastIs
    <3> DEFINE i == Min(found)
    <3>3. w[i].t \in ahead
      <4>1. get_value_at_time(w, w[i].t) = w[i].v /\ w[i].t \in 0 .. MaxTime
        BY <3>2, AloneAtItsTime
      <4>2. w[i].v = v /\ i >= From(w, t)
        BY <1>0, <3>2 DEF found
      <4>3. w[i].t >= t
        BY <1>0, <3>2, <4>2, FromIs
      <4> HIDE DEF i
      <4> QED
        BY <1>0, <4>1, <4>2, <4>3 DEF ahead, Having
    <3>4. \A u \in ahead : w[i].t <= u
      <4> SUFFICES ASSUME NEW u \in ahead PROVE w[i].t <= u
        OBVIOUS
      <4>1. PICK k \in found : w[k].t <= u
        BY <2>2
      <4>2. w[i].t <= w[k].t /\ w[i].t \in Int /\ w[k].t \in Int /\ u \in Int
        BY <1>0, <1>1, <3>1, <3>2
      <4> QED
        BY <4>1, <4>2
    <3>5. Min(ahead) \in ahead /\ \A u \in ahead : Min(ahead) <= u
      BY <1>1, <3>3, LeastIs
    <3>6. Min(ahead) = w[i].t
      <4> HIDE DEF i
      <4>1. Min(ahead) <= w[i].t /\ w[i].t <= Min(ahead)
        BY <3>3, <3>4, <3>5
      <4>2. \A u \in ahead : u \in Int
        BY <1>0, <1>1
      <4>3. Min(ahead) \in Int /\ w[i].t \in Int
        BY <3>3, <3>5, <4>2
      <4> QED
        BY <4>1, <4>3
    <3>7. ahead # {}
      BY <3>3
    <3>8. find_condition(w, v, t, "forward") = w[i].t
      BY <2>1, <2>4
    <3> HIDE DEF i
    <3> QED
      BY <3>6, <3>7, <3>8 DEF ahead
  <2> QED
    BY <2>3, <2>4
<1> QED
  BY <1>2, <1>3

LEMMA ConditionBack ==
    ASSUME NEW w, Steady(w), NEW v, v # Unset, NEW t \in 0 .. MaxTime
    PROVE  LET back == find_condition(w, v, t, "backward")
           IN  IF back = -1 THEN \A u \in 0 .. t : get_value_at_time(w, u) # v
               ELSE back <= t /\ get_value_at_time(w, back) = v
<1> DEFINE found == {i \in 1 .. UpTo(w, t) : w[i].v = v}
           back == find_condition(w, v, t, "backward")
<1>0. /\ Wave(w) /\ MaxTime \in Nat /\ t \in Int /\ t # -1 /\ Len(w) \in Nat
      /\ \A i \in 1 .. Len(w) : w[i].t \in 0 .. MaxTime
      /\ UpTo(w, t) \in 0 .. Len(w) /\ \A i \in 1 .. Len(w) : i <= UpTo(w, t) <=> w[i].t <= t
  BY WaveIs, UpToIs DEF Steady
<1>1. CASE get_value_at_time(w, t) = v
  <2>1. back = t
    BY <1>1 DEF find_condition
  <2> QED
    BY <1>0, <1>1, <2>1
<1>2. CASE get_value_at_time(w, t) # v /\ found = {}
  <2>1. back = -1
    BY <1>2 DEF find_condition
  <2>2. ASSUME NEW u \in 0 .. t, get_value_at_time(w, u) = v PROVE FALSE
    <3> DEFINE k == UpTo(w, u)
    <3>1. u \in Int /\ u <= t
      BY <1>0
    <3>2. k \in 1 .. Len(w) /\ w[k].v = v
      BY <1>0, <2>2, <3>1, ValueIs
    <3>3. k <= UpTo(w, t)
      BY <1>0, <3>1, UpToGrows
    <3> HIDE DEF k
    <3>4. k \in found
      BY <1>0, <3>2, <3>3
    <3> QED
      BY <1>2, <3>4
  <2> QED
    BY <2>1, <2>2
<1>3. CASE get_value_at_time(w, t) # v /\ found # {}
  <2>1. back = w[Max(found)].t
    BY <1>3 DEF find_condition
  <2>2. Max(found) \in found
    <3>1. found \in SUBSET (0 .. Len(w))
      BY <1>0
    <3> HIDE DEF found
    <3> QED
      BY <1>0, <1>3, <3>1, GreatestIs
  <2>3. Max(found) \in 1 .. Len(w) /\ Max(found) <= UpTo(w, t) /\ w[Max(found)].v = v
    BY <1>0, <2>2
  <2> HIDE DEF found
  <2>4. /\ get_value_at_time(w, w[Max(found)].t) = w[Max(found)].v
        /\ w[Max(found)].t <= t /\ w[Max(found)].t \in 0 .. MaxTime
    BY <1>0, <2>3, AloneAtItsTime
  <2> HIDE DEF back
  <2>5. back # -1 /\ back <= t /\ get_value_at_time(w, back) = v
    BY <1>0, <2>1, <2>3, <2>4
  <2> QED
    BY <2>5 DEF back
<1> QED
  BY <1>1, <1>2, <1>3

---------------------------------------------------------------------------
(* Intervals.                                                              *)
Piece(w, start, end, i) ==
  [value |-> IF i = 0 THEN Unset ELSE w[i].v,
   start |-> IF i = UpTo(w, start) THEN start ELSE w[i].t,
   end |-> IF i = UpTo(w, end) THEN end ELSE w[i + 1].t - 1]
Pieces(w, start, end) ==
  [k \in 1 .. UpTo(w, end) - UpTo(w, start) + 1 |-> Piece(w, start, end, UpTo(w, start) + k - 1)]
Shows(w, width, bits, start, end) ==
  {k \in DOMAIN Pieces(w, start, end) :
     /\ Pieces(w, start, end)[k].start <= Pieces(w, start, end)[k].end
     /\ value_matches_query(width, Pieces(w, start, end)[k].value, bits)}

LEMMA IntervalsAre ==
  \A w, width, bits, start, end :
    find_value_intervals(w, width, bits, start, end)
      = Picked(Pieces(w, start, end), Shows(w, width, bits, start, end))
BY DEF find_value_intervals, Piece, Pieces, Shows

(* The i-th transition and what it leaves: the times up to the next.       *)
LEMMA PieceIs ==
    ASSUME NEW w, Wave(w), NEW start \in Int, NEW end \in Int, start <= end,
           NEW i \in UpTo(w, start) .. UpTo(w, end)
    PROVE  LET p == Piece(w, start, end, i)
           IN  /\ p.start \in Int /\ p.end \in Int
               /\ \A t \in Int : p.start <= t /\ t <= p.end <=> t \in start .. end /\ UpTo(w, t) = i
               /\ \A t \in Int : UpTo(w, t) = i => p.value = get_value_at_time(w, t)
<1> DEFINE first == UpTo(w, start)
           last == UpTo(w, end)
           p == Piece(w, start, end, i)
           s == IF i = first THEN start ELSE w[i].t
           e == IF i = last THEN end ELSE w[i + 1].t - 1
<1>1. /\ Len(w) \in Nat /\ first \in 0 .. Len(w) /\ last \in 0 .. Len(w) /\ first <= last
      /\ \A j \in 1 .. Len(w) : w[j].t \in Int
      /\ \A j \in 1 .. Len(w) : j <= first <=> w[j].t <= start
      /\ \A j \in 1 .. Len(w) : j <= last <=> w[j].t <= end
      /\ \A j, k \in 1 .. Len(w) : j <= k => w[j].t <= w[k].t
  <2>1. first \in 0 .. Len(w) /\ \A j \in 1 .. Len(w) : j <= first <=> w[j].t <= start
    BY UpToIs
  <2>2. last \in 0 .. Len(w) /\ \A j \in 1 .. Len(w) : j <= last <=> w[j].t <= end
    BY UpToIs
  <2>3. first <= last
    BY UpToGrows
  <2>4. /\ Len(w) \in Nat /\ \A j \in 1 .. Len(w) : w[j].t \in Int
        /\ \A j, k \in 1 .. Len(w) : j <= k => w[j].t <= w[k].t
    BY WaveIs
  <2> HIDE DEF first, last
  <2> QED
    BY <2>1, <2>2, <2>3, <2>4
<1>2. p.start = s /\ p.end = e
  BY DEF Piece
<1>3. i # first => i \in 1 .. Len(w) /\ ~(w[i].t <= start) /\ w[i].t <= end
  BY <1>1
<1>4. i # last => i + 1 \in 1 .. Len(w) /\ ~(w[i + 1].t <= start) /\ w[i + 1].t <= end
  <2> HIDE DEF first, last
  <2> SUFFICES ASSUME i # last PROVE i + 1 \in 1 .. Len(w) /\ ~(w[i + 1].t <= start) /\ w[i + 1].t <= end
    OBVIOUS
  <2>1. i \in first .. last
    BY DEF first, last
  <2>2. i + 1 \in 1 .. Len(w) /\ ~(i + 1 <= first) /\ i + 1 <= last
    BY <1>1, <2>1
  <2> QED
    BY <1>1, <2>2
<1>5. s \in Int /\ e \in Int
  BY <1>1, <1>3, <1>4
<1>6. ASSUME NEW t \in Int
      PROVE  s <= t /\ t <= e <=> t \in start .. end /\ UpTo(w, t) = i
  <2> DEFINE u == UpTo(w, t)
  <2>1. u \in 0 .. Len(w) /\ \A j \in 1 .. Len(w) : j <= u <=> w[j].t <= t
    BY UpToIs
  <2>2. i \in first .. last
    OBVIOUS
  <2>3. ASSUME s <= t, t <= e PROVE t \in start .. end /\ u = i
    <3>1. start <= t
      <4>1. CASE i = first
        BY <2>3, <4>1
      <4>2. CASE i # first
        <5>1. w[i].t \in Int /\ w[i].t <= t
          BY <1>1, <1>3, <2>3, <4>2
        <5> QED
          BY <1>3, <4>2, <5>1
      <4> QED
        BY <4>1, <4>2
    <3>2. t <= end
      <4>1. CASE i = last
        BY <2>3, <4>1
      <4>2. CASE i # last
        <5>1. w[i + 1].t \in Int /\ t <= w[i + 1].t - 1
          BY <1>1, <1>4, <2>3, <4>2
        <5> QED
          BY <1>4, <4>2, <5>1
      <4> QED
        BY <4>1, <4>2
    <3>3. first <= u /\ u <= last
      BY <3>1, <3>2, UpToGrows
    <3>4. i <= u
      <4>1. CASE i = first
        BY <3>3, <4>1
      <4>2. CASE i # first
        BY <1>3, <2>1, <2>3, <4>2
      <4> QED
        BY <4>1, <4>2
    <3>5. u <= i
      <4>1. CASE i = last
        BY <3>3, <4>1
      <4>2. CASE i # last
        <5>1. w[i + 1].t \in Int /\ t <= w[i + 1].t - 1 /\ i + 1 \in 1 .. Len(w)
          BY <1>1, <1>4, <2>3, <4>2
        <5>2. ~(w[i + 1].t <= t)
          BY <5>1
        <5>3. ~(i + 1 <= u)
          BY <2>1, <5>1, <5>2
        <5> HIDE DEF u, first, last
        <5> QED
          BY <1>1, <2>1, <2>2, <5>3
      <4> QED
        BY <4>1, <4>2
    <3> HIDE DEF u, first, last
    <3> QED
      BY <1>1, <2>1, <2>2, <3>1, <3>2, <3>4, <3>5
  <2>4. ASSUME t \in start .. end, u = i PROVE s <= t /\ t <= e
    <3>1. s <= t
      BY <1>3, <2>1, <2>4
    <3>2. t <= e
      <4>1. CASE i = last
        BY <2>4, <4>1
      <4>2. CASE i # last
        <5>1. i + 1 \in 1 .. Len(w) /\ w[i + 1].t \in Int
          BY <1>1, <1>4, <4>2
        <5>2. ~(w[i + 1].t <= t)
          BY <2>1, <2>4, <5>1
        <5> QED
          BY <4>2, <5>1, <5>2
      <4> QED
        BY <4>1, <4>2
    <3> QED
      BY <3>1, <3>2
  <2> QED
    BY <2>3, <2>4
<1>7. \A t \in Int : UpTo(w, t) = i => p.value = get_value_at_time(w, t)
  BY DEF Piece, get_value_at_time
<1> HIDE DEF p, s, e
<1> QED
  BY <1>2, <1>5, <1>6, <1>7 DEF p

LEMMA IntervalsCover ==
    ASSUME NEW w, Wave(w), NEW width, NEW bits, NEW start \in Int, NEW end \in Int, start <= end
    PROVE  LET found == find_value_intervals(w, width, bits, start, end)
           IN  /\ \A i \in DOMAIN found : i > 1 => found[i - 1].end < found[i].start
               /\ UNION {found[i].start .. found[i].end : i \in DOMAIN found}
                    = {t \in start .. end : value_matches_query(width, get_value_at_time(w, t), bits)}
<1> DEFINE first == UpTo(w, start)
           last == UpTo(w, end)
           P == Pieces(w, start, end)
           K == Shows(w, width, bits, start, end)
           A == Ascending(K)
           found == find_value_intervals(w, width, bits, start, end)
<1>1. first \in Nat /\ last \in Nat /\ first <= last
  <2>1. first <= last /\ first \in 0 .. Len(w) /\ last \in 0 .. Len(w)
    BY UpToGrows
  <2> QED
    BY <2>1, WaveIs
<1>2. /\ DOMAIN P = 1 .. last - first + 1
      /\ \A k \in DOMAIN P : P[k] = Piece(w, start, end, first + k - 1) /\ first + k - 1 \in first .. last
  BY <1>1 DEF Pieces
<1> HIDE DEF first, last
<1>3. \A k \in DOMAIN P :
        /\ P[k].start \in Int /\ P[k].end \in Int
        /\ \A t \in Int : P[k].start <= t /\ t <= P[k].end <=> t \in start .. end /\ UpTo(w, t) = first + k - 1
        /\ \A t \in Int : UpTo(w, t) = first + k - 1 => P[k].value = get_value_at_time(w, t)
  <2> SUFFICES ASSUME NEW k \in DOMAIN P
               PROVE  /\ P[k].start \in Int /\ P[k].end \in Int
                      /\ \A t \in Int : P[k].start <= t /\ t <= P[k].end <=> t \in start .. end /\ UpTo(w, t) = first + k - 1
                      /\ \A t \in Int : UpTo(w, t) = first + k - 1 => P[k].value = get_value_at_time(w, t)
    OBVIOUS
  <2> DEFINE i == first + k - 1
  <2>1. P[k] = Piece(w, start, end, i) /\ i \in UpTo(w, start) .. UpTo(w, end)
    BY <1>2 DEF first, last
  <2> HIDE DEF i, P
  <2>2. LET p == Piece(w, start, end, i)
        IN  /\ p.start \in Int /\ p.end \in Int
            /\ \A t \in Int : p.start <= t /\ t <= p.end <=> t \in start .. end /\ UpTo(w, t) = i
            /\ \A t \in Int : UpTo(w, t) = i => p.value = get_value_at_time(w, t)
    BY <2>1, PieceIs
  <2> QED
    BY <2>1, <2>2 DEF i
<1>4. K = {k \in DOMAIN P : P[k].start <= P[k].end /\ value_matches_query(width, P[k].value, bits)}
  BY DEF Shows
<1> HIDE DEF P, K
<1>5. K \in SUBSET Int /\ IsFiniteSet(K) /\ K \subseteq DOMAIN P
  <2> DEFINE n == last - first + 1
  <2>1. n \in Int
    BY <1>1
  <2>2. DOMAIN P = 1 .. n
    BY <1>2
  <2>3. K \subseteq DOMAIN P
    BY <1>4
  <2> HIDE DEF n
  <2>4. IsFiniteSet(1 .. n)
    BY <2>1, FS_Interval
  <2>5. IsFiniteSet(K)
    BY <2>2, <2>3, <2>4, FS_Subset
  <2>6. \A k \in 1 .. n : k \in Int
    BY <2>1
  <2> QED
    BY <2>2, <2>3, <2>5, <2>6
<1>6. found = [m \in DOMAIN A |-> P[A[m]]]
  BY IntervalsAre DEF Picked, P, K
<1>7. /\ DOMAIN A = 1 .. Cardinality(K) /\ Cardinality(K) \in Nat /\ \A m \in DOMAIN A : A[m] \in K
      /\ \A k \in K : \E m \in DOMAIN A : A[m] = k
      /\ \A m, n \in DOMAIN A : m < n => A[m] < A[n]
  BY <1>5, AscendingIs
<1> HIDE DEF A, found
<1>8. ASSUME NEW m \in DOMAIN found, m > 1
      PROVE  found[m - 1].end < found[m].start
  <2>1. m \in DOMAIN A /\ m - 1 \in DOMAIN A /\ m - 1 < m
    BY <1>6, <1>7, <1>8
  <2> DEFINE a == A[m - 1]
             b == A[m]
  <2>2. a \in K /\ b \in K /\ a < b /\ a \in DOMAIN P /\ b \in DOMAIN P /\ a \in Int /\ b \in Int
    BY <1>5, <1>7, <2>1
  <2>3. found[m - 1] = P[a] /\ found[m] = P[b]
    BY <1>6, <2>1
  <2> HIDE DEF a, b
  <2>4. P[a].start <= P[a].end /\ P[b].start <= P[b].end /\ P[a].end \in Int /\ P[b].start \in Int /\ P[b].end \in Int /\ P[a].start \in Int
    BY <1>3, <1>4, <2>2
  <2> DEFINE x == P[a].end
             y == P[b].start
  <2>5. x \in start .. end /\ UpTo(w, x) = first + a - 1 /\ UpTo(w, y) = first + b - 1
    BY <1>3, <2>2, <2>4
  <2>6. ~(y <= x)
    <3> SUFFICES ASSUME y <= x PROVE FALSE
      OBVIOUS
    <3>1. UpTo(w, y) <= UpTo(w, x)
      BY <2>4, UpToGrows
    <3> QED
      BY <1>1, <2>2, <2>5, <3>1
  <2> QED
    BY <2>3, <2>4, <2>6
<1>9. ASSUME NEW t \in start .. end, value_matches_query(width, get_value_at_time(w, t), bits)
      PROVE  \E m \in DOMAIN found : t \in found[m].start .. found[m].end
  <2> DEFINE k == UpTo(w, t) - first + 1
  <2>1. UpTo(w, t) \in first .. last /\ t \in Int
    <3>1. t \in Int /\ start <= t /\ t <= end
      OBVIOUS
    <3>2. first <= UpTo(w, t) /\ UpTo(w, t) <= last /\ UpTo(w, t) \in 0 .. Len(w)
      BY <3>1, UpToGrows DEF first, last
    <3> QED
      BY <1>1, <3>1, <3>2
  <2>2. k \in DOMAIN P /\ first + k - 1 = UpTo(w, t)
    BY <1>1, <1>2, <2>1
  <2> HIDE DEF k
  <2>3. P[k].start <= t /\ t <= P[k].end /\ P[k].value = get_value_at_time(w, t) /\ P[k].start \in Int /\ P[k].end \in Int
    BY <1>3, <2>1, <2>2
  <2>4. k \in K
    BY <1>4, <1>9, <2>1, <2>2, <2>3
  <2>5. PICK m \in DOMAIN A : A[m] = k
    BY <1>7, <2>4
  <2> QED
    BY <1>6, <2>1, <2>3, <2>5
<1>10. ASSUME NEW m \in DOMAIN found, NEW t \in found[m].start .. found[m].end
       PROVE  t \in start .. end /\ value_matches_query(width, get_value_at_time(w, t), bits)
  <2> DEFINE k == A[m]
  <2>1. m \in DOMAIN A /\ k \in K /\ found[m] = P[k] /\ k \in DOMAIN P
    BY <1>5, <1>6, <1>7
  <2> HIDE DEF k
  <2>2. t \in Int /\ P[k].start <= t /\ t <= P[k].end
    BY <1>3, <2>1
  <2>3. t \in start .. end /\ P[k].value = get_value_at_time(w, t)
    BY <1>3, <2>1, <2>2
  <2>4. value_matches_query(width, P[k].value, bits)
    BY <1>4, <2>1
  <2> QED
    BY <2>3, <2>4
<1>11. UNION {found[i].start .. found[i].end : i \in DOMAIN found}
         = {t \in start .. end : value_matches_query(width, get_value_at_time(w, t), bits)}
  BY <1>9, <1>10
<1> QED
  BY <1>8, <1>11 DEF found

---------------------------------------------------------------------------
(* Digits.                                                                 *)
Bit(c) == IF c = "1" THEN 1 ELSE 0

(* The numbers of the first k bits, and what halving leaves after k steps. *)
ReadsBits(read, bits, n) ==
  /\ read \in [0 .. n -> Nat] /\ read[0] = 0
  /\ \A k \in 1 .. n : read[k] = 2 * read[k - 1] + Bit(bits[k])
Halves(left, m, n) ==
  /\ left \in [0 .. n -> Nat] /\ left[0] = m
  /\ \A k \in 1 .. n : left[k] = left[k - 1] \div 2

LEMMA NumberIs ==
    ASSUME NEW bits, Len(bits) \in Nat
    PROVE  \E read : ReadsBits(read, bits, Len(bits)) /\ Number(bits) = read[Len(bits)]
<1> DEFINE n == Len(bits)
           G == [x \in (1 .. n) \X Nat |-> 2 * x[2] + Bit(bits[x[1]])]
           J == [k \in 0 .. n |-> Nat]
           read == CHOOSE f : f = [k \in 0 .. n |-> IF k = 0 THEN 0 ELSE 2 * f[k - 1] + (IF bits[k] = "1" THEN 1 ELSE 0)]
<1>1. J \in [0 .. n -> SUBSET Nat] /\ 0 \in J[0]
  OBVIOUS
<1>2. \A k \in 1 .. n : \A x \in J[k - 1] : G[<<k, x>>] = 2 * x + Bit(bits[k]) /\ G[<<k, x>>] \in J[k]
  <2> SUFFICES ASSUME NEW k \in 1 .. n, NEW x \in J[k - 1]
               PROVE  G[<<k, x>>] = 2 * x + Bit(bits[k]) /\ G[<<k, x>>] \in J[k]
    OBVIOUS
  <2>1. k - 1 \in 0 .. n /\ k \in 0 .. n /\ x \in Nat
    OBVIOUS
  <2>2. G[<<k, x>>] = 2 * x + Bit(bits[k])
    BY <2>1
  <2>3. Bit(bits[k]) \in {0, 1}
    BY DEF Bit
  <2>4. J[k] = Nat
    BY <2>1
  <2> HIDE DEF G, J
  <2> QED
    BY <2>1, <2>2, <2>3, <2>4
<1>3. \A k \in 0 .. n : J[k] = Nat
  OBVIOUS
<1> HIDE DEF G, J
<1>4. PICK f : InSteps(f, n, 0, G, J)
  BY <1>1, <1>2, StepsInside
<1>5. f = [k \in 0 .. n |-> IF k = 0 THEN 0 ELSE 2 * f[k - 1] + (IF bits[k] = "1" THEN 1 ELSE 0)]
  <2>1. ASSUME NEW k \in 0 .. n, k # 0
        PROVE  G[<<k, f[k - 1]>>] = 2 * f[k - 1] + (IF bits[k] = "1" THEN 1 ELSE 0)
    <3>1. k - 1 \in 0 .. n /\ k \in 1 .. n
      BY <2>1
    <3> QED
      BY <1>2, <1>4, <3>1 DEF InSteps, Bit
  <2> QED
    BY <1>4, <2>1 DEF InSteps
<1>6. read = [k \in 0 .. n |-> IF k = 0 THEN 0 ELSE 2 * read[k - 1] + (IF bits[k] = "1" THEN 1 ELSE 0)]
  BY <1>5
<1>7. Number(bits) = read[n]
  BY DEF Number
<1> HIDE DEF read, n
<1>8. n \in Nat
  BY DEF n
<1>9. read[0] = 0 /\ \A k \in 1 .. n : read[k] = 2 * read[k - 1] + Bit(bits[k])
  <2>1. 0 \in 0 .. n /\ \A k \in 1 .. n : k \in 0 .. n /\ k # 0
    BY <1>8
  <2> QED
    BY <1>6, <2>1 DEF Bit
<1>10. \A k \in 0 .. n : read[k] \in J[k]
  <2>1. read[0] \in J[0]
    BY <1>1, <1>9
  <2>2. \A k \in 1 .. n : read[k - 1] \in J[k - 1] => read[k] \in J[k]
    BY <1>2, <1>9
  <2> QED
    BY <1>8, <2>1, <2>2, StepwiseIn
<1>11. read \in [0 .. n -> Nat]
  BY <1>3, <1>6, <1>10
<1> QED
  BY <1>7, <1>9, <1>11 DEF ReadsBits, n

LEMMA NumberBitsAre ==
    ASSUME NEW m \in Nat, NEW n \in Nat
    PROVE  \E left : /\ Halves(left, m, n)
                     /\ NumberBits(m, n) = [i \in 1 .. n |-> IF left[n - i] % 2 = 1 THEN "1" ELSE "0"]
<1> DEFINE G == [x \in (1 .. n) \X Nat |-> x[2] \div 2]
           J == [k \in 0 .. n |-> Nat]
           left == CHOOSE f : f = [k \in 0 .. n |-> IF k = 0 THEN m ELSE f[k - 1] \div 2]
<1>1. J \in [0 .. n -> SUBSET Nat] /\ m \in J[0]
  OBVIOUS
<1>2. \A k \in 1 .. n : \A x \in J[k - 1] : G[<<k, x>>] = x \div 2 /\ G[<<k, x>>] \in J[k]
  OBVIOUS
<1>3. \A k \in 0 .. n : J[k] = Nat
  OBVIOUS
<1> HIDE DEF G, J
<1>4. PICK f : InSteps(f, n, m, G, J)
  BY <1>1, <1>2, StepsInside
<1>5. f = [k \in 0 .. n |-> IF k = 0 THEN m ELSE f[k - 1] \div 2]
  <2>1. ASSUME NEW k \in 0 .. n, k # 0
        PROVE  G[<<k, f[k - 1]>>] = f[k - 1] \div 2
    <3>1. k - 1 \in 0 .. n /\ k \in 1 .. n
      BY <2>1
    <3> QED
      BY <1>2, <1>4, <3>1 DEF InSteps
  <2> QED
    BY <1>4, <2>1 DEF InSteps
<1>6. left = [k \in 0 .. n |-> IF k = 0 THEN m ELSE left[k - 1] \div 2]
  BY <1>5
<1>7. NumberBits(m, n) = [i \in 1 .. n |-> IF left[n - i] % 2 = 1 THEN "1" ELSE "0"]
  BY DEF NumberBits
<1> HIDE DEF left
<1>9. left[0] = m /\ \A k \in 1 .. n : left[k] = left[k - 1] \div 2
  <2>1. 0 \in 0 .. n /\ \A k \in 1 .. n : k \in 0 .. n /\ k # 0
    OBVIOUS
  <2> QED
    BY <1>6, <2>1
<1>10. \A k \in 0 .. n : left[k] \in J[k]
  <2>1. left[0] \in J[0]
    BY <1>1, <1>9
  <2>2. \A k \in 1 .. n : left[k - 1] \in J[k - 1] => left[k] \in J[k]
    BY <1>2, <1>9
  <2> QED
    BY <2>1, <2>2, StepwiseIn
<1>11. left \in [0 .. n -> Nat]
  BY <1>3, <1>6, <1>10
<1> QED
  BY <1>7, <1>9, <1>11 DEF Halves

(* A number that was read from n bits has these n bits.                    *)
LEMMA NumberReadsBack ==
    ASSUME NEW bits \in Seq({"0", "1"})
    PROVE  NumberBits(Number(bits), Len(bits)) = bits
<1> DEFINE n == Len(bits)
<1>1. n \in Nat /\ DOMAIN bits = 1 .. n /\ \A i \in 1 .. n : bits[i] \in {"0", "1"}
  OBVIOUS
<1>2. PICK read : ReadsBits(read, bits, n) /\ Number(bits) = read[n]
  BY <1>1, NumberIs
<1>3. Number(bits) \in Nat
  BY <1>1, <1>2 DEF ReadsBits
<1>4. PICK left : /\ Halves(left, Number(bits), n)
                  /\ NumberBits(Number(bits), n) = [i \in 1 .. n |-> IF left[n - i] % 2 = 1 THEN "1" ELSE "0"]
  BY <1>1, <1>3, NumberBitsAre
<1> DEFINE J == [k \in 0 .. n |-> {read[n - k]}]
<1>5. \A k \in 0 .. n : left[k] \in J[k]
  <2> HIDE DEF n
  <2>1. left[0] \in J[0]
    BY <1>1, <1>2, <1>4 DEF Halves
  <2>2. ASSUME NEW k \in 1 .. n, left[k - 1] \in J[k - 1] PROVE left[k] \in J[k]
    <3>1. k - 1 \in 0 .. n /\ n - k \in 0 .. n /\ n - (k - 1) \in 1 .. n /\ (n - (k - 1)) - 1 = n - k
      BY <1>1
    <3> DEFINE l == n - (k - 1)
    <3>2. left[k - 1] = read[l]
      BY <2>2, <3>1
    <3>3. left[k] = left[k - 1] \div 2
      BY <1>4 DEF Halves
    <3>4. l \in 1 .. n /\ l - 1 = n - k
      BY <3>1
    <3> HIDE DEF l
    <3>5. read[l] = 2 * read[l - 1] + Bit(bits[l]) /\ read[l - 1] \in Nat
      BY <1>2, <3>1, <3>4 DEF ReadsBits
    <3>6. left[k] = read[n - k]
      BY <3>2, <3>3, <3>4, <3>5 DEF Bit
    <3> QED
      BY <3>6
  <2> HIDE DEF J
  <2> QED
    BY <1>1, <2>1, <2>2, StepwiseIn
<1>6. ASSUME NEW i \in 1 .. n PROVE (IF left[n - i] % 2 = 1 THEN "1" ELSE "0") = bits[i]
  <2>1. n - i \in 0 .. n /\ n - (n - i) = i
    BY <1>1
  <2>2. left[n - i] = read[i]
    BY <1>5, <2>1
  <2>3. read[i] = 2 * read[i - 1] + Bit(bits[i]) /\ read[i - 1] \in Nat
    BY <1>1, <1>2 DEF ReadsBits
  <2>4. bits[i] \in {"0", "1"}
    BY <1>1
  <2>5. read[i] % 2 = Bit(bits[i])
    BY <2>3 DEF Bit
  <2> QED
    BY <2>2, <2>4, <2>5 DEF Bit
<1> DEFINE c == [i \in 1 .. n |-> IF left[n - i] % 2 = 1 THEN "1" ELSE "0"]
<1>7. c \in Seq({"0", "1"}) /\ Len(c) = n
  BY <1>1
<1>8. \A i \in 1 .. n : c[i] = bits[i]
  BY <1>6
<1> HIDE DEF c
<1>9. c = bits
  BY <1>7, <1>8, SameEntries
<1> QED
  BY <1>4, <1>9 DEF c

LEMMA PadIs ==
    ASSUME NEW bits \in Seq(Digits), NEW n \in Nat, Len(bits) <= n
    PROVE  /\ Pad(bits, n) \in Seq(Digits) /\ Len(Pad(bits, n)) = n
           /\ \A i \in 1 .. n : Pad(bits, n)[i] = IF i <= n - Len(bits) THEN "0" ELSE bits[i - (n - Len(bits))]
<1> DEFINE z == [i \in 1 .. n - Len(bits) |-> "0"]
<1>1. z \in Seq(Digits) /\ Len(z) = n - Len(bits) /\ \A i \in 1 .. n - Len(bits) : z[i] = "0"
  BY DEF Digits
<1>2. Pad(bits, n) = z \o bits
  BY DEF Pad
<1> HIDE DEF z
<1> QED
  BY <1>1, <1>2

LEMMA LogicIs ==
    ASSUME NEW S, NEW bits \in Seq(S)
    PROVE  /\ Logic(bits) \in Seq(Digits) /\ Len(Logic(bits)) = Len(bits)
           /\ bits \in Seq(Digits) => Logic(bits) = bits
<1> DEFINE f == Logic(bits)
<1>1. DOMAIN bits = 1 .. Len(bits) /\ Len(bits) \in Nat
  OBVIOUS
<1>2. f = [i \in 1 .. Len(bits) |-> IF Lower(bits[i]) \in Digits THEN Lower(bits[i]) ELSE "x"]
  BY <1>1 DEF Logic
<1>3. \A i \in 1 .. Len(bits) : f[i] \in Digits
  <2> HIDE DEF f
  <2>1. "x" \in Digits
    BY DEF Digits
  <2> QED
    BY <1>2, <2>1
<1> HIDE DEF f
<1>4. f \in Seq(Digits) /\ Len(f) = Len(bits)
  BY <1>1, <1>2, <1>3
<1>5. ASSUME bits \in Seq(Digits) PROVE f = bits
  <2>1. \A c \in Digits : Lower(c) = c
    BY DEF Digits, Lower
  <2>2. \A i \in 1 .. Len(bits) : bits[i] \in Digits
    BY <1>5
  <2>3. \A i \in 1 .. Len(bits) : f[i] = bits[i]
    BY <1>2, <2>1, <2>2
  <2> QED
    BY <1>4, <1>5, <2>3, SameEntries
<1> QED
  BY <1>4, <1>5 DEF f

(* The zeros in front are cut off again.                                   *)
LEMMA FitsBack ==
    ASSUME NEW bits \in Seq(Digits), NEW n \in Nat, Len(bits) <= n
    PROVE  Fit(Pad(bits, n), Len(bits)) = bits
<1> DEFINE p == Pad(bits, n)
           w == Len(bits)
<1>1. /\ p \in Seq(Digits) /\ Len(p) = n /\ w \in Nat
      /\ \A i \in 1 .. n : p[i] = IF i <= n - w THEN "0" ELSE bits[i - (n - w)]
  BY PadIs
<1> HIDE DEF p, w
<1>2. bits \in Seq(Digits) /\ Len(bits) = w /\ w <= n
  BY DEF w
<1>3. CASE n > w
  <2> DEFINE s == SubSeq(p, n - w + 1, n)
  <2>1. s \in Seq(Digits) /\ Len(s) = w /\ \A i \in 1 .. w : s[i] = p[n - w + i]
    BY <1>1, <1>3
  <2>2. ASSUME NEW i \in 1 .. w PROVE s[i] = bits[i]
    <3>1. n - w + i \in 1 .. n /\ ~(n - w + i <= n - w) /\ (n - w + i) - (n - w) = i
      BY <1>1, <1>2
    <3> HIDE DEF s
    <3>2. p[n - w + i] = bits[(n - w + i) - (n - w)]
      BY <1>1, <3>1
    <3> QED
      BY <2>1, <3>1, <3>2
  <2>3. Fit(p, w) = s
    BY <1>1, <1>3 DEF Fit
  <2> HIDE DEF s
  <2>4. s = bits
    BY <1>2, <2>1, <2>2, SameEntries
  <2> QED
    BY <2>3, <2>4 DEF p, w
<1>4. CASE n = w
  <2>1. ASSUME NEW q \in Seq(Digits), Len(q) = n
        PROVE  Pad(q, n) = q
    <3>1. n \in Nat /\ Len(q) <= n /\ n - Len(q) = 0
      BY <2>1
    <3>2. /\ Pad(q, n) \in Seq(Digits) /\ Len(Pad(q, n)) = n
          /\ \A i \in 1 .. n : Pad(q, n)[i] = IF i <= n - Len(q) THEN "0" ELSE q[i - (n - Len(q))]
      BY <3>1, PadIs
    <3>3. \A i \in 1 .. n : Pad(q, n)[i] = q[i]
      <4>1. \A i \in 1 .. n : ~(i <= 0) /\ i - 0 = i
        OBVIOUS
      <4> QED
        BY <3>1, <3>2, <4>1
    <3> QED
      BY <2>1, <3>2, <3>3, SameEntries
  <2>2. p = bits
    BY <1>2, <1>4, <2>1 DEF p
  <2>3. Fit(p, w) = Pad(p, n)
    BY <1>1, <1>4 DEF Fit
  <2>4. Pad(p, n) = p
    BY <1>1, <2>1
  <2> QED
    BY <2>2, <2>3, <2>4 DEF p, w
<1> QED
  BY <1>1, <1>2, <1>3, <1>4

(* A hexadecimal digit of equal or known bits stands for these bits.       *)
Sharp(bits, k) ==
  LET nibble == {bits[i] : i \in 4 * k - 3 .. 4 * k}
  IN  nibble \subseteq {"0", "1"} \/ nibble = {"x"} \/ nibble = {"z"}

LEMMA HexIsSharp ==
    ASSUME NEW n \in Nat, NEW p \in Seq(Digits), Len(p) = 4 * n, \A k \in 1 .. n : Sharp(p, k)
    PROVE  [i \in 1 .. 4 * n |-> HexDigit(Nibbles(p, n)[(i + 3) \div 4])[((i - 1) % 4) + 1]] = p
<1> DEFINE e == [i \in 1 .. 4 * n |-> HexDigit(Nibbles(p, n)[(i + 3) \div 4])[((i - 1) % 4) + 1]]
<1>1. ASSUME NEW i \in 1 .. 4 * n
      PROVE  HexDigit(Nibbles(p, n)[(i + 3) \div 4])[((i - 1) % 4) + 1] = p[i]
  <2> DEFINE k == (i + 3) \div 4
             j == ((i - 1) % 4) + 1
  <2>1. k \in 1 .. n /\ j \in 1 .. 4 /\ i = 4 * k - 4 + j
    OBVIOUS
  <2> HIDE DEF k, j
  <2> DEFINE d == Nibbles(p, n)[k]
  <2>2. d = SubSeq(p, 4 * k - 3, 4 * k)
    BY <2>1 DEF Nibbles
  <2>3. 4 * k - 3 \in 1 .. 4 * n /\ 4 * k \in 1 .. 4 * n /\ 4 * k - (4 * k - 3) + 1 = 4
    BY <2>1
  <2> HIDE DEF d
  <2>4. Len(d) = 4 /\ DOMAIN d = 1 .. 4 /\ \A m \in 1 .. 4 : d[m] = p[4 * k - 4 + m]
    <3> DEFINE a == 4 * k - 3
               b == 4 * k
    <3>1. a \in 1 .. Len(p) /\ b \in 1 .. Len(p) /\ b - a + 1 = 4 /\ \A m \in 1 .. 4 : a + m - 1 = 4 * k - 4 + m
      BY <2>1, <2>3
    <3>2. d = SubSeq(p, a, b)
      BY <2>2
    <3> HIDE DEF a, b
    <3>3. Len(d) = b - a + 1 /\ DOMAIN d = 1 .. b - a + 1 /\ \A m \in 1 .. b - a + 1 : d[m] = p[a + m - 1]
      BY <3>1, <3>2
    <3> QED
      BY <3>1, <3>3
  <2> DEFINE nibble == {p[l] : l \in 4 * k - 3 .. 4 * k}
  <2>5. \A m \in 1 .. 4 : d[m] \in nibble
    <3>1. \A m \in 1 .. 4 : 4 * k - 4 + m \in 4 * k - 3 .. 4 * k
      BY <2>1
    <3> QED
      BY <2>4, <3>1
  <2>6. nibble \subseteq {"0", "1"} \/ nibble = {"x"} \/ nibble = {"z"}
    BY <2>1 DEF Sharp
  <2> HIDE DEF nibble
  <2>7. d[j] = p[i]
    BY <2>1, <2>4
  <2>8. CASE nibble \subseteq {"0", "1"}
    <3>1. \A m \in 1 .. 4 : d[m] # "z" /\ d[m] # "x"
      BY <2>5, <2>8
    <3>2. 1 \in 1 .. 4
      OBVIOUS
    <3>3. HexDigit(d) = d
      BY <2>4, <3>1, <3>2 DEF HexDigit
    <3> QED
      BY <2>7, <3>3 DEF d, j, k
  <2>9. CASE nibble = {"x"}
    <3>1. \A m \in 1 .. 4 : d[m] = "x"
      BY <2>5, <2>9
    <3>2. 1 \in 1 .. 4 /\ "x" # "z"
      OBVIOUS
    <3>3. HexDigit(d) = <<"x", "x", "x", "x">>
      BY <2>4, <3>1, <3>2 DEF HexDigit
    <3>4. HexDigit(d)[j] = p[i]
      BY <2>1, <2>7, <3>1, <3>3
    <3> QED
      BY <3>4 DEF d, j, k
  <2>10. CASE nibble = {"z"}
    <3>1. \A m \in 1 .. 4 : d[m] = "z"
      BY <2>5, <2>10
    <3>3. HexDigit(d) = <<"z", "z", "z", "z">>
      BY <2>4, <3>1 DEF HexDigit
    <3>4. HexDigit(d)[j] = p[i]
      BY <2>1, <2>7, <3>1, <3>3
    <3> QED
      BY <3>4 DEF d, j, k
  <2> QED
    BY <2>6, <2>8, <2>9, <2>10
<1>2. \A i \in 1 .. 4 * n : e[i] = p[i] /\ p[i] \in Digits
  BY <1>1
<1>3. e = [i \in 1 .. 4 * n |-> p[i]]
  BY <1>1
<1>4. p = [i \in 1 .. 4 * n |-> p[i]]
  OBVIOUS
<1> QED
  BY <1>3, <1>4

(* The values of a vector, and the bits they stand for.                    *)
LEMMA NormalIs ==
    ASSUME NEW width \in Widths, width > 1, NEW v \in Values[width]
    PROVE  /\ normalize_multibit_bits(v, width) \in Seq(Digits)
           /\ Len(normalize_multibit_bits(v, width)) = width /\ width \in Nat
<1>1. /\ width \in Nat /\ v \in Seq(STRING) /\ v[1] \in {"b", "B"} /\ Len(v) - 1 \in 1 .. width
  BY QueryAssumption
<1>2. v # <<>> /\ Len(v) # 1 /\ Tail(v) \in Seq(STRING) /\ Len(Tail(v)) = Len(v) - 1
  <2>1. Len(v) \in Nat /\ Len(v) >= 2
    BY <1>1
  <2>2. v # <<>>
    BY <2>1
  <2>3. ASSUME NEW S, NEW s \in Seq(S), s # <<>> PROVE Tail(s) \in Seq(S) /\ Len(Tail(s)) = Len(s) - 1
    BY <2>3
  <2>4. Tail(v) \in Seq(STRING) /\ Len(Tail(v)) = Len(v) - 1
    BY <1>1, <2>2, <2>3, Zenon
  <2> QED
    BY <2>1, <2>2, <2>4
<1>3. BitDigits(width) = width
  BY DEF BitDigits
<1>4. normalize_multibit_bits(v, width) = Pad(Logic(Tail(v)), width)
  BY <1>1, <1>2, <1>3 DEF normalize_multibit_bits
<1>5. Logic(Tail(v)) \in Seq(Digits) /\ Len(Logic(Tail(v))) = Len(v) - 1
  BY <1>2, LogicIs
<1> QED
  BY <1>1, <1>4, <1>5, PadIs

LEMMA HexFits == ASSUME NEW width \in Nat, width > 1 PROVE HexDigits(width) \in Nat /\ width <= 4 * HexDigits(width)
BY DEF HexDigits

LEMMA AskedAsShown ==
    ASSUME NEW width \in Widths, width > 1, NEW v \in Values[width], NEW radix \in Radixes,
           format_multibit_value(v, width, radix).radix = "hex" =>
             \A k \in 1 .. HexDigits(width) :
               Sharp(Pad(normalize_multibit_bits(v, width), 4 * HexDigits(width)), k)
    PROVE  value_matches_query(width, v,
             normalize_query_value_to_bits(format_multibit_value(v, width, radix), width))
<1> DEFINE bits == normalize_multibit_bits(v, width)
           q == format_multibit_value(v, width, radix)
           n == HexDigits(width)
           p == Pad(bits, 4 * n)
           e == [i \in 1 .. 4 * n |-> HexDigit(Nibbles(p, n)[(i + 3) \div 4])[((i - 1) % 4) + 1]]
           known == \A i \in DOMAIN bits : bits[i] \in {"0", "1"}
<1>1. bits \in Seq(Digits) /\ Len(bits) = width /\ width \in Nat
  BY NormalIs
<1>2. BitDigits(width) = width /\ ~(width <= 1)
  BY <1>1 DEF BitDigits
<1>3. n \in Nat /\ width <= 4 * n /\ 4 * n \in Nat
  BY <1>1, HexFits
<1>4. q = IF bits # <<>> /\ bits[1] \notin Digits THEN [radix |-> "raw", bits |-> bits, number |-> 0]
          ELSE IF radix = "dec" /\ known THEN [radix |-> "dec", bits |-> <<>>, number |-> Number(bits)]
          ELSE IF radix = "bin" \/ radix = "dec" THEN [radix |-> "bin", bits |-> bits, number |-> 0]
          ELSE [radix |-> "hex", number |-> 0, bits |-> e]
  BY DEF format_multibit_value
<1> HIDE DEF q, e, p, bits
<1>5. bits[1] \in Digits
  BY <1>1
<1>6. SUFFICES normalize_query_value_to_bits(q, width) = bits
  BY <1>2 DEF value_matches_query, bits, q
<1>7. normalize_query_value_to_bits(q, width)
        = IF q.radix = "dec" THEN NumberBits(q.number, width) ELSE Fit(Logic(q.bits), width)
  BY <1>2 DEF normalize_query_value_to_bits
<1>8. Fit(Logic(bits), width) = bits
  <2>1. Logic(bits) = bits
    BY <1>1, LogicIs
  <2>2. Fit(Pad(bits, width), width) = bits
    BY <1>1, FitsBack
  <2>3. Pad(bits, width) = bits
    <3>1. /\ Pad(bits, width) \in Seq(Digits) /\ Len(Pad(bits, width)) = width
          /\ \A i \in 1 .. width : Pad(bits, width)[i] = IF i <= width - Len(bits) THEN "0" ELSE bits[i - (width - Len(bits))]
      BY <1>1, PadIs
    <3>2. \A i \in 1 .. width : ~(i <= width - Len(bits)) /\ i - (width - Len(bits)) = i
      BY <1>1
    <3>3. \A i \in 1 .. width : Pad(bits, width)[i] = bits[i]
      BY <3>1, <3>2
    <3> QED
      BY <1>1, <3>1, <3>3, SameEntries
  <2> QED
    BY <2>1, <2>2, <2>3
<1>9. CASE radix = "dec" /\ known
  <2>1. q = [radix |-> "dec", bits |-> <<>>, number |-> Number(bits)]
    BY <1>4, <1>5, <1>9
  <2>2. bits \in Seq({"0", "1"})
    <3>1. \A i \in 1 .. width : bits[i] \in {"0", "1"}
      BY <1>1, <1>9
    <3>2. bits = [i \in 1 .. width |-> bits[i]]
      BY <1>1
    <3> QED
      BY <1>1, <3>1, <3>2
  <2>3. NumberBits(Number(bits), width) = bits
    BY <1>1, <2>2, NumberReadsBack
  <2>4. q.radix = "dec" /\ q.number = Number(bits)
    BY <2>1
  <2> QED
    BY <1>7, <2>3, <2>4
<1>10. CASE radix = "bin" \/ (radix = "dec" /\ ~known)
  <2>1. q = [radix |-> "bin", bits |-> bits, number |-> 0]
    BY <1>4, <1>5, <1>10
  <2>2. q.radix # "dec" /\ q.bits = bits
    BY <2>1
  <2> QED
    BY <1>7, <1>8, <2>2
<1>11. CASE radix = "hex"
  <2>1. q = [radix |-> "hex", number |-> 0, bits |-> e]
    BY <1>4, <1>5, <1>11
  <2>2. q.radix = "hex" /\ q.bits = e
    BY <2>1
  <2>3. p \in Seq(Digits) /\ Len(p) = 4 * n
    BY <1>1, <1>3, PadIs DEF p
  <2>4. \A k \in 1 .. n : Sharp(p, k)
    BY <2>2 DEF p, q, bits
  <2>5. e = p
    BY <1>3, <2>3, <2>4, HexIsSharp DEF e
  <2>6. Logic(p) = p
    BY <2>3, LogicIs
  <2>7. Fit(p, width) = bits
    BY <1>1, <1>3, FitsBack DEF p
  <2> QED
    BY <1>7, <2>2, <2>5, <2>6, <2>7
<1>12. radix \in {"hex", "bin", "dec"}
  BY DEF Radixes
<1>13. radix = "hex" \/ radix = "bin" \/ radix = "dec"
  BY <1>12
<1>14. CASE radix = "dec"
  <2>1. CASE known
    BY <1>9, <1>14, <2>1
  <2>2. CASE ~known
    BY <1>10, <1>14, <2>2
  <2> QED
    BY <2>1, <2>2
<1>15. CASE radix = "bin"
  BY <1>10, <1>15
<1> QED
  BY <1>11, <1>13, <1>14, <1>15

---------------------------------------------------------------------------
(* Stepping through a list one entry at a time.                            *)
LEMMA OneEntry ==
    ASSUME NEW S, NEW s \in Seq(S), Len(s) = 1
    PROVE  s = <<s[1]>>
<1>1. s[1] \in S
  OBVIOUS
<1> DEFINE q == <<s[1]>>
<1>2. q \in Seq(S) /\ Len(q) = 1 /\ q[1] = s[1]
  BY <1>1
<1> HIDE DEF q
<1>3. \A i \in 1 .. Len(s) : s[i] = q[i]
  BY <1>2
<1>4. s = q
  BY <1>2, <1>3, SameEntries
<1> QED
  BY <1>4 DEF q

LEMMA SeqWidens ==
    ASSUME NEW S, NEW T, S \subseteq T, NEW s \in Seq(S)
    PROVE  s \in Seq(T) /\ Len(s) \in Nat
<1>1. Len(s) \in Nat /\ \A i \in 1 .. Len(s) : s[i] \in T
  OBVIOUS
<1>2. s = [i \in 1 .. Len(s) |-> s[i]]
  OBVIOUS
<1> QED
  BY <1>1, <1>2

(* The answer to c: the entry behind the pos[c] entries before it.         *)
NextOne(a, list, C, pos, c) ==
  IF pos[c] = Len(list) THEN a.data = <<>> /\ ~a.has_more
  ELSE /\ a.data = <<list[pos[c] + 1]>> /\ a.has_more
       /\ a.next_cursor \in C /\ pos[a.next_cursor] = pos[c] + 1

LEMMA OneByOne ==
    ASSUME NEW S, NEW N, NEW list \in Seq(S), NEW C, NEW ask, \A c \in C : ask[c] \in Answered(S, N),
           NEW pos \in [C -> 0 .. Len(list)], \A c \in C : NextOne(ask[c], list, C, pos, c),
           NEW first \in C, pos[first] = 0, NEW n \in Nat, Len(list) <= n
    PROVE  Whole(Collected(ask, first, n), list)
<1>1. ASSUME NEW c \in C PROVE Part(ask[c], list, C, pos, c)
  <2> DEFINE k == pos[c]
             a == ask[c]
  <2>1. k \in 0 .. Len(list) /\ Len(list) \in Nat
    OBVIOUS
  <2>2. NextOne(a, list, C, pos, c)
    OBVIOUS
  <2> HIDE DEF k, a
  <2>3. CASE k = Len(list)
    <3>1. a.data = <<>> /\ ~a.has_more
      BY <2>2, <2>3 DEF NextOne, k
    <3>2. SubSeq(list, k + 1, k) = <<>>
      BY <2>1
    <3>3. k \in k .. Len(list)
      BY <2>1
    <3> QED
      BY <2>3, <3>1, <3>2, <3>3 DEF Part, k, a
  <2>4. CASE k # Len(list)
    <3>1. a.data = <<list[k + 1]>> /\ a.has_more /\ a.next_cursor \in C /\ pos[a.next_cursor] = k + 1
      BY <2>2, <2>4 DEF NextOne, k
    <3>2. k + 1 \in 1 .. Len(list) /\ k + 1 \in k .. Len(list) /\ k + 1 > k
      BY <2>1, <2>4
    <3>3. SubSeq(list, k + 1, k + 1) = <<list[k + 1]>>
      <4> DEFINE m == k + 1
                 s == SubSeq(list, m, m)
      <4>1. m \in Nat \ {0} /\ m \in Nat /\ m <= Len(list) /\ m <= m + 1 /\ m - m + 1 = 1 /\ m + 1 - 1 = m
        BY <2>1, <3>2
      <4> HIDE DEF m
      <4>2. s \in Seq(S) /\ Len(s) = m - m + 1 /\ \A i \in 1 .. m - m + 1 : s[i] = list[m + i - 1]
        BY <4>1, CutIs
      <4> HIDE DEF s
      <4>3. Len(s) = 1 /\ s[1] = list[m]
        BY <4>1, <4>2
      <4>4. s = <<s[1]>>
        BY <4>2, <4>3, OneEntry
      <4>5. s = <<list[m]>>
        BY <4>3, <4>4
      <4> QED
        BY <4>5 DEF s, m
    <3> QED
      BY <3>1, <3>2, <3>3 DEF Part, k, a
  <2> QED
    BY <2>3, <2>4
<1> QED
  BY <1>1, CollectedIs

(* The next entry above t of an ascending list, the next one up to t of a  *)
(* descending one.                                                         *)
Ahead(A, t) == Cardinality({j \in DOMAIN A : A[j] <= t})
Back(A, t) == Cardinality({j \in DOMAIN A : A[j] > t})

LEMMA AheadIs ==
    ASSUME NEW A \in Seq(Int), \A i, j \in DOMAIN A : i < j => A[i] < A[j], NEW t \in Int
    PROVE  Ahead(A, t) \in 0 .. Len(A) /\ \A j \in 1 .. Len(A) : j <= Ahead(A, t) <=> A[j] <= t
<1> DEFINE T == {j \in DOMAIN A : A[j] <= t}
<1>1. Len(A) \in Nat /\ DOMAIN A = 1 .. Len(A) /\ \A j \in 1 .. Len(A) : A[j] \in Int
  OBVIOUS
<1>2. ASSUME NEW i \in T, NEW j \in 1 .. i PROVE j \in T
  <2>1. i \in 1 .. Len(A) /\ j \in 1 .. Len(A) /\ A[i] <= t
    BY <1>1
  <2>2. CASE j = i
    BY <2>2
  <2>3. CASE j # i
    <3>1. j < i
      BY <1>1, <2>1, <2>3
    <3>2. A[j] < A[i]
      BY <1>1, <2>1, <3>1
    <3> QED
      BY <1>1, <2>1, <3>2
  <2> QED
    BY <2>2, <2>3
<1>3. T \in SUBSET (1 .. Len(A))
  BY <1>1
<1>4. Cardinality(T) \in 0 .. Len(A) /\ T = 1 .. Cardinality(T)
  <2> HIDE DEF T
  <2> QED
    BY <1>1, <1>2, <1>3, FirstNumbers
<1>5. \A j \in 1 .. Len(A) : j \in T <=> A[j] <= t
  BY <1>1
<1> HIDE DEF T
<1>6. Ahead(A, t) = Cardinality(T)
  BY DEF Ahead, T
<1> QED
  BY <1>1, <1>4, <1>5, <1>6

LEMMA BackIs ==
    ASSUME NEW A \in Seq(Int), \A i, j \in DOMAIN A : i < j => A[i] > A[j], NEW t \in Int
    PROVE  Back(A, t) \in 0 .. Len(A) /\ \A j \in 1 .. Len(A) : j <= Back(A, t) <=> A[j] > t
<1> DEFINE T == {j \in DOMAIN A : A[j] > t}
<1>1. Len(A) \in Nat /\ DOMAIN A = 1 .. Len(A) /\ \A j \in 1 .. Len(A) : A[j] \in Int
  OBVIOUS
<1>2. ASSUME NEW i \in T, NEW j \in 1 .. i PROVE j \in T
  <2>1. i \in 1 .. Len(A) /\ j \in 1 .. Len(A) /\ A[i] > t
    BY <1>1
  <2>2. CASE j = i
    BY <2>2
  <2>3. CASE j # i
    <3>1. j < i
      BY <1>1, <2>1, <2>3
    <3>2. A[j] > A[i]
      BY <1>1, <2>1, <3>1
    <3> QED
      BY <1>1, <2>1, <3>2
  <2> QED
    BY <2>2, <2>3
<1>3. T \in SUBSET (1 .. Len(A))
  BY <1>1
<1>4. Cardinality(T) \in 0 .. Len(A) /\ T = 1 .. Cardinality(T)
  <2> HIDE DEF T
  <2> QED
    BY <1>1, <1>2, <1>3, FirstNumbers
<1>5. \A j \in 1 .. Len(A) : j \in T <=> A[j] > t
  BY <1>1
<1> HIDE DEF T
<1>6. Back(A, t) = Cardinality(T)
  BY DEF Back, T
<1> QED
  BY <1>1, <1>4, <1>5, <1>6

(* The least entry above t and the greatest one up to t.                   *)
Above(S, t) == IF {u \in S : u > t} = {} THEN -1 ELSE Min({u \in S : u > t})
Below(S, t) == IF {u \in S : u <= t} = {} THEN -1 ELSE Max({u \in S : u <= t})

LEMMA StepsAhead ==
    ASSUME NEW S \in SUBSET (1 .. MaxTime), MaxTime \in Nat, NEW edge, \A t \in 0 .. MaxTime : edge[t] = Above(S, t)
    PROVE  Whole(Collected([t \in 0 .. MaxTime |-> Found(edge[t], edge[t])], 0, MaxTime + 1), Ascending(S))
<1> DEFINE C == 0 .. MaxTime
           A == Ascending(S)
           ask == [t \in C |-> Found(edge[t], edge[t])]
           pos == [t \in C |-> Ahead(A, t)]
<1>1. S \in SUBSET Int /\ IsFiniteSet(S) /\ Cardinality(S) <= MaxTime
  <2> DEFINE T == 1 .. MaxTime
  <2>1. IsFiniteSet(T) /\ Cardinality(T) = MaxTime
    BY FS_Interval
  <2>2. S \in SUBSET T /\ S \in SUBSET Int
    OBVIOUS
  <2> HIDE DEF T
  <2>3. IsFiniteSet(S) /\ Cardinality(S) <= Cardinality(T)
    BY <2>1, <2>2, FS_Subset
  <2> QED
    BY <2>1, <2>2, <2>3
<1>2. /\ A \in Seq(S) /\ Len(A) <= MaxTime /\ \A i \in S : \E k \in DOMAIN A : A[k] = i
      /\ \A i, j \in DOMAIN A : i < j => A[i] < A[j]
      /\ DOMAIN A = 1 .. Len(A) /\ \A k \in DOMAIN A : A[k] \in S
  <2>1. DOMAIN A = 1 .. Cardinality(S) /\ Len(A) = Cardinality(S) /\ A \in Seq(S)
    BY <1>1, AscendingIs
  <2>2. /\ \A k \in DOMAIN A : A[k] \in S
        /\ \A i \in S : \E k \in DOMAIN A : A[k] = i
        /\ \A i, j \in DOMAIN A : i < j => A[i] < A[j]
    BY <1>1, AscendingIs
  <2> QED
    BY <1>1, <2>1, <2>2
<1> HIDE DEF A
<1>3. A \in Seq(Int) /\ Len(A) \in Nat /\ \A k \in 1 .. Len(A) : A[k] \in 1 .. MaxTime /\ A[k] \in Int
  <2>1. \A x \in S : x \in 1 .. MaxTime /\ x \in Int
    OBVIOUS
  <2>2. Len(A) \in Nat /\ A \in Seq(Int)
    BY <1>1, <1>2, SeqWidens
  <2> QED
    BY <1>2, <2>1, <2>2
<1>4. \A t \in Int : Ahead(A, t) \in 0 .. Len(A) /\ \A j \in 1 .. Len(A) : j <= Ahead(A, t) <=> A[j] <= t
  BY <1>2, <1>3, AheadIs
<1>5. pos \in [C -> 0 .. Len(A)] /\ \A t \in C : t \in Int
  BY <1>4
<1>6. ASSUME NEW t \in C
      PROVE  ask[t] \in Answered(Int, Int) /\ NextOne(ask[t], A, C, pos, t)
  <2> DEFINE k == Ahead(A, t)
             U == {u \in S : u > t}
  <2>1. t \in Int /\ k \in 0 .. Len(A) /\ \A j \in 1 .. Len(A) : j <= k <=> A[j] <= t
    BY <1>4
  <2>2. ask[t] = Found(edge[t], edge[t]) /\ pos[t] = k /\ edge[t] = IF U = {} THEN -1 ELSE Min(U)
    BY DEF Above
  <2>3. \A u \in U : \E j \in 1 .. Len(A) : A[j] = u /\ ~(j <= k)
    <3> SUFFICES ASSUME NEW u \in U PROVE \E j \in 1 .. Len(A) : A[j] = u /\ ~(j <= k)
      OBVIOUS
    <3>1. u \in S /\ u > t /\ u \in Int
      BY <1>1
    <3>2. PICK j \in DOMAIN A : A[j] = u
      BY <1>2, <3>1
    <3>3. j \in 1 .. Len(A)
      BY <1>2
    <3>4. ~(A[j] <= t)
      BY <2>1, <3>1, <3>2
    <3>5. ~(j <= k)
      BY <2>1, <3>3, <3>4
    <3> HIDE DEF k
    <3> QED
      BY <3>2, <3>3, <3>5
  <2>4. U \in SUBSET Nat
    <3>1. \A u \in S : u \in 1 .. MaxTime
      OBVIOUS
    <3>2. \A u \in U : u \in S
      OBVIOUS
    <3> HIDE DEF U, ask, pos, C, k
    <3>3. \A u \in U : u \in Nat
      <4>1. \A u : u \in 1 .. MaxTime => u \in Nat
        OBVIOUS
      <4> QED
        BY <3>1, <3>2, <4>1, Zenon
    <3> QED
      BY <3>3
  <2> HIDE DEF k, U, ask, pos
  <2>5. CASE k = Len(A)
    <3>1. U = {}
      BY <1>3, <2>1, <2>3, <2>5
    <3>2. edge[t] = -1
      BY <2>2, <3>1
    <3>3. ask[t] = [data |-> <<>>, has_more |-> FALSE, next_cursor |-> -1]
      BY <2>2, <3>2 DEF Found
    <3>4. ask[t] \in Answered(Int, Int)
      BY <3>3 DEF Answered
    <3>5. ask[t].data = <<>> /\ ~ask[t].has_more
      BY <3>3
    <3> QED
      BY <2>2, <2>5, <3>4, <3>5 DEF NextOne
  <2>6. CASE k # Len(A)
    <3> DEFINE e == A[k + 1]
    <3>1. k + 1 \in 1 .. Len(A) /\ ~(k + 1 <= k)
      BY <1>3, <2>1, <2>6
    <3>2. e \in S /\ e > t /\ e \in Int /\ e \in C /\ e >= 0
      BY <1>2, <1>3, <2>1, <3>1
    <3>3. e \in U
      BY <3>2 DEF U
    <3>4. \A u \in U : e <= u
      <4> SUFFICES ASSUME NEW u \in U PROVE e <= u
        OBVIOUS
      <4>1. PICK j \in 1 .. Len(A) : A[j] = u /\ ~(j <= k)
        BY <2>3
      <4>2. j = k + 1 \/ k + 1 < j
        BY <2>1, <3>1, <4>1
      <4> QED
        BY <1>2, <1>3, <3>1, <4>1, <4>2
    <3> HIDE DEF e
    <3>5. Min(U) = e
      <4>1. Min(U) \in U /\ Min(U) <= e
        BY <2>4, <3>3, LeastIs
      <4>2. e <= Min(U) /\ Min(U) \in Nat
        BY <2>4, <3>4, <4>1
      <4> QED
        BY <3>2, <4>1, <4>2
    <3>6. edge[t] = e /\ e # -1
      BY <2>2, <3>2, <3>3, <3>5
    <3>7. ask[t] = [data |-> <<e>>, has_more |-> TRUE, next_cursor |-> e]
      <4>1. ask[t] = [data |-> IF e = -1 THEN <<>> ELSE <<e>>, has_more |-> e # -1 /\ e >= 0, next_cursor |-> e]
        BY <2>2, <3>6 DEF Found
      <4> QED
        BY <3>2, <3>6, <4>1
    <3>8. ask[t] \in Answered(Int, Int)
      BY <3>2, <3>7 DEF Answered
    <3>9. Ahead(A, e) = k + 1
      <4>1. Ahead(A, e) \in 0 .. Len(A) /\ \A j \in 1 .. Len(A) : j <= Ahead(A, e) <=> A[j] <= e
        BY <1>4, <3>2
      <4>2. k + 1 <= Ahead(A, e)
        BY <3>1, <3>2, <4>1 DEF e
      <4>3. ~(k + 1 < Ahead(A, e))
        <5> SUFFICES ASSUME k + 1 < Ahead(A, e) PROVE FALSE
          OBVIOUS
        <5>1. k + 2 \in 1 .. Len(A) /\ k + 2 <= Ahead(A, e) /\ k + 1 < k + 2
          BY <1>3, <2>1, <3>1, <4>1
        <5>2. A[k + 2] <= e /\ e < A[k + 2] /\ A[k + 2] \in Int
          BY <1>2, <1>3, <3>1, <4>1, <5>1 DEF e
        <5> QED
          BY <3>2, <5>2
      <4> QED
        BY <2>1, <4>1, <4>2, <4>3
    <3>10. pos[e] = k + 1
      BY <3>2, <3>9 DEF pos
    <3>11. ask[t].data = <<A[k + 1]>> /\ ask[t].has_more /\ ask[t].next_cursor = e
      BY <3>7 DEF e
    <3>12. NextOne(ask[t], A, C, pos, t)
      BY <2>2, <2>6, <3>2, <3>10, <3>11 DEF NextOne
    <3> QED
      BY <3>8, <3>12
  <2> QED
    BY <2>5, <2>6
<1>7. 0 \in C /\ pos[0] = 0
  <2>1. 0 \in C
    OBVIOUS
  <2>2. Ahead(A, 0) \in 0 .. Len(A) /\ \A j \in 1 .. Len(A) : j <= Ahead(A, 0) <=> A[j] <= 0
    BY <1>4
  <2>3. ~(1 <= Ahead(A, 0))
    BY <1>3, <2>2
  <2> QED
    BY <2>1, <2>2, <2>3
<1> HIDE DEF ask, pos, C
<1>8. Whole(Collected(ask, 0, MaxTime + 1), A)
  <2>1. MaxTime + 1 \in Nat /\ Len(A) <= MaxTime + 1
    BY <1>2, <1>3
  <2> QED
    BY <1>3, <1>5, <1>6, <1>7, <2>1, OneByOne
<1> QED
  BY <1>8 DEF ask, A, C

LEMMA Descending ==
    ASSUME NEW S \in SUBSET Int, IsFiniteSet(S)
    PROVE  LET R == Reverse(Ascending(S))
           IN  /\ R \in Seq(S) /\ DOMAIN R = 1 .. Len(R) /\ Len(R) = Cardinality(S)
               /\ \A k \in DOMAIN R : R[k] \in S
               /\ \A i \in S : \E k \in DOMAIN R : R[k] = i
               /\ \A i, j \in DOMAIN R : i < j => R[i] > R[j]
<1> DEFINE A == Ascending(S)
           R == Reverse(A)
           n == Cardinality(S)
<1>1. /\ A \in Seq(S) /\ Len(A) = n /\ n \in Nat /\ DOMAIN A = 1 .. n
      /\ \A k \in DOMAIN A : A[k] \in S
      /\ \A i \in S : \E k \in DOMAIN A : A[k] = i
      /\ \A i, j \in DOMAIN A : i < j => A[i] < A[j]
  BY AscendingIs
<1> HIDE DEF A, n
<1>2. R = [i \in 1 .. n |-> A[(n - i) + 1]]
  BY <1>1 DEF Reverse
<1> HIDE DEF R
<1>3. \A i \in 1 .. n : (n - i) + 1 \in 1 .. n /\ (n - ((n - i) + 1)) + 1 = i
  BY <1>1
<1>4. DOMAIN R = 1 .. n /\ \A i \in 1 .. n : R[i] = A[(n - i) + 1] /\ R[i] \in S
  BY <1>1, <1>2, <1>3
<1>5. R \in Seq(S) /\ Len(R) = n
  <2>1. R \in [1 .. n -> S]
    BY <1>2, <1>4
  <2> QED
    BY <1>1, <2>1
<1>6. ASSUME NEW i \in S PROVE \E k \in DOMAIN R : R[k] = i
  <2>1. PICK k \in 1 .. n : A[k] = i
    BY <1>1
  <2> DEFINE m == (n - k) + 1
  <2>2. m \in 1 .. n /\ (n - m) + 1 = k
    BY <1>3
  <2> HIDE DEF m
  <2>3. R[m] = A[k]
    BY <1>4, <2>2
  <2> QED
    BY <1>4, <2>1, <2>2, <2>3
<1>7. ASSUME NEW i \in DOMAIN R, NEW j \in DOMAIN R, i < j PROVE R[i] > R[j]
  <2> DEFINE a == (n - i) + 1
             b == (n - j) + 1
  <2>1. i \in 1 .. n /\ j \in 1 .. n
    BY <1>4
  <2>2. a \in 1 .. n /\ b \in 1 .. n /\ b < a
    BY <1>1, <1>7, <2>1
  <2>3. R[i] = A[a] /\ R[j] = A[b]
    BY <1>4, <2>1
  <2> HIDE DEF a, b
  <2>4. A[b] < A[a] /\ A[b] \in S /\ A[a] \in S
    BY <1>1, <2>2
  <2>5. A[b] \in Int /\ A[a] \in Int
    BY <2>4
  <2> QED
    BY <2>3, <2>4, <2>5
<1>8. \A k \in DOMAIN R : R[k] \in S
  BY <1>4
<1> QED
  BY <1>4, <1>5, <1>6, <1>7, <1>8 DEF R, A, n

LEMMA StepsBack ==
    ASSUME NEW S \in SUBSET (1 .. MaxTime), MaxTime \in Nat, NEW edge, \A t \in 0 .. MaxTime : edge[t] = Below(S, t)
    PROVE  Whole(Collected([t \in 0 .. MaxTime |-> Found(edge[t], edge[t] - 1)], MaxTime, MaxTime + 1),
                 Reverse(Ascending(S)))
<1> DEFINE C == 0 .. MaxTime
           A == Reverse(Ascending(S))
           ask == [t \in C |-> Found(edge[t], edge[t] - 1)]
           pos == [t \in C |-> Back(A, t)]
<1>1. S \in SUBSET Int /\ IsFiniteSet(S) /\ Cardinality(S) <= MaxTime
  <2> DEFINE T == 1 .. MaxTime
  <2>1. IsFiniteSet(T) /\ Cardinality(T) = MaxTime
    BY FS_Interval
  <2>2. S \in SUBSET T /\ S \in SUBSET Int
    OBVIOUS
  <2> HIDE DEF T
  <2>3. IsFiniteSet(S) /\ Cardinality(S) <= Cardinality(T)
    BY <2>1, <2>2, FS_Subset
  <2> QED
    BY <2>1, <2>2, <2>3
<1>2. /\ A \in Seq(S) /\ Len(A) <= MaxTime /\ \A i \in S : \E k \in DOMAIN A : A[k] = i
      /\ \A i, j \in DOMAIN A : i < j => A[i] > A[j]
      /\ DOMAIN A = 1 .. Len(A) /\ \A k \in DOMAIN A : A[k] \in S
  <2>1. DOMAIN A = 1 .. Len(A) /\ Len(A) = Cardinality(S) /\ A \in Seq(S)
    BY <1>1, Descending
  <2>2. /\ \A k \in DOMAIN A : A[k] \in S
        /\ \A i \in S : \E k \in DOMAIN A : A[k] = i
        /\ \A i, j \in DOMAIN A : i < j => A[i] > A[j]
    BY <1>1, Descending
  <2> HIDE DEF A
  <2> QED
    BY <1>1, <2>1, <2>2
<1> HIDE DEF A
<1>3. A \in Seq(Int) /\ Len(A) \in Nat /\ \A k \in 1 .. Len(A) : A[k] \in 1 .. MaxTime /\ A[k] \in Int
  <2>1. \A x \in S : x \in 1 .. MaxTime /\ x \in Int
    OBVIOUS
  <2>2. Len(A) \in Nat /\ A \in Seq(Int)
    BY <1>1, <1>2, SeqWidens
  <2> QED
    BY <1>2, <2>1, <2>2
<1>4. \A t \in Int : Back(A, t) \in 0 .. Len(A) /\ \A j \in 1 .. Len(A) : j <= Back(A, t) <=> A[j] > t
  BY <1>2, <1>3, BackIs
<1>5. pos \in [C -> 0 .. Len(A)] /\ \A t \in C : t \in Int
  BY <1>4
<1>6. ASSUME NEW t \in C
      PROVE  ask[t] \in Answered(Int, Int) /\ NextOne(ask[t], A, C, pos, t)
  <2> DEFINE k == Back(A, t)
             U == {u \in S : u <= t}
  <2>1. t \in Int /\ k \in 0 .. Len(A) /\ \A j \in 1 .. Len(A) : j <= k <=> A[j] > t
    BY <1>4
  <2>2. ask[t] = Found(edge[t], edge[t] - 1) /\ pos[t] = k /\ edge[t] = IF U = {} THEN -1 ELSE Max(U)
    BY DEF Below
  <2>3. \A u \in U : \E j \in 1 .. Len(A) : A[j] = u /\ ~(j <= k)
    <3> SUFFICES ASSUME NEW u \in U PROVE \E j \in 1 .. Len(A) : A[j] = u /\ ~(j <= k)
      OBVIOUS
    <3>1. u \in S /\ u <= t /\ u \in Int
      BY <1>1
    <3>2. PICK j \in DOMAIN A : A[j] = u
      BY <1>2, <3>1
    <3>3. j \in 1 .. Len(A)
      BY <1>2
    <3>4. ~(A[j] > t)
      BY <2>1, <3>1, <3>2
    <3>5. ~(j <= k)
      BY <2>1, <3>3, <3>4
    <3> HIDE DEF k
    <3> QED
      BY <3>2, <3>3, <3>5
  <2>4. U \in SUBSET (0 .. MaxTime)
    <3>1. \A u \in S : u \in 1 .. MaxTime
      OBVIOUS
    <3>2. \A u \in U : u \in S
      OBVIOUS
    <3> HIDE DEF U, ask, pos, C, k
    <3>3. \A u \in U : u \in 0 .. MaxTime
      <4>1. \A u : u \in 1 .. MaxTime => u \in 0 .. MaxTime
        OBVIOUS
      <4> QED
        BY <3>1, <3>2, <4>1, Zenon
    <3> QED
      BY <3>3
  <2> HIDE DEF k, U, ask, pos
  <2>5. CASE k = Len(A)
    <3>1. U = {}
      BY <1>3, <2>1, <2>3, <2>5
    <3>2. edge[t] = -1
      BY <2>2, <3>1
    <3>3. ask[t] = [data |-> <<>>, has_more |-> FALSE, next_cursor |-> -2]
      <4>1. -1 - 1 = -2
        OBVIOUS
      <4>2. ask[t] = Found(-1, -2)
        BY <2>2, <3>2, <4>1
      <4>3. (-1 # -1 /\ -2 >= 0) = FALSE
        OBVIOUS
      <4> QED
        BY <4>2, <4>3 DEF Found
    <3>4. ask[t] \in Answered(Int, Int)
      BY <3>3 DEF Answered
    <3>5. ask[t].data = <<>> /\ ~ask[t].has_more
      BY <3>3
    <3> QED
      BY <2>2, <2>5, <3>4, <3>5 DEF NextOne
  <2>6. CASE k # Len(A)
    <3> DEFINE e == A[k + 1]
    <3>1. k + 1 \in 1 .. Len(A) /\ ~(k + 1 <= k)
      BY <1>3, <2>1, <2>6
    <3>2. e \in S /\ e <= t /\ e \in Int /\ e - 1 \in C /\ e >= 1 /\ e - 1 \in Int
      BY <1>2, <1>3, <2>1, <3>1
    <3>3. e \in U
      BY <3>2 DEF U
    <3>4. \A u \in U : u <= e
      <4> SUFFICES ASSUME NEW u \in U PROVE u <= e
        OBVIOUS
      <4>1. PICK j \in 1 .. Len(A) : A[j] = u /\ ~(j <= k)
        BY <2>3
      <4>2. j = k + 1 \/ k + 1 < j
        BY <2>1, <3>1, <4>1
      <4> QED
        BY <1>2, <1>3, <3>1, <4>1, <4>2
    <3> HIDE DEF e
    <3>5. Max(U) = e
      <4>1. Max(U) \in U /\ e <= Max(U)
        <5>1. U # {} /\ MaxTime \in Nat
          BY <3>3
        <5>2. Max(U) \in U /\ \A x \in U : x <= Max(U)
          BY <2>4, <5>1, GreatestIs
        <5> QED
          BY <3>3, <5>2
      <4>2. Max(U) <= e /\ Max(U) \in Int
        <5>1. \A u : u \in 0 .. MaxTime => u \in Int
          OBVIOUS
        <5>2. Max(U) \in 0 .. MaxTime
          BY <2>4, <4>1
        <5> QED
          BY <3>4, <4>1, <5>1, <5>2, Zenon
      <4> QED
        BY <3>2, <4>1, <4>2
    <3>6. edge[t] = e /\ e # -1 /\ e - 1 >= 0
      <4>1. edge[t] = e
        BY <2>2, <3>3, <3>5
      <4> QED
        BY <3>2, <4>1
    <3>7. ask[t] = [data |-> <<e>>, has_more |-> TRUE, next_cursor |-> e - 1]
      <4>1. ask[t] = [data |-> IF e = -1 THEN <<>> ELSE <<e>>, has_more |-> e # -1 /\ e - 1 >= 0, next_cursor |-> e - 1]
        BY <2>2, <3>6 DEF Found
      <4> QED
        BY <3>2, <3>6, <4>1
    <3>8. ask[t] \in Answered(Int, Int)
      BY <3>2, <3>7 DEF Answered
    <3>9. Back(A, e - 1) = k + 1
      <4> DEFINE b == Back(A, e - 1)
      <4>1. b \in 0 .. Len(A) /\ \A j \in 1 .. Len(A) : j <= b <=> A[j] > e - 1
        BY <1>4, <3>2
      <4> HIDE DEF b
      <4>2. k + 1 <= b
        BY <3>1, <3>2, <4>1 DEF e
      <4>3. ~(k + 1 < b)
        <5> SUFFICES ASSUME k + 1 < b PROVE FALSE
          OBVIOUS
        <5>1. k + 2 \in 1 .. Len(A) /\ k + 2 <= b /\ k + 1 < k + 2
          BY <1>3, <2>1, <3>1, <4>1
        <5>2. A[k + 2] > e - 1 /\ e > A[k + 2] /\ A[k + 2] \in Int
          BY <1>2, <1>3, <3>1, <4>1, <5>1 DEF e
        <5> QED
          BY <3>2, <5>2
      <4>4. b = k + 1
        BY <2>1, <4>1, <4>2, <4>3
      <4> QED
        BY <4>4 DEF b
    <3>10. pos[e - 1] = k + 1
      BY <3>2, <3>9 DEF pos
    <3>11. ask[t].data = <<A[k + 1]>> /\ ask[t].has_more /\ ask[t].next_cursor = e - 1
      BY <3>7 DEF e
    <3>12. NextOne(ask[t], A, C, pos, t)
      BY <2>2, <2>6, <3>2, <3>10, <3>11 DEF NextOne
    <3> QED
      BY <3>8, <3>12
  <2> QED
    BY <2>5, <2>6
<1>7. MaxTime \in C /\ pos[MaxTime] = 0
  <2>1. MaxTime \in C /\ MaxTime \in Int
    OBVIOUS
  <2>2. Back(A, MaxTime) \in 0 .. Len(A) /\ \A j \in 1 .. Len(A) : j <= Back(A, MaxTime) <=> A[j] > MaxTime
    BY <1>4, <2>1
  <2>3. ~(1 <= Back(A, MaxTime))
    BY <1>3, <2>2
  <2>4. Back(A, MaxTime) = 0
    BY <1>3, <2>2, <2>3
  <2> QED
    BY <2>1, <2>4
<1> HIDE DEF ask, pos, C
<1>8. Whole(Collected(ask, MaxTime, MaxTime + 1), A)
  <2>1. MaxTime + 1 \in Nat /\ Len(A) <= MaxTime + 1
    BY <1>2, <1>3
  <2> QED
    BY <1>3, <1>5, <1>6, <1>7, <2>1, OneByOne
<1> QED
  BY <1>8 DEF ask, A, C

---------------------------------------------------------------------------
(* The edges of a scalar without glitches, and the times of some           *)
(* transitions.                                                            *)
EdgePlaces(w, type) == {i \in DOMAIN w : IsEdge(type, ValueBefore(w, i), w[i].v)}
TimesOf(w, P) == {w[i].t : i \in P}

LEMMA SteadyIs ==
    ASSUME NEW w, Steady(w)
    PROVE  /\ Wave(w) /\ Len(w) \in Nat /\ DOMAIN w = 1 .. Len(w) /\ MaxTime \in Nat
           /\ \A i \in 1 .. Len(w) : w[i].t \in 0 .. MaxTime /\ w[i].t \in Int
           /\ \A i, j \in 1 .. Len(w) : i <= j => w[i].t <= w[j].t
           /\ \A i, j \in 1 .. Len(w) : i < j => w[i].t < w[j].t
<1>1. Wave(w) /\ \A i \in DOMAIN w : ~w[i].glitch
  BY DEF Steady
<1>2. /\ Len(w) \in Nat /\ DOMAIN w = 1 .. Len(w) /\ MaxTime \in Nat
      /\ \A i \in 1 .. Len(w) : w[i].t \in 0 .. MaxTime
      /\ \A i, j \in 1 .. Len(w) : i <= j => w[i].t <= w[j].t
  BY <1>1, WaveIs
<1>3. \A i, j \in 1 .. Len(w) : i < j => w[i].t < w[j].t
  BY <1>1, Strictly
<1>4. \A i \in 1 .. Len(w) : w[i].t \in Int
  BY <1>2
<1> QED
  BY <1>1, <1>2, <1>3, <1>4

LEMMA TimesInOrder ==
    ASSUME NEW w, Steady(w), NEW P \in SUBSET (1 .. Len(w)), P # {}
    PROVE  /\ Min(TimesOf(w, P)) = w[Min(P)].t /\ Max(TimesOf(w, P)) = w[Max(P)].t
           /\ TimesOf(w, P) # {}
<1> DEFINE T == TimesOf(w, P)
<1>1. /\ Len(w) \in Nat /\ MaxTime \in Nat
      /\ \A i \in 1 .. Len(w) : w[i].t \in 0 .. MaxTime /\ w[i].t \in Int
      /\ \A i, j \in 1 .. Len(w) : i <= j => w[i].t <= w[j].t
  BY SteadyIs
<1>2. \A i \in P : i \in 1 .. Len(w) /\ w[i].t \in T
  BY DEF TimesOf
<1>3. \A t \in T : \E i \in P : t = w[i].t
  BY DEF TimesOf
<1>4. T \in SUBSET (0 .. MaxTime) /\ T \in SUBSET Nat /\ T # {}
  BY <1>1, <1>2, <1>3
<1>5. P \in SUBSET Nat /\ P \in SUBSET (0 .. Len(w))
  BY <1>1
<1>6. Min(P) \in P /\ \A i \in P : Min(P) <= i
  BY <1>5, LeastIs
<1>7. Max(P) \in P /\ \A i \in P : i <= Max(P)
  BY <1>1, <1>5, GreatestIs
<1>8. Min(T) \in T /\ \A t \in T : Min(T) <= t
  BY <1>4, LeastIs
<1>9. Max(T) \in T /\ \A t \in T : t <= Max(T)
  BY <1>1, <1>4, GreatestIs
<1> HIDE DEF T
<1>10. Min(T) = w[Min(P)].t
  <2>1. PICK i \in P : Min(T) = w[i].t
    BY <1>3, <1>8
  <2>2. Min(P) <= i /\ Min(P) \in 1 .. Len(w) /\ i \in 1 .. Len(w)
    BY <1>2, <1>6
  <2>3. w[Min(P)].t <= w[i].t
    BY <1>1, <2>2
  <2>4. Min(T) <= w[Min(P)].t
    BY <1>2, <1>6, <1>8
  <2> QED
    BY <1>1, <2>1, <2>2, <2>3, <2>4
<1>11. Max(T) = w[Max(P)].t
  <2>1. PICK i \in P : Max(T) = w[i].t
    BY <1>3, <1>9
  <2>2. i <= Max(P) /\ Max(P) \in 1 .. Len(w) /\ i \in 1 .. Len(w)
    BY <1>2, <1>7
  <2>3. w[i].t <= w[Max(P)].t
    BY <1>1, <2>2
  <2>4. w[Max(P)].t <= Max(T)
    BY <1>2, <1>7, <1>9
  <2> QED
    BY <1>1, <2>1, <2>2, <2>3, <2>4
<1> QED
  BY <1>4, <1>10, <1>11 DEF T

LEMMA BeforeIs ==
    ASSUME NEW w, Steady(w), NEW i \in 1 .. Len(w)
    PROVE  get_value_at_time(w, w[i].t - 1) = ValueBefore(w, i) /\ (w[i].t = 0 => ValueBefore(w, i) = Unset)
<1>1. UpTo(w, w[i].t - 1) = i - 1 /\ Len(w) \in Nat
  BY AloneAtItsTime, SteadyIs
<1>2. CASE i = 1
  <2>1. UpTo(w, w[i].t - 1) = 0
    BY <1>1, <1>2
  <2> QED
    BY <1>2, <2>1 DEF get_value_at_time, ValueBefore
<1>3. CASE i # 1
  <2>1. i - 1 # 0 /\ 1 < i /\ 1 \in 1 .. Len(w)
    BY <1>1, <1>3
  <2>2. w[1].t < w[i].t /\ w[1].t \in 0 .. MaxTime /\ MaxTime \in Nat
    BY <2>1, SteadyIs
  <2>3. w[i].t # 0
    BY <2>2
  <2> QED
    BY <1>1, <1>3, <2>1, <2>3 DEF get_value_at_time, ValueBefore
<1> QED
  BY <1>2, <1>3

LEMMA NoEdgeFromUnset ==
  \A after : \A type \in {"posedge", "negedge"} : ~IsEdge(type, Unset, after)
<1>1. <<"U">>[1] = "U" /\ <<"0">>[1] = "0" /\ <<"1">>[1] = "1"
  OBVIOUS
<1>2. Unset # <<"0">> /\ Unset # <<"1">>
  BY <1>1 DEF Unset
<1> QED
  BY <1>2 DEF IsEdge

Shown(w, width, type) ==
  {t \in Times : format_signal_value_at_time(w, width, t, "hex").radix
                   = IF type = "posedge" THEN "rising" ELSE "falling"}

LEMMA ShownIs ==
    ASSUME NEW w, Steady(w), NEW width \in Nat, width <= 1, NEW type \in {"posedge", "negedge"}
    PROVE  Shown(w, width, type) = TimesOf(w, EdgePlaces(w, type)) /\ Shown(w, width, type) \in SUBSET (1 .. MaxTime)
<1> DEFINE E == EdgePlaces(w, type)
           Word(t) == format_signal_value_at_time(w, width, t, "hex").radix
           Before(t) == IF t = 0 THEN Unset ELSE get_value_at_time(w, t - 1)
           Exact(t) == From(w, t) \in DOMAIN w /\ w[From(w, t)].t = t
<1>1. /\ Wave(w) /\ Len(w) \in Nat /\ DOMAIN w = 1 .. Len(w) /\ MaxTime \in Nat
      /\ \A i \in 1 .. Len(w) : w[i].t \in 0 .. MaxTime /\ w[i].t \in Int
  BY SteadyIs
<1>2. \A t \in Times :
        Word(t) = (IF type = "posedge" THEN "rising" ELSE "falling")
          <=> Exact(t) /\ IsEdge(type, Before(t), get_value_at_time(w, t))
  <2> SUFFICES ASSUME NEW t \in Times
               PROVE  Word(t) = (IF type = "posedge" THEN "rising" ELSE "falling")
                        <=> Exact(t) /\ IsEdge(type, Before(t), get_value_at_time(w, t))
    OBVIOUS
  <2> DEFINE b == Before(t)
             v == get_value_at_time(w, t)
             x == Exact(t)
  <2>1. Word(t) = IF x /\ b = <<"0">> /\ v = <<"1">> THEN "rising"
                  ELSE IF x /\ b = <<"1">> /\ v = <<"0">> THEN "falling" ELSE "bin"
    <3>1. ~(width > 1)
      OBVIOUS
    <3> QED
      BY <3>1 DEF format_signal_value_at_time
  <2>2. <<"0">> # <<"1">>
    <3>1. <<"0">>[1] = "0" /\ <<"1">>[1] = "1"
      OBVIOUS
    <3> QED
      BY <3>1
  <2> HIDE DEF b, v, x, Word
  <2>3. Word(t) = (IF type = "posedge" THEN "rising" ELSE "falling") <=> x /\ IsEdge(type, b, v)
    BY <2>1, <2>2 DEF IsEdge
  <2> QED
    BY <2>3 DEF b, v, x
<1>3. \A i \in 1 .. Len(w) :
        /\ From(w, w[i].t) = i /\ get_value_at_time(w, w[i].t) = w[i].v
        /\ Before(w[i].t) = ValueBefore(w, i) /\ (w[i].t = 0 => ValueBefore(w, i) = Unset)
  BY AloneAtItsTime, BeforeIs
<1> HIDE DEF Before, Word
<1>4. ASSUME NEW t \in Shown(w, width, type) PROVE t \in TimesOf(w, E)
  <2>1. t \in Times /\ Exact(t) /\ IsEdge(type, Before(t), get_value_at_time(w, t))
    BY <1>2 DEF Shown, Word
  <2> DEFINE i == From(w, t)
  <2>2. i \in 1 .. Len(w) /\ w[i].t = t
    BY <1>1, <2>1
  <2> HIDE DEF i
  <2>3. IsEdge(type, ValueBefore(w, i), w[i].v)
    BY <1>3, <2>1, <2>2
  <2>4. i \in E
    BY <1>1, <2>2, <2>3 DEF EdgePlaces
  <2> HIDE DEF E
  <2> QED
    BY <2>2, <2>4 DEF TimesOf
<1>5. ASSUME NEW t \in TimesOf(w, E) PROVE t \in Shown(w, width, type) /\ t \in 1 .. MaxTime
  <2>1. PICK i \in E : t = w[i].t
    BY DEF TimesOf
  <2>2. i \in 1 .. Len(w) /\ IsEdge(type, ValueBefore(w, i), w[i].v)
    BY <1>1 DEF EdgePlaces
  <2>3. t \in 0 .. MaxTime /\ t \in Times
    BY <1>1, <2>1, <2>2 DEF Times
  <2>4. Exact(t) /\ IsEdge(type, Before(t), get_value_at_time(w, t))
    BY <1>1, <1>3, <2>1, <2>2
  <2>5. t # 0
    BY <1>3, <2>1, <2>2, NoEdgeFromUnset
  <2> HIDE DEF Exact, E
  <2>6. t \in Shown(w, width, type)
    BY <1>2, <2>3, <2>4 DEF Shown, Word
  <2> QED
    BY <1>1, <2>3, <2>5, <2>6
<1> HIDE DEF E
<1>6. Shown(w, width, type) = TimesOf(w, E)
  BY <1>4, <1>5
<1> QED
  BY <1>5, <1>6 DEF E

LEMMA FindsEdges ==
    ASSUME NEW w, Steady(w), NEW type \in {"posedge", "negedge"}, NEW t \in 0 .. MaxTime
    PROVE  LET S == TimesOf(w, EdgePlaces(w, type))
           IN  find_edge(w, type, t, "forward") = Above(S, t) /\ find_edge(w, type, t, "backward") = Below(S, t)
<1> DEFINE E == EdgePlaces(w, type)
           S == TimesOf(w, E)
           F == {i \in From(w, t) .. Len(w) :
                   w[i].t > t /\ IsEdge(type, get_value_at_time(w, w[i].t - 1), w[i].v)}
           B == {i \in 1 .. UpTo(w, t) : IsEdge(type, ValueBefore(w, i), w[i].v)}
           X == {u \in S : u > t}
           Y == {u \in S : u <= t}
<1>1. /\ Wave(w) /\ Len(w) \in Nat /\ DOMAIN w = 1 .. Len(w) /\ MaxTime \in Nat /\ t \in Int
      /\ \A i \in 1 .. Len(w) : w[i].t \in 0 .. MaxTime /\ w[i].t \in Int
  BY SteadyIs
<1>2. \A i \in 1 .. Len(w) : i \in E <=> IsEdge(type, ValueBefore(w, i), w[i].v)
  BY <1>1 DEF EdgePlaces
<1>3. E \in SUBSET (1 .. Len(w))
  BY <1>1 DEF EdgePlaces
<1>4. \A i \in 1 .. Len(w) : get_value_at_time(w, w[i].t - 1) = ValueBefore(w, i)
  BY BeforeIs
<1>5. From(w, t) \in 1 .. Len(w) + 1 /\ \A i \in 1 .. Len(w) : i >= From(w, t) <=> w[i].t >= t
  BY <1>1, FromIs
<1>6. UpTo(w, t) \in 0 .. Len(w) /\ \A i \in 1 .. Len(w) : i <= UpTo(w, t) <=> w[i].t <= t
  BY <1>1, UpToIs
<1> HIDE DEF E
<1>7. \A i \in 1 .. Len(w) : i \in F <=> i \in E /\ w[i].t > t
  BY <1>1, <1>2, <1>4, <1>5
<1>8. F \in SUBSET (1 .. Len(w))
  BY <1>1, <1>5
<1>9. \A i \in 1 .. Len(w) : i \in B <=> i \in E /\ w[i].t <= t
  BY <1>1, <1>2, <1>6
<1>10. B \in SUBSET (1 .. Len(w))
  BY <1>1, <1>6
<1>11. find_edge(w, type, t, "forward") = (IF F = {} THEN -1 ELSE w[Min(F)].t)
  BY DEF find_edge
<1>12. find_edge(w, type, t, "backward") = (IF B = {} THEN -1 ELSE w[Max(B)].t)
  BY DEF find_edge
<1>13. Above(S, t) = (IF X = {} THEN -1 ELSE Min(X)) /\ Below(S, t) = (IF Y = {} THEN -1 ELSE Max(Y))
  BY DEF Above, Below
<1> HIDE DEF F, B
<1>14. X = TimesOf(w, F)
  BY <1>3, <1>7, <1>8 DEF TimesOf
<1>15. Y = TimesOf(w, B)
  BY <1>3, <1>9, <1>10 DEF TimesOf
<1> HIDE DEF X, Y, S
<1>16. F = {} => X = {}
  BY <1>14 DEF TimesOf
<1>17. B = {} => Y = {}
  BY <1>15 DEF TimesOf
<1>18. F # {} => X # {} /\ Min(X) = w[Min(F)].t
  BY <1>8, <1>14, TimesInOrder
<1>19. B # {} => Y # {} /\ Max(Y) = w[Max(B)].t
  BY <1>10, <1>15, TimesInOrder
<1>20. find_edge(w, type, t, "forward") = Above(S, t)
  BY <1>11, <1>13, <1>16, <1>18
<1>21. find_edge(w, type, t, "backward") = Below(S, t)
  BY <1>12, <1>13, <1>17, <1>19
<1> QED
  BY <1>20, <1>21 DEF S, E

(* On the values of a scalar what counts as an edge is one.                *)
LEMMA ScalarIs ==
    ASSUME NEW v, v = Unset \/ \E c \in {"0", "1", "x", "X", "z", "Z"} : v = <<c>>
    PROVE  (simplify_scalar_value(v) = "0" <=> v = <<"0">>) /\ (simplify_scalar_value(v) = "1" <=> v = <<"1">>)
<1>1. PICK c \in {"U", "0", "1", "x", "X", "z", "Z"} : v = <<c>>
  BY DEF Unset
<1>2. v # <<>> /\ v[1] = c
  BY <1>1
<1>3. simplify_scalar_value(v) = IF Lower(c) \in Digits THEN Lower(c) ELSE "x"
  BY <1>2 DEF simplify_scalar_value
<1>4. (simplify_scalar_value(v) = "0" <=> c = "0") /\ (simplify_scalar_value(v) = "1" <=> c = "1")
  BY <1>1, <1>3 DEF Lower, Digits
<1>5. \A d : v = <<d>> <=> c = d
  <2> SUFFICES ASSUME NEW d PROVE v = <<d>> <=> c = d
    OBVIOUS
  <2>1. <<d>>[1] = d
    OBVIOUS
  <2> QED
    BY <1>1, <1>2, <2>1
<1> QED
  BY <1>4, <1>5

LEMMA EventIs ==
    ASSUME NEW width \in Nat, width <= 1, NEW type \in {"posedge", "negedge"},
           NEW a, a = Unset \/ \E c \in {"0", "1", "x", "X", "z", "Z"} : a = <<c>>,
           NEW b, b = Unset \/ \E c \in {"0", "1", "x", "X", "z", "Z"} : b = <<c>>
    PROVE  LET event == classify_transition_event(width, a, b)
           IN  event # "none" /\ (width > 1 \/ type = "anyedge" \/ event = type) <=> IsEdge(type, a, b)
<1> DEFINE x == simplify_scalar_value(a)
           y == simplify_scalar_value(b)
           event == classify_transition_event(width, a, b)
<1>1. event = IF x = y THEN "none" ELSE IF x = "0" /\ y = "1" THEN "posedge"
              ELSE IF x = "1" /\ y = "0" THEN "negedge" ELSE "anyedge"
  <2>1. ~(width > 1)
    OBVIOUS
  <2> QED
    BY <2>1 DEF classify_transition_event
<1>2. (x = "0" <=> a = <<"0">>) /\ (x = "1" <=> a = <<"1">>)
  BY ScalarIs
<1>3. (y = "0" <=> b = <<"0">>) /\ (y = "1" <=> b = <<"1">>)
  BY ScalarIs
<1> HIDE DEF x, y, event
<1>4. event # "none" /\ (type = "anyedge" \/ event = type) <=> IsEdge(type, a, b)
  BY <1>1, <1>2, <1>3 DEF IsEdge
<1>5. ~(width > 1)
  OBVIOUS
<1> QED
  BY <1>4, <1>5 DEF event

LEMMA CountsEdges ==
    ASSUME NEW w, Steady(w), NEW width \in Widths, width <= 1, \A i \in DOMAIN w : w[i].v \in Values[width],
           NEW type \in {"posedge", "negedge"}
    PROVE  count_transitions(w, width, 0, MaxTime, type) = Cardinality(TimesOf(w, EdgePlaces(w, type)))
<1> DEFINE E == EdgePlaces(w, type)
           Counts(i) ==
             LET event == classify_transition_event(width, ValueBefore(w, i), w[i].v)
             IN  event # "none" /\ (width > 1 \/ type = "anyedge" \/ event = type)
           f == [i \in E |-> w[i].t]
           T == TimesOf(w, E)
<1>1. /\ Wave(w) /\ Len(w) \in Nat /\ DOMAIN w = 1 .. Len(w) /\ MaxTime \in Nat /\ 0 \in Int /\ MaxTime \in Int
      /\ \A i \in 1 .. Len(w) : w[i].t \in 0 .. MaxTime /\ w[i].t \in Int
      /\ \A i, j \in 1 .. Len(w) : i < j => w[i].t < w[j].t
  BY SteadyIs
<1>2. From(w, 0) = 1 /\ UpTo(w, MaxTime) = Len(w)
  <2>1. From(w, 0) \in 1 .. Len(w) + 1 /\ \A i \in 1 .. Len(w) : i >= From(w, 0) <=> w[i].t >= 0
    BY <1>1, FromIs
  <2>2. UpTo(w, MaxTime) \in 0 .. Len(w) /\ \A i \in 1 .. Len(w) : i <= UpTo(w, MaxTime) <=> w[i].t <= MaxTime
    BY <1>1, UpToIs
  <2>3. UpTo(w, 0 - 1) \in 0 .. Len(w) /\ \A i \in 1 .. Len(w) : i <= UpTo(w, 0 - 1) <=> w[i].t <= 0 - 1
    <3>1. 0 - 1 \in Int
      OBVIOUS
    <3> QED
      BY <1>1, <3>1, UpToIs
  <2>4. From(w, 0) = UpTo(w, 0 - 1) + 1
    BY <1>1, FromIs
  <2>5. ~(1 <= UpTo(w, 0 - 1))
    BY <1>1, <2>3
  <2>6. From(w, 0) = 1
    BY <1>1, <2>3, <2>4, <2>5
  <2>7. Len(w) # 0 => Len(w) <= UpTo(w, MaxTime)
    BY <1>1, <2>2
  <2>8. UpTo(w, MaxTime) = Len(w)
    BY <1>1, <2>2, <2>7
  <2> QED
    BY <2>6, <2>8
<1>3. \A i \in 1 .. Len(w) : Counts(i) <=> i \in E
  <2> SUFFICES ASSUME NEW i \in 1 .. Len(w) PROVE Counts(i) <=> i \in E
    OBVIOUS
  <2> DEFINE a == ValueBefore(w, i)
             b == w[i].v
  <2>1. width \in Nat
    BY QueryAssumption
  <2>2. \A j \in 1 .. Len(w) : \E c \in {"0", "1", "x", "X", "z", "Z"} : w[j].v = <<c>>
    <3> SUFFICES ASSUME NEW j \in 1 .. Len(w) PROVE \E c \in {"0", "1", "x", "X", "z", "Z"} : w[j].v = <<c>>
      OBVIOUS
    <3>1. w[j].v \in Values[width]
      BY <1>1
    <3> DEFINE v == w[j].v
    <3> HIDE DEF v
    <3>2. v \in Values[width]
      BY <3>1 DEF v
    <3>3. IF width <= 1 THEN \E c \in {"0", "1", "x", "X", "z", "Z"} : v = <<c>>
          ELSE v[1] \in {"b", "B"} /\ Len(v) - 1 \in 1 .. width
      BY <3>2, QueryAssumption
    <3>4. \E c \in {"0", "1", "x", "X", "z", "Z"} : v = <<c>>
      BY <3>3
    <3> QED
      BY <3>4 DEF v
  <2>3. i # 1 => i - 1 \in 1 .. Len(w)
    BY <1>1
  <2>4. a = Unset \/ \E c \in {"0", "1", "x", "X", "z", "Z"} : a = <<c>>
    BY <2>2, <2>3 DEF ValueBefore
  <2>5. \E c \in {"0", "1", "x", "X", "z", "Z"} : b = <<c>>
    BY <2>2
  <2> HIDE DEF a, b
  <2>6. LET event == classify_transition_event(width, a, b)
        IN  event # "none" /\ (width > 1 \/ type = "anyedge" \/ event = type) <=> IsEdge(type, a, b)
    BY <2>1, <2>4, <2>5, EventIs
  <2>7. i \in E <=> IsEdge(type, a, b)
    BY <1>1 DEF EdgePlaces, a, b
  <2> QED
    BY <2>6, <2>7 DEF a, b
<1>4. E \in SUBSET (1 .. Len(w))
  BY <1>1 DEF EdgePlaces
<1> HIDE DEF Counts, E
<1>5. {i \in From(w, 0) .. UpTo(w, MaxTime) : Counts(i)} = E
  BY <1>2, <1>3, <1>4
<1>6. count_transitions(w, width, 0, MaxTime, type) = Cardinality({i \in From(w, 0) .. UpTo(w, MaxTime) : Counts(i)})
  BY DEF count_transitions, Counts
<1>7. IsFiniteSet(E)
  <2>1. IsFiniteSet(1 .. Len(w))
    BY <1>1, FS_Interval
  <2> QED
    BY <1>4, <2>1, FS_Subset
<1>8. f \in [E -> T] /\ \A t \in T : \E i \in E : f[i] = t
  BY DEF TimesOf
<1>9. \A i, j \in E : f[i] = f[j] => i = j
  <2> SUFFICES ASSUME NEW i \in E, NEW j \in E, w[i].t = w[j].t PROVE i = j
    OBVIOUS
  <2>1. i \in 1 .. Len(w) /\ j \in 1 .. Len(w)
    BY <1>4
  <2>2. ~(i < j) /\ ~(j < i)
    BY <1>1, <2>1
  <2> QED
    BY <2>1, <2>2
<1> HIDE DEF f, T
<1>10. f \in Bijection(E, T)
  <2>1. DOMAIN f = E
    BY <1>8
  <2> QED
    BY <1>8, <1>9, <2>1 DEF Bijection, Injection, Surjection, IsInjective
<1>11. Cardinality(T) = Cardinality(E)
  <2>1. ExistsBijection(E, T)
    BY <1>10 DEF ExistsBijection
  <2> QED
    BY <1>7, <2>1, FS_Bijection
<1> QED
  BY <1>5, <1>6, <1>11 DEF T, E

(* Stepping through the edges and counting them.                           *)
LEMMA EdgesMeet ==
    ASSUME NEW w, Steady(w), NEW width \in Widths, width <= 1, \A i \in DOMAIN w : w[i].v \in Values[width],
           NEW type \in {"posedge", "negedge"}
    PROVE  LET shown == Shown(w, width, type)
           IN  /\ Whole(EdgesAhead(w, type), Ascending(shown))
               /\ Whole(EdgesBack(w, type), Reverse(Ascending(shown)))
               /\ count_transitions(w, width, 0, MaxTime, type) = Cardinality(shown)
<1> DEFINE S == Shown(w, width, type)
           ahead == [t \in 0 .. MaxTime |-> find_edge(w, type, t, "forward")]
           back == [t \in 0 .. MaxTime |-> find_edge(w, type, t, "backward")]
<1>1. width \in Nat /\ MaxTime \in Nat
  BY QueryAssumption, SteadyIs
<1>2. S = TimesOf(w, EdgePlaces(w, type)) /\ S \in SUBSET (1 .. MaxTime)
  BY <1>1, ShownIs
<1> HIDE DEF S
<1>3. \A t \in 0 .. MaxTime : ahead[t] = Above(S, t) /\ back[t] = Below(S, t)
  BY <1>2, FindsEdges
<1>4. EdgesAhead(w, type) = Collected([t \in 0 .. MaxTime |-> Found(ahead[t], ahead[t])], 0, MaxTime + 1)
  <2>1. [t \in 0 .. MaxTime |-> Found(ahead[t], ahead[t])]
          = [t \in 0 .. MaxTime |-> LET edge == find_edge(w, type, t, "forward") IN Found(edge, edge)]
    OBVIOUS
  <2> HIDE DEF ahead
  <2> QED
    BY <2>1 DEF EdgesAhead
<1>5. EdgesBack(w, type) = Collected([t \in 0 .. MaxTime |-> Found(back[t], back[t] - 1)], MaxTime, MaxTime + 1)
  <2>1. [t \in 0 .. MaxTime |-> Found(back[t], back[t] - 1)]
          = [t \in 0 .. MaxTime |-> LET edge == find_edge(w, type, t, "backward") IN Found(edge, edge - 1)]
    OBVIOUS
  <2> HIDE DEF back
  <2> QED
    BY <2>1 DEF EdgesBack
<1> HIDE DEF ahead, back
<1>6. Whole(EdgesAhead(w, type), Ascending(S))
  BY <1>1, <1>2, <1>3, <1>4, StepsAhead
<1>7. Whole(EdgesBack(w, type), Reverse(Ascending(S)))
  BY <1>1, <1>2, <1>3, <1>5, StepsBack
<1>8. count_transitions(w, width, 0, MaxTime, type) = Cardinality(S)
  BY <1>2, CountsEdges
<1> QED
  BY <1>6, <1>7, <1>8 DEF S

(* No value of a file is the one that a signal has before its first.       *)
LEMMA ValuesAreSet ==
    ASSUME NEW width \in Widths, NEW v \in Values[width]
    PROVE  v # Unset
<1>1. IF width <= 1 THEN \E c \in {"0", "1", "x", "X", "z", "Z"} : v = <<c>>
      ELSE v[1] \in {"b", "B"} /\ Len(v) - 1 \in 1 .. width
  BY QueryAssumption
<1>2. v[1] # "U"
  BY <1>1
<1> QED
  BY <1>2 DEF Unset

LEMMA ValueInFile ==
    ASSUME NEW w, Wave(w), NEW width, \A i \in DOMAIN w : w[i].v \in Values[width], NEW t \in Int,
           get_value_at_time(w, t) # Unset
    PROVE  get_value_at_time(w, t) \in Values[width]
<1>1. UpTo(w, t) # 0
  BY ValueIs
<1>2. UpTo(w, t) \in 1 .. Len(w) /\ get_value_at_time(w, t) = w[UpTo(w, t)].v
  BY <1>1, ValueIs
<1>3. DOMAIN w = 1 .. Len(w)
  BY WaveIs
<1> QED
  BY <1>2, <1>3

---------------------------------------------------------------------------
(* Whatever a query finds, counts or prints is what point queries show.    *)
LEMMA QueriesMeet == WInv /\ Declared => QueriesAgree
<1> SUFFICES ASSUME WInv, Declared PROVE QueriesAgree
  OBVIOUS
<1>1. \A x \in Waves : /\ Wave(x.w) /\ x.width \in Widths /\ x.width \in Nat
                       /\ \A i \in DOMAIN x.w : x.w[i].v \in Values[x.width]
  BY SignalsAreWaves, QueryAssumption
<1>2. \A win \in Windows : /\ win[1] \in 0 .. MaxTime /\ win[2] \in 0 .. MaxTime /\ win[1] <= win[2]
                           /\ win[1] \in Int /\ win[2] \in Int
  BY WaveAssumption DEF Windows, Times
<1>3. ShownIsFound
  <2> SUFFICES ASSUME NEW x \in Waves, NEW t \in Times, NEW radix \in Radixes,
                      x.width > 1, get_value_at_time(x.w, t) # Unset,
                      format_multibit_value(get_value_at_time(x.w, t), x.width, radix).radix = "hex" =>
                        \A k \in 1 .. HexDigits(x.width) :
                          Sharp(Pad(normalize_multibit_bits(get_value_at_time(x.w, t), x.width), 4 * HexDigits(x.width)), k)
               PROVE  value_matches_query(x.width, get_value_at_time(x.w, t),
                        normalize_query_value_to_bits(
                          format_multibit_value(get_value_at_time(x.w, t), x.width, radix), x.width))
    BY DEF ShownIsFound, Sharp
  <2> DEFINE v == get_value_at_time(x.w, t)
             width == x.width
  <2>1. t \in Int
    BY WaveAssumption DEF Times
  <2>2. v \in Values[width] /\ width \in Widths
    BY <1>1, <2>1, ValueInFile
  <2> HIDE DEF v, width
  <2>3. width > 1 /\ (format_multibit_value(v, width, radix).radix = "hex" =>
                        \A k \in 1 .. HexDigits(width) :
                          Sharp(Pad(normalize_multibit_bits(v, width), 4 * HexDigits(width)), k))
    BY DEF v, width
  <2>4. value_matches_query(width, v, normalize_query_value_to_bits(format_multibit_value(v, width, radix), width))
    BY <2>2, <2>3, AskedAsShown
  <2> QED
    BY <2>4 DEF v, width
<1>4. ConditionsFound
  <2> SUFFICES ASSUME NEW x \in Waves, NEW t \in Times, NEW v \in Values[x.width],
                      \A i \in DOMAIN x.w : ~x.w[i].glitch
               PROVE  /\ LET ahead == Having(x.w, v, t .. MaxTime)
                         IN  find_condition(x.w, v, t, "forward") = IF ahead = {} THEN -1 ELSE Min(ahead)
                      /\ LET back == find_condition(x.w, v, t, "backward")
                         IN  IF back = -1 THEN \A u \in 0 .. t : get_value_at_time(x.w, u) # v
                             ELSE back <= t /\ get_value_at_time(x.w, back) = v
    BY DEF ConditionsFound, Having
  <2>1. Steady(x.w)
    BY <1>1 DEF Steady
  <2>2. v # Unset /\ t \in 0 .. MaxTime
    BY <1>1, ValuesAreSet DEF Times
  <2> QED
    BY <2>1, <2>2, ConditionAhead, ConditionBack
<1>5. IntervalsExact
  <2> SUFFICES ASSUME NEW x \in Waves, NEW win \in Windows, NEW v \in Values[x.width]
               PROVE  LET bits == normalize_query_value_to_bits(format_multibit_value(v, x.width, "bin"), x.width)
                          found == find_value_intervals(x.w, x.width, bits, win[1], win[2])
                      IN  /\ \A i \in DOMAIN found : i > 1 => found[i - 1].end < found[i].start
                          /\ UNION {found[i].start .. found[i].end : i \in DOMAIN found}
                               = {t \in win[1] .. win[2] : value_matches_query(x.width, get_value_at_time(x.w, t), bits)}
    BY DEF IntervalsExact
  <2> DEFINE bits == normalize_query_value_to_bits(format_multibit_value(v, x.width, "bin"), x.width)
  <2> HIDE DEF bits
  <2> QED
    BY <1>1, <1>2, IntervalsCover DEF bits
<1>6. EdgesAgree
  <2> SUFFICES ASSUME NEW x \in Waves, NEW type \in {"posedge", "negedge"}, x.width <= 1,
                      \A i \in DOMAIN x.w : ~x.w[i].glitch
               PROVE  LET shown == Shown(x.w, x.width, type)
                      IN  /\ Whole(EdgesAhead(x.w, type), Ascending(shown))
                          /\ Whole(EdgesBack(x.w, type), Reverse(Ascending(shown)))
                          /\ count_transitions(x.w, x.width, 0, MaxTime, type) = Cardinality(shown)
    BY DEF EdgesAgree, Shown
  <2>1. Steady(x.w)
    BY <1>1 DEF Steady
  <2> QED
    BY <1>1, <2>1, EdgesMeet
<1>7. ShownEdgeIsFound
  BY <1>1, RisingIsFound DEF ShownEdgeIsFound
<1>8. CountsAdd
  <2> SUFFICES ASSUME NEW x \in Waves, NEW win \in Windows, NEW type \in Types3, NEW m \in win[1] .. win[2] - 1
               PROVE  count_transitions(x.w, x.width, win[1], win[2], type)
                        = count_transitions(x.w, x.width, win[1], m, type)
                            + count_transitions(x.w, x.width, m + 1, win[2], type)
    BY DEF CountsAdd
  <2> QED
    BY <1>1, <1>2, CountSplits
<1> QED
  BY <1>3, <1>4, <1>5, <1>6, <1>7, <1>8 DEF QueriesAgree

(* In every file that the reader accepts, at every time and for every      *)
(* window, the searches for values, conditions and edges in either         *)
(* direction, the intervals, the counts and the printed values of a signal *)
(* agree with what point queries show.                                     *)
THEOREM QueriesAgreeAlways == WaveSpec => []QueriesAgree
<1>1. WaveInit => WInv /\ Declared
  BY InitHolds, DeclaredFirst
<1>2. WInv /\ Declared /\ [WaveNext]_waveVars => WInv' /\ Declared'
  BY StepHolds, DeclaredStep
<1>3. WInv /\ Declared => QueriesAgree
  BY QueriesMeet
<1> QED
  BY <1>1, <1>2, <1>3, PTL DEF WaveSpec

---------------------------------------------------------------------------
(* Summaries.  The loop of an overview goes from cluster to cluster: what  *)
(* is kept is that its segments cover the window up to the cursor, that    *)
(* the stable ones show what point queries show, that the flipping ones    *)
(* count the transitions of the bursts, and that there are at most as many *)
(* as transitions that start one.                                          *)

(* The transitions of a window, in the order of time.                      *)
InWindow(win, start, end) ==
  /\ win \in Seq(Transitions) /\ start \in Int /\ end \in Int /\ start <= end
  /\ \A i \in 1 .. Len(win) : start < win[i].t /\ win[i].t <= end
  /\ \A i, j \in 1 .. Len(win) : i <= j => win[i].t <= win[j].t

LEMMA InWindowIs ==
    ASSUME NEW win, NEW start, NEW end, InWindow(win, start, end)
    PROVE  /\ DOMAIN win = 1 .. Len(win) /\ Len(win) \in Nat
           /\ \A i \in 1 .. Len(win) : win[i] \in Transitions /\ win[i].t \in Int
<1>1. DOMAIN win = 1 .. Len(win) /\ Len(win) \in Nat /\ \A i \in 1 .. Len(win) : win[i] \in Transitions
  BY DEF InWindow
<1>2. MaxTime \in Nat
  BY WaveAssumption
<1>3. \A x \in Transitions : x.t \in Int
  BY <1>2 DEF Transitions
<1> QED
  BY <1>1, <1>3

LEMMA WindowOf ==
    ASSUME NEW w, Wave(w), NEW start \in Int, NEW end \in Int, start <= end
    PROVE  /\ InWindow(get_window_transitions(w, start, end), start, end)
           /\ Len(get_window_transitions(w, start, end)) = UpTo(w, end) - UpTo(w, start)
           /\ \A k \in 1 .. Len(get_window_transitions(w, start, end)) :
                get_window_transitions(w, start, end)[k] = w[UpTo(w, start) + k]
           /\ UpTo(w, start) \in Nat /\ UpTo(w, end) \in Nat /\ UpTo(w, end) <= Len(w) /\ Len(w) \in Nat
<1> DEFINE a == UpTo(w, start)
           b == UpTo(w, end)
           win == get_window_transitions(w, start, end)
<1>1. a <= b /\ a \in Nat /\ b \in Nat /\ b <= Len(w) /\ Len(w) \in Nat
  BY UpToGrows, WaveIs
<1>2. w \in Seq(Transitions)
  BY DEF Wave
<1>3. win = SubSeq(w, a + 1, b)
  BY DEF get_window_transitions
<1>4. /\ \A i \in 1 .. Len(w) : i <= a <=> w[i].t <= start
      /\ \A i \in 1 .. Len(w) : i <= b <=> w[i].t <= end
  BY UpToIs
<1> HIDE DEF a, b, win
<1>5. win \in Seq(Transitions) /\ Len(win) = b - a /\ \A k \in 1 .. Len(win) : win[k] = w[a + k]
  <2>1. a + 1 \in Nat \ {0} /\ a + 1 <= b + 1 /\ b - (a + 1) + 1 = b - a
    BY <1>1
  <2>2. /\ SubSeq(w, a + 1, b) \in Seq(Transitions) /\ Len(SubSeq(w, a + 1, b)) = b - (a + 1) + 1
        /\ \A k \in 1 .. b - (a + 1) + 1 : SubSeq(w, a + 1, b)[k] = w[(a + 1) + k - 1]
    BY <1>1, <1>2, <2>1, CutIs
  <2>3. \A k \in 1 .. b - a : (a + 1) + k - 1 = a + k
    BY <1>1
  <2> QED
    BY <1>3, <2>1, <2>2, <2>3
<1>6. \A k \in 1 .. Len(win) : a + k \in 1 .. Len(w) /\ a + k > a /\ a + k <= b
  BY <1>1, <1>5
<1>7. \A i \in 1 .. Len(w) : w[i].t \in Int
  BY WaveIs
<1>8. \A i \in 1 .. Len(win) : start < win[i].t /\ win[i].t <= end
  <2> SUFFICES ASSUME NEW i \in 1 .. Len(win) PROVE start < win[i].t /\ win[i].t <= end
    OBVIOUS
  <2> DEFINE k == a + i
  <2>1. k \in 1 .. Len(w) /\ k \in Int /\ a \in Int /\ k > a /\ k <= b
    BY <1>1, <1>6
  <2>2. win[i] = w[k]
    BY <1>5
  <2> HIDE DEF k
  <2>3. w[k].t \in Int /\ w[k].t <= end /\ ~(w[k].t <= start)
    BY <1>1, <1>4, <1>7, <2>1
  <2> QED
    BY <2>2, <2>3
<1>9. \A i, j \in 1 .. Len(win) : i <= j => win[i].t <= win[j].t
  <2> SUFFICES ASSUME NEW i \in 1 .. Len(win), NEW j \in 1 .. Len(win), i <= j PROVE win[i].t <= win[j].t
    OBVIOUS
  <2>1. a + i \in 1 .. Len(w) /\ a + j \in 1 .. Len(w) /\ a + i <= a + j
    BY <1>1, <1>6
  <2> QED
    BY <1>5, <2>1, WaveIs
<1> QED
  BY <1>1, <1>5, <1>8, <1>9 DEF InWindow, a, b, win

(* The value at a time between two transitions of a window.                *)
LEMMA ValueBetween ==
    ASSUME NEW w, Wave(w), NEW start \in Int, NEW end \in Int, start <= end, NEW t \in start .. end,
           NEW k \in 0 .. Len(get_window_transitions(w, start, end)),
           k > 0 => get_window_transitions(w, start, end)[k].t <= t,
           k < Len(get_window_transitions(w, start, end)) => t < get_window_transitions(w, start, end)[k + 1].t
    PROVE  get_value_at_time(w, t) = IF k = 0 THEN get_value_at_time(w, start)
                                     ELSE get_window_transitions(w, start, end)[k].v
<1> DEFINE a == UpTo(w, start)
           b == UpTo(w, end)
           u == UpTo(w, t)
           win == get_window_transitions(w, start, end)
<1>1. /\ Len(win) = b - a /\ \A i \in 1 .. Len(win) : win[i] = w[a + i]
      /\ a \in Nat /\ b \in Nat /\ b <= Len(w) /\ Len(w) \in Nat /\ a <= u /\ u <= b /\ u \in Nat
  <2>1. t \in Int /\ start <= t /\ t <= end
    OBVIOUS
  <2>2. UpTo(w, start) <= UpTo(w, t) /\ UpTo(w, t) <= UpTo(w, end) /\ UpTo(w, t) \in 0 .. Len(w)
    BY <2>1, UpToGrows
  <2> QED
    BY <2>2, WindowOf
<1>2. \A i \in 1 .. Len(w) : i <= u <=> w[i].t <= t
  BY UpToIs
<1>3. \A i \in 1 .. Len(w) : w[i].t \in Int
  BY WaveIs
<1>4. /\ k > 0 => win[k].t <= t
      /\ k < Len(win) => t < win[k + 1].t
      /\ k \in 0 .. Len(win)
  OBVIOUS
<1> HIDE DEF a, b, u, win
<1>5. u = a + k
  <2>1. a + k <= u
    <3>1. CASE k = 0
      BY <1>1, <3>1
    <3>2. CASE k > 0
      <4>1. k \in 1 .. Len(win) /\ a + k \in 1 .. Len(w)
        BY <1>1, <1>4, <3>2
      <4> QED
        BY <1>1, <1>2, <1>4, <3>2, <4>1
    <3> QED
      BY <1>1, <1>4, <3>1, <3>2
  <2>2. u <= a + k
    <3> SUFFICES ASSUME u > a + k PROVE FALSE
      BY <1>1, <1>4
    <3>1. k < Len(win) /\ k + 1 \in 1 .. Len(win) /\ a + (k + 1) \in 1 .. Len(w) /\ a + (k + 1) <= u
      BY <1>1, <1>4
    <3>2. w[a + (k + 1)].t <= t /\ t < w[a + (k + 1)].t /\ w[a + (k + 1)].t \in Int
      BY <1>1, <1>2, <1>3, <1>4, <3>1
    <3> QED
      BY <3>2
  <2> QED
    BY <1>1, <1>4, <2>1, <2>2
<1>6. get_value_at_time(w, t) = IF u = 0 THEN Unset ELSE w[u].v
  BY DEF get_value_at_time, u
<1>7. get_value_at_time(w, start) = IF a = 0 THEN Unset ELSE w[a].v
  BY DEF get_value_at_time, a
<1>8. CASE k = 0
  BY <1>1, <1>5, <1>6, <1>7, <1>8
<1>9. CASE k > 0
  <2>1. win[k] = w[u] /\ u # 0
    BY <1>1, <1>4, <1>5, <1>9
  <2> QED
    BY <1>6, <1>9, <2>1 DEF win
<1> QED
  BY <1>4, <1>8, <1>9

LEMMA ClusterIs ==
    ASSUME NEW win, NEW start, NEW end, InWindow(win, start, end), NEW i \in 1 .. Len(win), NEW res \in Int
    PROVE  LET j == ClusterEnd(win, i, res)
           IN  /\ j \in i .. Len(win) /\ j \in Nat
               /\ \A k \in i .. j - 1 : win[k + 1].t - win[k].t < res
               /\ j < Len(win) => win[j + 1].t - win[j].t >= res
<1> DEFINE n == Len(win)
           Close(k) == win[k + 1].t - win[k].t < res
           D == {j \in i .. n : \A k \in i .. j - 1 : Close(k)}
           j == ClusterEnd(win, i, res)
<1>1. n \in Nat /\ i \in 1 .. n
  BY InWindowIs
<1>2. j = Max(D)
  BY DEF ClusterEnd
<1>3. D \in SUBSET (0 .. n) /\ i \in D
  BY <1>1
<1>4. Max(D) \in D /\ \A x \in D : x <= Max(D)
  <2> HIDE DEF D
  <2> QED
    BY <1>1, <1>3, GreatestIs
<1>5. j \in i .. n /\ (\A k \in i .. j - 1 : Close(k)) /\ \A x \in D : x <= j
  BY <1>2, <1>4
<1>6. ASSUME j < n PROVE ~Close(j)
  <2> SUFFICES ASSUME Close(j) PROVE FALSE
    OBVIOUS
  <2> HIDE DEF Close, j, n
  <2>1. j + 1 \in i .. n /\ \A k \in i .. (j + 1) - 1 : k \in i .. j - 1 \/ k = j
    BY <1>1, <1>5, <1>6
  <2>2. j + 1 \in D
    BY <1>5, <2>1
  <2>3. j + 1 <= j
    BY <1>5, <2>2
  <2> QED
    BY <1>1, <1>5, <2>3
<1>7. j < n => win[j + 1].t - win[j].t >= res
  <2> SUFFICES ASSUME j < n PROVE win[j + 1].t - win[j].t >= res
    OBVIOUS
  <2>1. ~(win[j + 1].t - win[j].t < res)
    BY <1>6
  <2> HIDE DEF j
  <2>2. j \in 1 .. n /\ j + 1 \in 1 .. n
    BY <1>1, <1>5
  <2>3. win[j + 1].t \in Int /\ win[j].t \in Int
    BY <2>2, InWindowIs
  <2> QED
    BY <2>1, <2>3
<1>8. j \in i .. n /\ j \in Nat /\ (\A k \in i .. j - 1 : win[k + 1].t - win[k].t < res)
  BY <1>1, <1>5
<1> QED
  BY <1>7, <1>8

(* The transition at which the cluster of i begins, and the last one of    *)
(* that cluster.                                                           *)
First(win, res, i) == Max({k \in 1 .. i : Begins(win, k, res)})
EndOf(win, res, i) == IF i = 0 THEN 0 ELSE ClusterEnd(win, First(win, res, i), res)

LEMMA FirstIs ==
    ASSUME NEW win, NEW start, NEW end, InWindow(win, start, end), NEW i \in 1 .. Len(win), NEW res \in Int
    PROVE  /\ First(win, res, i) \in 1 .. i /\ Begins(win, First(win, res, i), res)
           /\ \A k \in First(win, res, i) + 1 .. i : ~Begins(win, k, res)
           /\ Begins(win, i, res) => First(win, res, i) = i
           /\ ~Begins(win, i, res) => i > 1 /\ First(win, res, i) = First(win, res, i - 1)
<1> DEFINE D == {k \in 1 .. i : Begins(win, k, res)}
           f == First(win, res, i)
<1>1. i \in Nat /\ i >= 1 /\ Len(win) \in Nat /\ i <= Len(win)
  BY InWindowIs
<1>2. Begins(win, 1, res)
  BY DEF Begins
<1>3. D \in SUBSET (0 .. i) /\ 1 \in D
  BY <1>1, <1>2
<1>4. Max(D) \in D /\ \A x \in D : x <= Max(D)
  <2> HIDE DEF D
  <2> QED
    BY <1>1, <1>3, GreatestIs
<1>5. f \in 1 .. i /\ Begins(win, f, res) /\ \A k \in 1 .. i : Begins(win, k, res) => k <= f
  BY <1>4 DEF First
<1> HIDE DEF f
<1>6. \A k \in f + 1 .. i : ~Begins(win, k, res)
  BY <1>1, <1>5
<1>7. Begins(win, i, res) => f = i
  BY <1>1, <1>5
<1>8. ASSUME ~Begins(win, i, res) PROVE i > 1 /\ f = First(win, res, i - 1)
  <2>1. i > 1
    BY <1>1, <1>2, <1>8
  <2>2. {k \in 1 .. i : Begins(win, k, res)} = {k \in 1 .. i - 1 : Begins(win, k, res)}
    <3>1. \A k \in 1 .. i : Begins(win, k, res) => k \in 1 .. i - 1
      BY <1>1, <1>8
    <3>2. \A k \in 1 .. i - 1 : k \in 1 .. i
      BY <1>1
    <3> QED
      BY <3>1, <3>2
  <2> QED
    BY <2>1, <2>2 DEF First, f
<1> QED
  BY <1>5, <1>6, <1>7, <1>8 DEF f

LEMMA EndOfIs ==
    ASSUME NEW win, NEW start, NEW end, InWindow(win, start, end), NEW i \in 1 .. Len(win), NEW res \in Int
    PROVE  /\ EndOf(win, res, i) \in i .. Len(win)
           /\ Begins(win, i, res) => EndOf(win, res, i - 1) = i - 1 /\ EndOf(win, res, i) = ClusterEnd(win, i, res)
           /\ ~Begins(win, i, res) => i > 1 /\ EndOf(win, res, i) = EndOf(win, res, i - 1)
<1>1. i \in Nat /\ i >= 1 /\ Len(win) \in Nat /\ i <= Len(win)
  BY InWindowIs
<1>2. \A x \in 1 .. Len(win) : win[x].t \in Int
  BY InWindowIs
<1>3. ASSUME NEW m \in 1 .. Len(win)
      PROVE  /\ EndOf(win, res, m) = ClusterEnd(win, First(win, res, m), res)
             /\ EndOf(win, res, m) \in m .. Len(win)
             /\ m < Len(win) /\ Begins(win, m + 1, res) => EndOf(win, res, m) = m
  <2> DEFINE f == First(win, res, m)
             j == ClusterEnd(win, f, res)
  <2>1. m \in Nat /\ m >= 1 /\ m <= Len(win)
    BY <1>1
  <2>2. f \in 1 .. m /\ \A k \in f + 1 .. m : ~Begins(win, k, res)
    BY FirstIs
  <2>3. f \in 1 .. Len(win)
    BY <1>1, <2>1, <2>2
  <2>4. EndOf(win, res, m) = j
    BY <2>1 DEF EndOf
  <2> HIDE DEF f
  <2>5. /\ j \in f .. Len(win)
        /\ \A k \in f .. j - 1 : win[k + 1].t - win[k].t < res
        /\ j < Len(win) => win[j + 1].t - win[j].t >= res
    BY <2>3, ClusterIs
  <2> HIDE DEF j
  <2>6. j >= m
    <3> SUFFICES ASSUME j < m PROVE FALSE
      BY <2>1, <2>3, <2>5
    <3>1. j + 1 \in f + 1 .. m /\ j < Len(win) /\ (j + 1) - 1 = j
      BY <2>1, <2>2, <2>3, <2>5
    <3>2. Begins(win, j + 1, res)
      BY <2>5, <3>1 DEF Begins
    <3> QED
      BY <2>2, <3>1, <3>2
  <2>7. ASSUME m < Len(win), Begins(win, m + 1, res) PROVE j = m
    <3> SUFFICES ASSUME j > m PROVE FALSE
      BY <2>1, <2>3, <2>5, <2>6
    <3>1. m \in f .. j - 1 /\ m + 1 # 1 /\ (m + 1) - 1 = m /\ m + 1 \in 1 .. Len(win)
      BY <2>1, <2>2, <2>3, <2>5, <2>7
    <3>2. win[m + 1].t - win[m].t < res /\ win[m + 1].t \in Int /\ win[m].t \in Int
      BY <1>2, <2>5, <3>1
    <3>3. win[m + 1].t - win[m].t >= res
      BY <2>7, <3>1 DEF Begins
    <3> QED
      BY <3>2, <3>3
  <2>8. EndOf(win, res, m) \in m .. Len(win)
    BY <2>1, <2>3, <2>4, <2>5, <2>6
  <2> QED
    BY <2>4, <2>7, <2>8 DEF f, j
<1>4. EndOf(win, res, 0) = 0
  BY DEF EndOf
<1>5. ASSUME Begins(win, i, res) PROVE EndOf(win, res, i - 1) = i - 1 /\ EndOf(win, res, i) = ClusterEnd(win, i, res)
  <2>1. First(win, res, i) = i
    BY <1>5, FirstIs
  <2>2. EndOf(win, res, i) = ClusterEnd(win, i, res)
    BY <1>3, <2>1
  <2>3. CASE i = 1
    BY <1>4, <2>2, <2>3
  <2>4. CASE i > 1
    <3>1. i - 1 \in 1 .. Len(win) /\ i - 1 < Len(win) /\ (i - 1) + 1 = i
      BY <1>1, <2>4
    <3> QED
      BY <1>3, <1>5, <2>2, <3>1
  <2> QED
    BY <1>1, <2>3, <2>4
<1>6. ASSUME ~Begins(win, i, res) PROVE i > 1 /\ EndOf(win, res, i) = EndOf(win, res, i - 1)
  <2>1. i > 1 /\ First(win, res, i) = First(win, res, i - 1)
    BY <1>6, FirstIs
  <2>2. i - 1 \in 1 .. Len(win)
    BY <1>1, <2>1
  <2> QED
    BY <1>3, <2>1, <2>2
<1> QED
  BY <1>3, <1>5, <1>6

(* The gaps in a cluster, and the gap before one.                          *)
LEMMA GapsAre ==
    ASSUME NEW win, NEW start, NEW end, InWindow(win, start, end), NEW i \in 1 .. Len(win), NEW res \in Int,
           Begins(win, i, res)
    PROVE  LET j == ClusterEnd(win, i, res)
           IN  /\ j \in i .. Len(win) /\ j \in Nat /\ i \in Nat
               /\ win[i].t \in Int /\ win[j].t \in Int /\ win[i].t <= win[j].t
               /\ start < win[i].t /\ win[j].t <= end
               /\ i > 1 => /\ i - 1 \in 1 .. Len(win) /\ win[i - 1].t \in Int
                           /\ win[i].t >= win[i - 1].t + res
               /\ j < Len(win) => /\ j + 1 \in 1 .. Len(win) /\ win[j + 1].t \in Int
                                  /\ win[j + 1].t >= win[j].t + res
<1> DEFINE j == ClusterEnd(win, i, res)
<1>1. Len(win) \in Nat /\ \A x \in 1 .. Len(win) : win[x].t \in Int
  BY InWindowIs
<1>2. j \in i .. Len(win) /\ j \in Nat /\ (j < Len(win) => win[j + 1].t - win[j].t >= res)
  BY ClusterIs
<1> HIDE DEF j
<1>3. i \in Nat /\ j \in 1 .. Len(win)
  BY <1>1, <1>2
<1>4. win[i].t \in Int /\ win[j].t \in Int /\ win[i].t <= win[j].t /\ start < win[i].t /\ win[j].t <= end
  BY <1>1, <1>2, <1>3 DEF InWindow
<1>5. ASSUME i > 1 PROVE i - 1 \in 1 .. Len(win) /\ win[i - 1].t \in Int /\ win[i].t >= win[i - 1].t + res
  <2>1. i - 1 \in 1 .. Len(win)
    BY <1>1, <1>5
  <2>2. win[i].t - win[i - 1].t >= res
    BY <1>5 DEF Begins
  <2> QED
    BY <1>1, <1>4, <2>1, <2>2
<1>6. ASSUME j < Len(win) PROVE j + 1 \in 1 .. Len(win) /\ win[j + 1].t \in Int /\ win[j + 1].t >= win[j].t + res
  <2>1. j + 1 \in 1 .. Len(win)
    BY <1>1, <1>2, <1>3, <1>6
  <2>2. win[j + 1].t - win[j].t >= res
    BY <1>2, <1>6
  <2> QED
    BY <1>1, <1>4, <2>1, <2>2
<1> QED
  BY <1>2, <1>3, <1>4, <1>5, <1>6 DEF j

Looks(width, v, radix) == Stable(width, 0, 0, v, radix).value
NoLook == [radix |-> "raw", bits |-> <<>>, number |-> 0]
LooksOf(width, vs, radix) == {Looks(width, v, radix) : v \in vs} \cup {NoLook}
Segments(looks) == [start : Int, end : Int, transitions : Nat, unique : Nat, state : {"stable", "flipping"}, value : looks]

LEMMA StableIs ==
    ASSUME NEW width, NEW radix, NEW vs, NEW v \in vs, NEW s \in Int, NEW e \in Int
    PROVE  LET g == Stable(width, s, e, v, radix)
           IN  /\ g \in Segments(LooksOf(width, vs, radix))
               /\ g.start = s /\ g.end = e /\ g.transitions = 0 /\ g.state = "stable" /\ g.value = Looks(width, v, radix)
<1> DEFINE look == IF width <= 1 THEN [radix |-> "bin", bits |-> <<simplify_scalar_value(v)>>, number |-> 0]
                   ELSE format_multibit_value(v, width, radix)
<1>1. \A x, y : Stable(width, x, y, v, radix) = [start |-> x, end |-> y, transitions |-> 0, unique |-> 0,
                                                 state |-> "stable", value |-> look]
  BY DEF Stable
<1> HIDE DEF look
<1>2. Looks(width, v, radix) = look
  BY <1>1 DEF Looks
<1>3. look \in LooksOf(width, vs, radix)
  BY <1>2 DEF LooksOf
<1> QED
  BY <1>1, <1>2, <1>3 DEF Segments

(* Two ways to append a segment that is not empty.                         *)
Widened(r, segs, next) ==
  LET n == Len(segs)
  IN  /\ n > 0 /\ Len(r) = n /\ segs[n].end + 1 = next.start
      /\ \A k \in 1 .. n - 1 : r[k] = segs[k]
      /\ r[n].start = segs[n].start /\ r[n].end = next.end
      /\ same_overview_segment_shape(segs[n], next) /\ same_overview_segment_shape(r[n], next)
Added(r, segs, next) ==
  /\ Len(r) = Len(segs) + 1 /\ r[Len(segs) + 1] = next
  /\ \A k \in 1 .. Len(segs) : r[k] = segs[k]

LEMMA AppendIs ==
    ASSUME NEW looks, NEW segs \in Seq(Segments(looks)), NEW next \in Segments(looks)
    PROVE  LET r == append_overview_segment(segs, next)
           IN  /\ r \in Seq(Segments(looks))
               /\ next.start > next.end => r = segs
               /\ next.start <= next.end => Widened(r, segs, next) \/ Added(r, segs, next)
<1> DEFINE n == Len(segs)
           r == append_overview_segment(segs, next)
           meets == n > 0 /\ segs[n].end + 1 = next.start /\ same_overview_segment_shape(segs[n], next)
           wide == [segs EXCEPT ![n] = [@ EXCEPT !.end = next.end]]
<1>1. n \in Nat /\ next.start \in Int /\ next.end \in Int /\ \A k \in 1 .. n : segs[k] \in Segments(looks)
  <2> HIDE DEF r, meets, wide
  <2>1. next.start \in Int /\ next.end \in Int
    BY DEF Segments
  <2>2. n \in Nat /\ \A k \in 1 .. n : segs[k] \in Segments(looks)
    OBVIOUS
  <2> QED
    BY <2>1, <2>2
<1>2. /\ next.start > next.end => r = segs
      /\ ~(next.start > next.end) /\ meets => r = wide
      /\ ~(next.start > next.end) /\ ~meets => r = Append(segs, next)
  <2>1. next.start > next.end => r = segs
    BY DEF append_overview_segment
  <2>2. ~(next.start > next.end) /\ meets => r = wide
    BY DEF append_overview_segment
  <2>3. ~(next.start > next.end) /\ ~meets => r = Append(segs, next)
    BY DEF append_overview_segment
  <2> QED
    BY <2>1, <2>2, <2>3
<1>3. CASE next.start > next.end
  BY <1>1, <1>2, <1>3
<1>4. CASE next.start <= next.end /\ meets
  <2>1. r = wide
    BY <1>1, <1>2, <1>4
  <2> DEFINE last == [segs[n] EXCEPT !.end = next.end]
  <2>2. n \in 1 .. n
    BY <1>1, <1>4
  <2>3. /\ last \in Segments(looks) /\ last.start = segs[n].start /\ last.end = next.end
        /\ last.state = segs[n].state /\ last.value = segs[n].value
        /\ last.transitions = segs[n].transitions /\ last.unique = segs[n].unique
    BY <1>1, <2>2 DEF Segments
  <2>4. wide = [segs EXCEPT ![n] = last]
    OBVIOUS
  <2> HIDE DEF last
  <2>5. wide \in Seq(Segments(looks)) /\ Len(wide) = n /\ wide[n] = last /\ \A k \in 1 .. n - 1 : wide[k] = segs[k]
    BY <1>1, <2>2, <2>3, <2>4
  <2> HIDE DEF wide
  <2>6. same_overview_segment_shape(last, next)
    BY <1>4, <2>3 DEF same_overview_segment_shape
  <2>7. Widened(r, segs, next)
    BY <1>4, <2>1, <2>3, <2>5, <2>6 DEF Widened
  <2> QED
    BY <1>1, <1>4, <2>1, <2>5, <2>7
<1>5. CASE next.start <= next.end /\ ~meets
  <2>1. r = Append(segs, next)
    BY <1>1, <1>2, <1>5
  <2>2. Append(segs, next) \in Seq(Segments(looks)) /\ Added(Append(segs, next), segs, next)
    BY <1>1 DEF Added
  <2> QED
    BY <1>1, <1>5, <2>1, <2>2
<1> QED
  BY <1>1, <1>3, <1>4, <1>5

(* Segments that cover the times from start up to but not including the    *)
(* cursor.                                                                 *)
Tiled(segs, start, cursor) ==
  /\ \/ Len(segs) = 0 /\ cursor = start
     \/ Len(segs) > 0 /\ segs[1].start = start /\ segs[Len(segs)].end + 1 = cursor
  /\ \A k \in 1 .. Len(segs) :
       /\ segs[k].start <= segs[k].end
       /\ k > 1 => segs[k].start = segs[k - 1].end + 1
Truthful(w, width, radix, segs) ==
  \A k \in 1 .. Len(segs) : segs[k].state = "stable" =>
    \A t \in segs[k].start .. segs[k].end : Looks(width, get_value_at_time(w, t), radix) = segs[k].value

LEMMA SegmentIs ==
    ASSUME NEW looks, NEW segs \in Seq(Segments(looks))
    PROVE  /\ Len(segs) \in Nat
           /\ \A k \in 1 .. Len(segs) : /\ segs[k] \in Segments(looks) /\ segs[k].start \in Int /\ segs[k].end \in Int
                                        /\ segs[k].transitions \in Nat
<1>1. Len(segs) \in Nat /\ \A k \in 1 .. Len(segs) : segs[k] \in Segments(looks)
  OBVIOUS
<1>2. \A g \in Segments(looks) : g.start \in Int /\ g.end \in Int /\ g.transitions \in Nat
  BY DEF Segments
<1> QED
  BY <1>1, <1>2

LEMMA AppendTiles ==
    ASSUME NEW looks, NEW segs \in Seq(Segments(looks)), NEW next \in Segments(looks), NEW start \in Int,
           Tiled(segs, start, next.start), next.start <= next.end + 1
    PROVE  Tiled(append_overview_segment(segs, next), start, next.end + 1)
<1> DEFINE n == Len(segs)
           r == append_overview_segment(segs, next)
<1>1. n \in Nat /\ \A k \in 1 .. n : segs[k].start \in Int /\ segs[k].end \in Int
  BY SegmentIs
<1>2. next.start \in Int /\ next.end \in Int
  BY DEF Segments
<1>3. /\ r \in Seq(Segments(looks))
      /\ next.start > next.end => r = segs
      /\ next.start <= next.end => Widened(r, segs, next) \/ Added(r, segs, next)
  BY AppendIs
<1>4. Len(r) \in Nat /\ \A k \in 1 .. Len(r) : r[k].start \in Int /\ r[k].end \in Int
  BY <1>3, SegmentIs
<1> HIDE DEF r, n
<1>5. /\ \/ n = 0 /\ next.start = start
         \/ n > 0 /\ segs[1].start = start /\ segs[n].end + 1 = next.start
      /\ \A k \in 1 .. n : segs[k].start <= segs[k].end /\ (k > 1 => segs[k].start = segs[k - 1].end + 1)
  BY DEF Tiled, n
<1>6. CASE next.start > next.end
  <2>1. r = segs /\ next.end + 1 = next.start
    BY <1>2, <1>3, <1>6
  <2> QED
    BY <2>1 DEF r
<1>7. CASE next.start <= next.end /\ Widened(r, segs, next)
  <2>1. /\ n > 0 /\ Len(r) = n /\ segs[n].end + 1 = next.start /\ r[n].start = segs[n].start /\ r[n].end = next.end
        /\ \A k \in 1 .. n - 1 : r[k] = segs[k]
    BY <1>7 DEF Widened, n
  <2>2. r[1].start = start
    BY <1>1, <1>5, <2>1
  <2>3. ASSUME NEW k \in 1 .. n PROVE r[k].start <= r[k].end /\ (k > 1 => r[k].start = r[k - 1].end + 1)
    <3>1. r[k].start = segs[k].start /\ (k > 1 => r[k - 1] = segs[k - 1])
      BY <1>1, <2>1
    <3>2. r[k].start <= r[k].end
      BY <1>1, <1>2, <1>5, <1>7, <2>1, <3>1
    <3> QED
      BY <1>5, <3>1, <3>2
  <2> QED
    BY <1>1, <2>1, <2>2, <2>3 DEF Tiled, r
<1>8. CASE next.start <= next.end /\ Added(r, segs, next)
  <2>1. Len(r) = n + 1 /\ r[n + 1] = next /\ \A k \in 1 .. n : r[k] = segs[k]
    BY <1>8 DEF Added, n
  <2>2. r[1].start = start
    BY <1>1, <1>5, <2>1
  <2>3. ASSUME NEW k \in 1 .. n + 1 PROVE r[k].start <= r[k].end /\ (k > 1 => r[k].start = r[k - 1].end + 1)
    <3>1. CASE k = n + 1
      <4>1. r[k] = next /\ (k > 1 => r[k - 1] = segs[n] /\ n > 0)
        BY <1>1, <2>1, <3>1
      <4> QED
        BY <1>1, <1>5, <1>8, <4>1
    <3>2. CASE k \in 1 .. n
      <4>1. r[k] = segs[k] /\ (k > 1 => r[k - 1] = segs[k - 1])
        BY <1>1, <2>1, <3>2
      <4> QED
        BY <1>5, <3>2, <4>1
    <3> QED
      BY <1>1, <3>1, <3>2
  <2>4. Len(r) > 0 /\ r[Len(r)].end + 1 = next.end + 1
    BY <1>1, <2>1
  <2> QED
    BY <2>1, <2>2, <2>3, <2>4 DEF Tiled, r
<1> QED
  BY <1>2, <1>3, <1>6, <1>7, <1>8

LEMMA AppendTruthful ==
    ASSUME NEW looks, NEW segs \in Seq(Segments(looks)), NEW next \in Segments(looks),
           NEW w, NEW width, NEW radix, Truthful(w, width, radix, segs),
           next.state = "stable" =>
             \A t \in next.start .. next.end : Looks(width, get_value_at_time(w, t), radix) = next.value
    PROVE  Truthful(w, width, radix, append_overview_segment(segs, next))
<1> DEFINE n == Len(segs)
           r == append_overview_segment(segs, next)
           Tells(g) == g.state = "stable" => \A t \in g.start .. g.end : Looks(width, get_value_at_time(w, t), radix) = g.value
<1>1. n \in Nat /\ \A k \in 1 .. n : segs[k].start \in Int /\ segs[k].end \in Int
  BY SegmentIs
<1>2. next.start \in Int /\ next.end \in Int
  BY DEF Segments
<1>3. /\ r \in Seq(Segments(looks))
      /\ next.start > next.end => r = segs
      /\ next.start <= next.end => Widened(r, segs, next) \/ Added(r, segs, next)
  BY AppendIs
<1>4. \A k \in 1 .. n : Tells(segs[k])
  BY DEF Truthful
<1>5. Tells(next)
  OBVIOUS
<1> HIDE DEF r, n
<1>6. SUFFICES \A k \in 1 .. Len(r) : Tells(r[k])
  BY DEF Truthful, r
<1>7. CASE next.start > next.end
  BY <1>3, <1>4, <1>7 DEF n
<1>8. CASE next.start <= next.end /\ Widened(r, segs, next)
  <2>1. /\ n > 0 /\ Len(r) = n /\ segs[n].end + 1 = next.start /\ r[n].start = segs[n].start /\ r[n].end = next.end
        /\ \A k \in 1 .. n - 1 : r[k] = segs[k]
        /\ segs[n].state = next.state /\ segs[n].value = next.value /\ r[n].state = next.state /\ r[n].value = next.value
    BY <1>8 DEF Widened, n, same_overview_segment_shape
  <2>2. Tells(r[n])
    <3> SUFFICES ASSUME next.state = "stable", NEW t \in segs[n].start .. next.end
                 PROVE  Looks(width, get_value_at_time(w, t), radix) = next.value
      BY <2>1
    <3>1. n \in 1 .. n /\ t \in Int
      BY <1>1, <1>2, <2>1
    <3>2. t \in segs[n].start .. segs[n].end \/ t \in next.start .. next.end
      BY <1>1, <1>2, <2>1, <3>1
    <3>3. Tells(segs[n])
      BY <1>4, <3>1
    <3> QED
      BY <1>5, <2>1, <3>2, <3>3
  <2> QED
    BY <1>1, <1>4, <2>1, <2>2
<1>9. CASE next.start <= next.end /\ Added(r, segs, next)
  <2>1. Len(r) = n + 1 /\ r[n + 1] = next /\ \A k \in 1 .. n : r[k] = segs[k]
    BY <1>9 DEF Added, n
  <2> HIDE DEF Tells
  <2> QED
    BY <1>1, <1>4, <1>5, <2>1
<1> QED
  BY <1>2, <1>3, <1>7, <1>8, <1>9

(* The values of a signal in a window, and what the loop keeps.            *)
ValuesIn(w, start, end) ==
  {get_value_at_time(w, start)} \cup
  {get_window_transitions(w, start, end)[k].v : k \in 1 .. Len(get_window_transitions(w, start, end))}
Accounts(values, looks) == [segments : Seq(Segments(looks)), cursor : Int, value : values]

Held(win, v, i, j) == {v} \cup {win[k].v : k \in i .. j}
LEMMA FewValues ==
    ASSUME NEW win, NEW i \in Nat, NEW j \in Nat, NEW v
    PROVE  IsFiniteSet(Held(win, v, i, j))
<1> DEFINE f == [k \in i .. j |-> win[k].v]
<1>1. IsFiniteSet(i .. j)
  BY FS_Interval
<1>2. {win[k].v : k \in i .. j} = {f[k] : k \in i .. j}
  OBVIOUS
<1>3. IsFiniteSet({f[k] : k \in i .. j})
  <2>1. \A k \in i .. j : f[k] \in {f[m] : m \in i .. j}
    OBVIOUS
  <2>2. f \in Surjection(i .. j, {f[m] : m \in i .. j})
    BY <2>1 DEF Surjection
  <2> QED
    BY <1>1, <2>2, FS_Surjection
<1>4. IsFiniteSet({v})
  BY FS_Singleton
<1> HIDE DEF f
<1> QED
  BY <1>2, <1>3, <1>4, FS_Union DEF Held

(* The parts of one turn.                                                  *)
Before(win, width, radix, acc, i) ==
  append_overview_segment(acc.segments, Stable(width, acc.cursor, win[i].t - 1, acc.value, radix))
Burst(win, width, acc, i, j) ==
  Flipping(width, win[i].t, FlippingEnd(win, i, j), j - i + 1, Held(win, acc.value, i, j))

(* What one turn does, in terms of its parts.                              *)
TurnTells(win, width, radix, values, acc, i, j, stable, before, burst, next) ==
  LET looks == LooksOf(width, values, radix)
  IN  /\ next \in Accounts(values, looks) /\ before \in Seq(Segments(looks))
      /\ stable \in Segments(looks) /\ stable.start = acc.cursor /\ stable.end = win[i].t - 1
      /\ stable.state = "stable" /\ stable.value = Looks(width, acc.value, radix) /\ stable.transitions = 0
      /\ burst \in Segments(looks) /\ burst.start = win[i].t /\ burst.state = "flipping"
      /\ burst.transitions = j - i + 1
      /\ before = append_overview_segment(acc.segments, stable)
      /\ next.value = win[j].v
      /\ i = j => next.segments = before /\ next.cursor = win[i].t
      /\ i < j => /\ next.segments = append_overview_segment(before, burst) /\ next.cursor = burst.end + 1
                  /\ burst.end \in Int /\ win[i].t <= burst.end
                  /\ next.cursor = IF win[i].t = win[j].t THEN win[j].t + 1 ELSE win[j].t

LEMMA TurnIs ==
    ASSUME NEW win, NEW start, NEW end, InWindow(win, start, end), NEW res \in Int, NEW width, NEW radix,
           NEW values, \A k \in 1 .. Len(win) : win[k].v \in values,
           NEW acc \in Accounts(values, LooksOf(width, values, radix)),
           NEW i \in 1 .. Len(win), Begins(win, i, res)
    PROVE  TurnTells(win, width, radix, values, acc, i, ClusterEnd(win, i, res),
                     Stable(width, acc.cursor, win[i].t - 1, acc.value, radix),
                     Before(win, width, radix, acc, i), Burst(win, width, acc, i, ClusterEnd(win, i, res)),
                     Overview(win, width, res, radix, acc, i))
<1> DEFINE looks == LooksOf(width, values, radix)
           j == ClusterEnd(win, i, res)
           stable == Stable(width, acc.cursor, win[i].t - 1, acc.value, radix)
           before == Before(win, width, radix, acc, i)
           burst == Burst(win, width, acc, i, j)
           fend == FlippingEnd(win, i, j)
           next == Overview(win, width, res, radix, acc, i)
<1>1. /\ j \in i .. Len(win) /\ j \in Nat /\ i \in Nat
      /\ win[i].t \in Int /\ win[j].t \in Int /\ win[i].t <= win[j].t
  BY GapsAre
<1>2. acc.segments \in Seq(Segments(looks)) /\ acc.cursor \in Int /\ acc.value \in values
  BY DEF Accounts
<1>3. /\ stable \in Segments(looks) /\ stable.start = acc.cursor /\ stable.end = win[i].t - 1
      /\ stable.state = "stable" /\ stable.value = Looks(width, acc.value, radix) /\ stable.transitions = 0
  <2> DEFINE last == win[i].t - 1
             c == acc.cursor
             v == acc.value
  <2>1. last \in Int /\ c \in Int /\ v \in values
    BY <1>1, <1>2
  <2> HIDE DEF last, c, v
  <2>2. LET g == Stable(width, c, last, v, radix)
        IN  /\ g \in Segments(LooksOf(width, values, radix))
            /\ g.start = c /\ g.end = last /\ g.transitions = 0 /\ g.state = "stable" /\ g.value = Looks(width, v, radix)
    BY <2>1, StableIs
  <2> QED
    BY <2>2 DEF last, c, v
<1>4. before \in Seq(Segments(looks))
  <2> HIDE DEF stable, looks
  <2>1. append_overview_segment(acc.segments, stable) \in Seq(Segments(looks))
    BY <1>2, <1>3, AppendIs
  <2> QED
    BY <2>1 DEF Before, stable
<1>5. fend \in Int /\ win[i].t <= fend /\ fend = IF win[i].t = win[j].t THEN win[j].t ELSE win[j].t - 1
  <2> HIDE DEF j
  <2> QED
    BY <1>1 DEF FlippingEnd
<1>6. /\ burst \in Segments(looks) /\ burst.start = win[i].t /\ burst.end = fend
      /\ burst.state = "flipping" /\ burst.transitions = j - i + 1
  <2>1. NoLook \in looks
    BY DEF LooksOf
  <2>2. IsFiniteSet(Held(win, acc.value, i, j)) /\ j - i + 1 \in Nat
    <3> HIDE DEF j
    <3> QED
      BY <1>1, FewValues
  <2> DEFINE m == j - i + 1
             S == Held(win, acc.value, i, j)
             from == win[i].t
  <2> HIDE DEF looks, j, fend
  <2>3. m \in Nat /\ IsFiniteSet(S) /\ from \in Int
    BY <1>1, <2>2
  <2> HIDE DEF m, S, from
  <2>4. LET g == Flipping(width, from, fend, m, S)
        IN  g \in Segments(looks) /\ g.start = from /\ g.end = fend /\ g.transitions = m /\ g.state = "flipping"
    <3>1. fend \in Int /\ Cardinality(S) \in Nat
      BY <1>5, <2>3, FS_CardinalityType
    <3> QED
      BY <2>1, <2>3, <3>1 DEF Flipping, Segments, NoLook
  <2>5. burst = Flipping(width, from, fend, m, S)
    BY DEF Burst, fend, m, S, from
  <2> HIDE DEF burst
  <2> QED
    BY <2>4, <2>5 DEF from, m
<1>12. before = append_overview_segment(acc.segments, stable)
  BY DEF Before
<1>7. next = IF i = j THEN [segments |-> before, cursor |-> win[i].t, value |-> win[i].v]
             ELSE [segments |-> append_overview_segment(before, burst),
                   cursor |-> IF fend = win[j].t THEN fend + 1 ELSE win[j].t, value |-> win[j].v]
  BY DEF Overview, Before, Burst, Held
<1>8. win[i].v \in values /\ win[j].v \in values
  <2>1. j \in 1 .. Len(win)
    BY <1>1
  <2> QED
    BY <2>1
<1> HIDE DEF next, before, burst, fend, j, looks, stable
<1>9. append_overview_segment(before, burst) \in Seq(Segments(looks))
  BY <1>4, <1>6, AppendIs
<1>13. SUFFICES /\ next \in Accounts(values, looks) /\ next.value = win[j].v
                /\ i = j => next.segments = before /\ next.cursor = win[i].t
                /\ i < j => /\ next.segments = append_overview_segment(before, burst)
                            /\ next.cursor = burst.end + 1
                            /\ burst.end \in Int /\ win[i].t <= burst.end
                            /\ next.cursor = IF win[i].t = win[j].t THEN win[j].t + 1 ELSE win[j].t
  <2>1. TurnTells(win, width, radix, values, acc, i, j, stable, before, burst, next)
    BY <1>3, <1>4, <1>6, <1>12, <1>13 DEF TurnTells, looks
  <2> QED
    BY <2>1 DEF next, before, burst, fend, j, looks, stable
<1>10. CASE i = j
  <2>1. next = [segments |-> before, cursor |-> win[i].t, value |-> win[i].v]
    BY <1>7, <1>10
  <2>2. next \in Accounts(values, looks)
    BY <1>1, <1>4, <1>8, <2>1 DEF Accounts
  <2>3. next.segments = before /\ next.cursor = win[i].t /\ next.value = win[j].v /\ ~(i < j)
    BY <1>1, <1>10, <2>1
  <2> QED
    BY <1>10, <2>2, <2>3
<1>11. CASE i < j
  <2>1. next = [segments |-> append_overview_segment(before, burst),
                cursor |-> IF fend = win[j].t THEN fend + 1 ELSE win[j].t, value |-> win[j].v]
    BY <1>1, <1>7, <1>11
  <2>2. next.cursor = fend + 1 /\ fend + 1 = (IF win[i].t = win[j].t THEN win[j].t + 1 ELSE win[j].t)
    BY <1>1, <1>5, <2>1
  <2>3. next \in Accounts(values, looks)
    BY <1>1, <1>5, <1>8, <1>9, <2>1 DEF Accounts
  <2>4. next.segments = append_overview_segment(before, burst) /\ next.value = win[j].v /\ ~(i = j)
    BY <1>1, <1>11, <2>1
  <2> QED
    BY <1>5, <1>6, <1>11, <2>2, <2>3, <2>4
<1> QED
  BY <1>1, <1>10, <1>11

(* What every turn of the loop keeps holds after the last one.             *)
Turned(win, width, res, radix, acc, i) == IF Begins(win, i, res) THEN Overview(win, width, res, radix, acc, i) ELSE acc
NoSegments(w, start) == [segments |-> <<>>, cursor |-> start, value |-> get_value_at_time(w, start)]

LEMMA OverviewsIn ==
    ASSUME NEW w, NEW width, NEW start, NEW end, NEW res, NEW radix, NEW win, NEW n \in Nat,
           win = get_window_transitions(w, start, end), n = Len(win),
           NEW S, NEW J \in [0 .. n -> SUBSET S], NoSegments(w, start) \in J[0],
           \A i \in 1 .. n : \A acc \in J[i - 1] : Turned(win, width, res, radix, acc, i) \in J[i]
    PROVE  Overviews(w, width, start, end, res, radix)[n] \in J[n]
<1> DEFINE G == [x \in (1 .. n) \X S |-> Turned(win, width, res, radix, x[2], x[1])]
           b == NoSegments(w, start)
           read == CHOOSE f : f = [i \in 0 .. Len(win) |->
                     IF i = 0 THEN [segments |-> <<>>, cursor |-> start, value |-> get_value_at_time(w, start)]
                     ELSE IF Begins(win, i, res) THEN Overview(win, width, res, radix, f[i - 1], i) ELSE f[i - 1]]
<1>1. Overviews(w, width, start, end, res, radix) = read
  BY DEF Overviews
<1>2. \A i \in 1 .. n : \A x \in J[i - 1] : G[<<i, x>>] = Turned(win, width, res, radix, x, i) /\ G[<<i, x>>] \in J[i]
  <2> SUFFICES ASSUME NEW i \in 1 .. n, NEW x \in J[i - 1]
               PROVE  G[<<i, x>>] = Turned(win, width, res, radix, x, i) /\ G[<<i, x>>] \in J[i]
    OBVIOUS
  <2>1. i - 1 \in 0 .. n /\ x \in S
    OBVIOUS
  <2>2. G[<<i, x>>] = Turned(win, width, res, radix, x, i)
    BY <2>1
  <2> HIDE DEF G
  <2> QED
    BY <2>2
<1> HIDE DEF G, b
<1>3. b \in J[0]
  BY DEF b
<1>4. PICK f : InSteps(f, n, b, G, J)
  BY <1>2, <1>3, StepsInside
<1>5. f = [i \in 0 .. Len(win) |->
             IF i = 0 THEN [segments |-> <<>>, cursor |-> start, value |-> get_value_at_time(w, start)]
             ELSE IF Begins(win, i, res) THEN Overview(win, width, res, radix, f[i - 1], i) ELSE f[i - 1]]
  <2>1. ASSUME NEW i \in 0 .. n, i # 0
        PROVE  G[<<i, f[i - 1]>>] = IF Begins(win, i, res) THEN Overview(win, width, res, radix, f[i - 1], i) ELSE f[i - 1]
    <3>1. i - 1 \in 0 .. n /\ i \in 1 .. n
      BY <2>1
    <3> QED
      BY <1>2, <1>4, <3>1 DEF InSteps, Turned
  <2> QED
    BY <1>4, <2>1 DEF InSteps, b, NoSegments
<1>6. read = [i \in 0 .. Len(win) |->
             IF i = 0 THEN [segments |-> <<>>, cursor |-> start, value |-> get_value_at_time(w, start)]
             ELSE IF Begins(win, i, res) THEN Overview(win, width, res, radix, read[i - 1], i) ELSE read[i - 1]]
  BY <1>5
<1> HIDE DEF read
<1>7. read[0] = b /\ \A i \in 1 .. n : read[i] = Turned(win, width, res, radix, read[i - 1], i)
  <2>1. 0 \in 0 .. n /\ \A i \in 1 .. n : i \in 0 .. n /\ i # 0
    OBVIOUS
  <2> QED
    BY <1>6, <2>1 DEF Turned, b, NoSegments
<1>8. \A i \in 0 .. n : read[i] \in J[i]
  <2>1. read[0] \in J[0]
    BY <1>3, <1>7
  <2>2. \A i \in 1 .. n : read[i - 1] \in J[i - 1] => read[i] \in J[i]
    BY <1>7
  <2> QED
    BY <2>1, <2>2, StepwiseIn
<1>9. n \in 0 .. n
  OBVIOUS
<1> QED
  BY <1>1, <1>8, <1>9

(* The same of the estimate.                                               *)
Guessed(win, res, acc, i) == IF Begins(win, i, res) THEN Estimate(win, res, acc, i) ELSE acc

LEMMA EstimatesIn ==
    ASSUME NEW win, NEW start, NEW res, NEW n \in Nat, n = Len(win),
           NEW S, NEW J \in [0 .. n -> SUBSET S], [count |-> 0, cursor |-> start] \in J[0],
           \A i \in 1 .. n : \A acc \in J[i - 1] : Guessed(win, res, acc, i) \in J[i]
    PROVE  Estimates(win, start, res)[n] \in J[n]
<1> DEFINE G == [x \in (1 .. n) \X S |-> Guessed(win, res, x[2], x[1])]
           b == [count |-> 0, cursor |-> start]
           read == CHOOSE f : f = [i \in 0 .. Len(win) |->
                     IF i = 0 THEN [count |-> 0, cursor |-> start]
                     ELSE IF Begins(win, i, res) THEN Estimate(win, res, f[i - 1], i) ELSE f[i - 1]]
<1>1. Estimates(win, start, res) = read
  BY DEF Estimates
<1>2. \A i \in 1 .. n : \A x \in J[i - 1] : G[<<i, x>>] = Guessed(win, res, x, i) /\ G[<<i, x>>] \in J[i]
  <2> SUFFICES ASSUME NEW i \in 1 .. n, NEW x \in J[i - 1]
               PROVE  G[<<i, x>>] = Guessed(win, res, x, i) /\ G[<<i, x>>] \in J[i]
    OBVIOUS
  <2>1. i - 1 \in 0 .. n /\ x \in S
    OBVIOUS
  <2>2. G[<<i, x>>] = Guessed(win, res, x, i)
    BY <2>1
  <2> HIDE DEF G
  <2> QED
    BY <2>2
<1> HIDE DEF G, b
<1>3. b \in J[0]
  BY DEF b
<1>4. PICK f : InSteps(f, n, b, G, J)
  BY <1>2, <1>3, StepsInside
<1>5. f = [i \in 0 .. Len(win) |->
             IF i = 0 THEN [count |-> 0, cursor |-> start]
             ELSE IF Begins(win, i, res) THEN Estimate(win, res, f[i - 1], i) ELSE f[i - 1]]
  <2>1. ASSUME NEW i \in 0 .. n, i # 0
        PROVE  G[<<i, f[i - 1]>>] = IF Begins(win, i, res) THEN Estimate(win, res, f[i - 1], i) ELSE f[i - 1]
    <3>1. i - 1 \in 0 .. n /\ i \in 1 .. n
      BY <2>1
    <3> QED
      BY <1>2, <1>4, <3>1 DEF InSteps, Guessed
  <2> QED
    BY <1>4, <2>1 DEF InSteps, b
<1>6. read = [i \in 0 .. Len(win) |->
             IF i = 0 THEN [count |-> 0, cursor |-> start]
             ELSE IF Begins(win, i, res) THEN Estimate(win, res, read[i - 1], i) ELSE read[i - 1]]
  BY <1>5
<1> HIDE DEF read
<1>7. read[0] = b /\ \A i \in 1 .. n : read[i] = Guessed(win, res, read[i - 1], i)
  <2>1. 0 \in 0 .. n /\ \A i \in 1 .. n : i \in 0 .. n /\ i # 0
    OBVIOUS
  <2> QED
    BY <1>6, <2>1 DEF Guessed, b
<1>8. \A i \in 0 .. n : read[i] \in J[i]
  <2>1. read[0] \in J[0]
    BY <1>3, <1>7
  <2>2. \A i \in 1 .. n : read[i - 1] \in J[i - 1] => read[i] \in J[i]
    BY <1>7
  <2> QED
    BY <2>1, <2>2, StepwiseIn
<1>9. n \in 0 .. n
  OBVIOUS
<1> QED
  BY <1>1, <1>8, <1>9

(* Where the cursor is behind the transitions 1..m, the end of a cluster:  *)
(* a burst at a single time ends behind that time.                         *)
Shift(win, res, m) == IF First(win, res, m) < m /\ win[First(win, res, m)].t = win[m].t THEN 1 ELSE 0
CursorAt(win, start, res, m) == IF m = 0 THEN start ELSE win[m].t + Shift(win, res, m)

(* The transitions of bursts; those that start a segment of their own.     *)
Bursts(win, res) ==
  {i \in DOMAIN win : ClusterEnd(win, i, res) > i \/ (i > 1 /\ win[i].t - win[i - 1].t < res)}
Marks(win, start, res) ==
  {i \in 1 .. Len(win) : IF Begins(win, i, res) THEN CursorAt(win, start, res, i - 1) < win[i].t
                         ELSE Begins(win, i - 1, res)}

LEMMA CursorIs ==
    ASSUME NEW win, NEW start, NEW end, InWindow(win, start, end), NEW res \in Int, res >= 1, NEW m \in 0 .. Len(win)
    PROVE  /\ CursorAt(win, start, res, m) \in Int
           /\ start <= CursorAt(win, start, res, m) /\ CursorAt(win, start, res, m) <= end + 1
           /\ m > 0 => /\ win[m].t <= CursorAt(win, start, res, m)
                       /\ CursorAt(win, start, res, m) <= win[m].t + 1
<1>1. Len(win) \in Nat /\ start \in Int /\ end \in Int /\ start <= end
  BY InWindowIs DEF InWindow
<1>2. Shift(win, res, m) \in {0, 1}
  BY DEF Shift
<1>3. CASE m = 0
  BY <1>1, <1>3 DEF CursorAt
<1>4. CASE m > 0
  <2>1. m \in 1 .. Len(win)
    BY <1>1, <1>4
  <2>2. win[m].t \in Int /\ start < win[m].t /\ win[m].t <= end
    BY <2>1, InWindowIs DEF InWindow
  <2> QED
    BY <1>1, <1>2, <1>4, <2>2 DEF CursorAt
<1> QED
  BY <1>1, <1>3, <1>4

LEMMA ClusterBegins ==
    ASSUME NEW win, NEW start, NEW end, InWindow(win, start, end), NEW res \in Int, res >= 1,
           NEW i \in 1 .. Len(win), Begins(win, i, res)
    PROVE  LET j == ClusterEnd(win, i, res)
           IN  /\ \A k \in i + 1 .. j : ~Begins(win, k, res) /\ win[k].t - win[k - 1].t < res
               /\ \A k \in i .. j : First(win, res, k) = i /\ EndOf(win, res, k) = j
               /\ CursorAt(win, start, res, j) = IF i < j /\ win[i].t = win[j].t THEN win[j].t + 1 ELSE win[j].t
               /\ CursorAt(win, start, res, i - 1) <= win[i].t
               /\ res >= 2 => CursorAt(win, start, res, i - 1) < win[i].t
<1> DEFINE j == ClusterEnd(win, i, res)
           J == [k \in 0 .. j - i |-> {x \in Int : x = i}]
           d == [k \in 0 .. j - i |-> First(win, res, i + k)]
<1>1. /\ j \in i .. Len(win) /\ j \in Nat /\ i \in Nat /\ i >= 1
      /\ win[i].t \in Int /\ win[j].t \in Int /\ start < win[i].t
      /\ i > 1 => i - 1 \in 1 .. Len(win) /\ win[i - 1].t \in Int /\ win[i].t >= win[i - 1].t + res
  BY GapsAre
<1>2. Len(win) \in Nat /\ start \in Int
  BY InWindowIs DEF InWindow
<1>3. \A k \in i .. j - 1 : win[k + 1].t - win[k].t < res
  BY ClusterIs
<1>4. EndOf(win, res, i) = j
  BY EndOfIs
<1> HIDE DEF j
<1>5. \A k \in i + 1 .. j : ~Begins(win, k, res) /\ win[k].t - win[k - 1].t < res
  <2> SUFFICES ASSUME NEW k \in i + 1 .. j PROVE ~Begins(win, k, res) /\ win[k].t - win[k - 1].t < res
    OBVIOUS
  <2>1. k - 1 \in i .. j - 1 /\ (k - 1) + 1 = k /\ k # 1 /\ k \in 1 .. Len(win) /\ k - 1 \in 1 .. Len(win)
    BY <1>1, <1>2
  <2>2. win[k].t \in Int /\ win[k - 1].t \in Int
    BY <2>1, InWindowIs
  <2>3. win[k].t - win[k - 1].t < res
    BY <1>3, <2>1
  <2> QED
    BY <2>1, <2>2, <2>3 DEF Begins
<1>6. \A k \in 0 .. j - i : d[k] \in J[k]
  <2>1. j - i \in Nat
    BY <1>1
  <2>2. d[0] \in J[0]
    <3>1. i + 0 = i /\ 0 \in 0 .. j - i
      BY <1>1
    <3>2. First(win, res, i) = i
      BY FirstIs
    <3> QED
      BY <1>1, <3>1, <3>2
  <2>3. ASSUME NEW k \in 1 .. j - i, d[k - 1] \in J[k - 1] PROVE d[k] \in J[k]
    <3>1. k - 1 \in 0 .. j - i /\ k \in 0 .. j - i /\ i + k \in i + 1 .. j /\ i + k \in 1 .. Len(win) /\ i + (k - 1) = (i + k) - 1
      BY <1>1, <1>2
    <3>2. d[k - 1] = First(win, res, (i + k) - 1) /\ d[k] = First(win, res, i + k)
      BY <3>1
    <3>3. J[k - 1] = {i} /\ J[k] = {i}
      <4>1. {x \in Int : x = i} = {i}
        BY <1>1
      <4>2. J[k - 1] = {x \in Int : x = i} /\ J[k] = {x \in Int : x = i}
        BY <3>1
      <4> QED
        BY <4>1, <4>2
    <3> HIDE DEF d, J
    <3>4. ~Begins(win, i + k, res)
      BY <1>5, <3>1
    <3> DEFINE x == i + k
    <3>5. x \in 1 .. Len(win) /\ ~Begins(win, x, res)
      BY <3>1, <3>4
    <3> HIDE DEF x
    <3>6. First(win, res, x) = First(win, res, x - 1)
      BY <3>5, FirstIs
    <3> QED
      BY <2>3, <3>2, <3>3, <3>6 DEF x
  <2> HIDE DEF d, J
  <2> QED
    BY <2>1, <2>2, <2>3, StepwiseIn
<1>7. \A k \in i .. j : First(win, res, k) = i
  <2> SUFFICES ASSUME NEW k \in i .. j PROVE First(win, res, k) = i
    OBVIOUS
  <2>1. k - i \in 0 .. j - i /\ i + (k - i) = k
    BY <1>1
  <2>2. d[k - i] = First(win, res, k) /\ J[k - i] = {i}
    BY <1>1, <2>1
  <2> HIDE DEF d, J
  <2> QED
    BY <1>6, <2>1, <2>2
<1>8. \A k \in i .. j : EndOf(win, res, k) = j
  <2> SUFFICES ASSUME NEW k \in i .. j PROVE EndOf(win, res, k) = j
    OBVIOUS
  <2>1. k # 0
    BY <1>1
  <2> QED
    BY <1>7, <2>1 DEF EndOf, j
<1>9. CursorAt(win, start, res, j) = IF i < j /\ win[i].t = win[j].t THEN win[j].t + 1 ELSE win[j].t
  <2>1. First(win, res, j) = i /\ j # 0
    BY <1>1, <1>7
  <2> QED
    BY <1>1, <2>1 DEF CursorAt, Shift
<1>10. /\ CursorAt(win, start, res, i - 1) <= win[i].t
       /\ res >= 2 => CursorAt(win, start, res, i - 1) < win[i].t
  <2>1. CASE i = 1
    BY <1>1, <1>2, <2>1 DEF CursorAt
  <2>2. CASE i > 1
    <3> DEFINE m == i - 1
    <3>1. m \in 1 .. Len(win) /\ m \in 0 .. Len(win) /\ m > 0 /\ win[m].t \in Int /\ win[i].t >= win[m].t + res
      BY <1>1, <2>2
    <3> HIDE DEF m
    <3>2. CursorAt(win, start, res, m) \in Int /\ CursorAt(win, start, res, m) <= win[m].t + 1
      BY <3>1, CursorIs
    <3>3. /\ CursorAt(win, start, res, m) <= win[i].t
          /\ res >= 2 => CursorAt(win, start, res, m) < win[i].t
      BY <1>1, <3>1, <3>2
    <3> QED
      BY <3>3 DEF m
  <2> QED
    BY <1>1, <2>1, <2>2
<1> QED
  BY <1>5, <1>7, <1>8, <1>9, <1>10 DEF j

(* A set of transitions grows cluster by cluster.                          *)
NumberIn(S, a, b) == Cardinality(S \cap (a .. b))
LEMMA PlacesAdd ==
    ASSUME NEW S, NEW i \in Nat, NEW j \in Nat, i >= 1, i <= j
    PROVE  /\ NumberIn(S, 1, j) = NumberIn(S, 1, i - 1) + NumberIn(S, i, j)
           /\ NumberIn(S, 1, j) \in Nat /\ NumberIn(S, 1, i - 1) \in Nat
           /\ NumberIn(S, i, j) \in Nat
<1> DEFINE A == S \cap (1 .. i - 1)
           B == S \cap (i .. j)
           C == S \cap (1 .. j)
<1>1. A \cup B = C /\ A \cap B = {}
  OBVIOUS
<1>2. IsFiniteSet(1 .. i - 1) /\ IsFiniteSet(i .. j) /\ IsFiniteSet(1 .. j)
  BY FS_Interval
<1>3. IsFiniteSet(A) /\ IsFiniteSet(B) /\ IsFiniteSet(C)
  BY <1>2, FS_Subset
<1> HIDE DEF A, B, C
<1>4. Cardinality(A) \in Nat /\ Cardinality(B) \in Nat /\ Cardinality(C) \in Nat
  BY <1>3, FS_CardinalityType
<1>5. Cardinality(A \cup B) = Cardinality(A) + Cardinality(B) - Cardinality(A \cap B)
  BY <1>3, FS_Union
<1>6. Cardinality({}) = 0
  BY FS_EmptySet
<1>7. Cardinality(C) = Cardinality(A) + Cardinality(B)
  <2>1. Cardinality(C) = Cardinality(A \cup B) /\ Cardinality(A \cap B) = 0
    BY <1>1, <1>6, Zenon
  <2> QED
    BY <1>4, <1>5, <2>1
<1> QED
  BY <1>3, <1>4, <1>7 DEF A, B, C, NumberIn

LEMMA BurstsGrow ==
    ASSUME NEW win, NEW start, NEW end, InWindow(win, start, end), NEW res \in Int, res >= 1,
           NEW i \in 1 .. Len(win), Begins(win, i, res)
    PROVE  LET j == ClusterEnd(win, i, res)
               B == Bursts(win, res)
           IN  /\ NumberIn(B, 1, j) = NumberIn(B, 1, i - 1) + (IF i < j THEN j - i + 1 ELSE 0)
               /\ NumberIn(B, 1, j) \in Nat /\ NumberIn(B, 1, i - 1) \in Nat
<1> DEFINE j == ClusterEnd(win, i, res)
           B == Bursts(win, res)
<1>1. /\ j \in i .. Len(win) /\ j \in Nat /\ i \in Nat /\ i >= 1 /\ Len(win) \in Nat /\ DOMAIN win = 1 .. Len(win)
  BY GapsAre, InWindowIs
<1>2. \A k \in i + 1 .. j : win[k].t - win[k - 1].t < res
  BY ClusterBegins
<1>3. \A x : x \in B <=> x \in 1 .. Len(win) /\ (ClusterEnd(win, x, res) > x \/ (x > 1 /\ win[x].t - win[x - 1].t < res))
  BY <1>1 DEF Bursts
<1>4. /\ NumberIn(B, 1, j) = NumberIn(B, 1, i - 1) + NumberIn(B, i, j)
      /\ NumberIn(B, 1, j) \in Nat /\ NumberIn(B, 1, i - 1) \in Nat
  <2> HIDE DEF j, B
  <2> QED
    BY <1>1, PlacesAdd
<1>5. ASSUME i < j PROVE B \cap (i .. j) = i .. j
  <2> SUFFICES ASSUME NEW x \in i .. j PROVE x \in B
    OBVIOUS
  <2>1. CASE x = i
    BY <1>1, <1>3, <1>5, <2>1
  <2>2. CASE x # i
    <3>1. x \in i + 1 .. j /\ x \in 1 .. Len(win) /\ x > 1
      BY <1>1, <2>2
    <3> QED
      BY <1>2, <1>3, <3>1
  <2> QED
    BY <2>1, <2>2
<1>6. ASSUME ~(i < j) PROVE B \cap (i .. j) = {}
  <2>1. i = j
    BY <1>1, <1>6
  <2>2. ~(i > 1 /\ win[i].t - win[i - 1].t < res)
    <3> SUFFICES ASSUME i > 1, win[i].t - win[i - 1].t < res PROVE FALSE
      OBVIOUS
    <3>1. win[i].t \in Int /\ win[i - 1].t \in Int /\ win[i].t >= win[i - 1].t + res
      BY GapsAre
    <3> QED
      BY <3>1
  <2>3. i \notin B
    BY <1>1, <1>3, <2>1, <2>2
  <2>4. \A x \in i .. j : x = i
    BY <1>1, <2>1
  <2> QED
    BY <2>3, <2>4
<1>7. Cardinality(i .. j) = j - i + 1 /\ Cardinality({}) = 0
  <2> HIDE DEF j
  <2>1. Cardinality(i .. j) = IF i > j THEN 0 ELSE j - i + 1
    BY <1>1, FS_Interval
  <2> QED
    BY <1>1, <2>1, FS_EmptySet
<1> HIDE DEF j, B
<1>8. NumberIn(B, i, j) = IF i < j THEN j - i + 1 ELSE 0
  BY <1>5, <1>6, <1>7, Zenon DEF NumberIn
<1> QED
  BY <1>4, <1>8 DEF j, B

LEMMA MarksGrow ==
    ASSUME NEW win, NEW start, NEW end, InWindow(win, start, end), NEW res \in Int, res >= 1,
           NEW i \in 1 .. Len(win), Begins(win, i, res)
    PROVE  LET j == ClusterEnd(win, i, res)
               M == Marks(win, start, res)
           IN  /\ NumberIn(M, 1, j)
                    = NumberIn(M, 1, i - 1) + (IF CursorAt(win, start, res, i - 1) < win[i].t THEN 1 ELSE 0)
                      + (IF i < j THEN 1 ELSE 0)
               /\ NumberIn(M, 1, j) \in Nat /\ NumberIn(M, 1, i - 1) \in Nat
<1> DEFINE j == ClusterEnd(win, i, res)
           M == Marks(win, start, res)
           leads == CursorAt(win, start, res, i - 1) < win[i].t
           A == IF leads THEN {i} ELSE {}
           B == IF i < j THEN {i + 1} ELSE {}
<1>1. /\ j \in i .. Len(win) /\ j \in Nat /\ i \in Nat /\ i >= 1 /\ Len(win) \in Nat
  <2>1. Len(win) \in Nat
    BY InWindowIs
  <2>2. j \in i .. Len(win) /\ j \in Nat /\ i \in Nat
    BY GapsAre
  <2> HIDE DEF j
  <2> QED
    BY <2>1, <2>2
<1>2. \A k \in i + 1 .. j : ~Begins(win, k, res)
  BY ClusterBegins
<1>3. \A x : x \in M <=> x \in 1 .. Len(win) /\ IF Begins(win, x, res) THEN CursorAt(win, start, res, x - 1) < win[x].t
                                                ELSE Begins(win, x - 1, res)
  BY DEF Marks
<1>4. /\ NumberIn(M, 1, j) = NumberIn(M, 1, i - 1) + NumberIn(M, i, j)
      /\ NumberIn(M, 1, j) \in Nat /\ NumberIn(M, 1, i - 1) \in Nat
  <2> HIDE DEF j, M
  <2> QED
    BY <1>1, PlacesAdd
<1>5. i \in M <=> leads
  BY <1>1, <1>3
<1>6. ASSUME NEW x \in i + 1 .. j PROVE x \in M <=> x = i + 1
  <2>1. ~Begins(win, x, res) /\ x \in 1 .. Len(win) /\ x - 1 \in i .. j
    BY <1>1, <1>2
  <2>2. x \in M <=> Begins(win, x - 1, res)
    BY <1>3, <2>1
  <2>3. CASE x = i + 1
    <3>1. x - 1 = i
      BY <1>1, <2>3
    <3> QED
      BY <2>2, <2>3, <3>1
  <2>4. CASE x # i + 1
    <3>1. x - 1 \in i + 1 .. j
      BY <1>1, <2>4
    <3>2. ~Begins(win, x - 1, res)
      BY <1>2, <3>1
    <3> QED
      BY <2>2, <2>4, <3>2
  <2> QED
    BY <2>3, <2>4
<1> HIDE DEF j, M, leads
<1>7. M \cap (i .. j) = A \cup B
  <2>1. \A x \in i .. j : x = i \/ x \in i + 1 .. j
    BY <1>1
  <2>2. i \in i .. j /\ (i < j => i + 1 \in i .. j /\ i + 1 \in i + 1 .. j) /\ \A x \in i + 1 .. j : x # i /\ x \in i .. j /\ i < j
    BY <1>1
  <2> QED
    BY <1>5, <1>6, <2>1, <2>2
<1>8. /\ IsFiniteSet(A) /\ Cardinality(A) = IF leads THEN 1 ELSE 0
      /\ IsFiniteSet(B) /\ Cardinality(B) = IF i < j THEN 1 ELSE 0
  BY FS_EmptySet, FS_Singleton
<1>9. A \cap B = {}
  BY <1>1
<1>10. Cardinality(A \cup B) = Cardinality(A) + Cardinality(B) - Cardinality(A \cap B)
  <2> HIDE DEF A, B
  <2> QED
    BY <1>8, FS_Union
<1>11. Cardinality({}) = 0
  BY FS_EmptySet
<1> HIDE DEF A, B
<1>12. NumberIn(M, i, j) = (IF leads THEN 1 ELSE 0) + (IF i < j THEN 1 ELSE 0)
  <2>1. NumberIn(M, i, j) = Cardinality(A \cup B) /\ Cardinality(A \cap B) = 0
    BY <1>7, <1>9, <1>11, Zenon DEF NumberIn
  <2> QED
    BY <1>8, <1>10, <2>1
<1>13. NumberIn(M, 1, j) = NumberIn(M, 1, i - 1) + (IF leads THEN 1 ELSE 0) + (IF i < j THEN 1 ELSE 0)
  BY <1>4, <1>12
<1> QED
  BY <1>4, <1>13 DEF j, M, leads

(* The sums of the transitions of the first k segments.                    *)
Totals(total, segs) ==
  /\ total[0] = 0 /\ \A k \in 0 .. Len(segs) : total[k] \in Nat
  /\ \A k \in 1 .. Len(segs) : total[k] = total[k - 1] + segs[k].transitions

LEMMA CountedIs ==
    ASSUME NEW segs, Len(segs) \in Nat, \A k \in 1 .. Len(segs) : segs[k].transitions \in Nat
    PROVE  \E total : Totals(total, segs) /\ Counted(segs) = total[Len(segs)]
<1> DEFINE n == Len(segs)
           G == [x \in (1 .. n) \X Nat |-> x[2] + segs[x[1]].transitions]
           J == [k \in 0 .. n |-> Nat]
           read == CHOOSE f : f = [k \in 0 .. n |-> IF k = 0 THEN 0 ELSE f[k - 1] + segs[k].transitions]
<1>1. J \in [0 .. n -> SUBSET Nat] /\ 0 \in J[0] /\ n \in Nat
  OBVIOUS
<1>2. \A k \in 1 .. n : \A x \in J[k - 1] : G[<<k, x>>] = x + segs[k].transitions /\ G[<<k, x>>] \in J[k]
  <2> SUFFICES ASSUME NEW k \in 1 .. n, NEW x \in J[k - 1]
               PROVE  G[<<k, x>>] = x + segs[k].transitions /\ G[<<k, x>>] \in J[k]
    OBVIOUS
  <2>1. k - 1 \in 0 .. n /\ k \in 0 .. n /\ x \in Nat /\ J[k] = Nat /\ segs[k].transitions \in Nat
    OBVIOUS
  <2>2. G[<<k, x>>] = x + segs[k].transitions
    BY <2>1
  <2> HIDE DEF G, J
  <2> QED
    BY <2>1, <2>2
<1>3. \A k \in 0 .. n : J[k] = Nat
  OBVIOUS
<1> HIDE DEF G, J
<1>4. PICK f : InSteps(f, n, 0, G, J)
  BY <1>1, <1>2, StepsInside
<1>5. f = [k \in 0 .. n |-> IF k = 0 THEN 0 ELSE f[k - 1] + segs[k].transitions]
  <2>1. ASSUME NEW k \in 0 .. n, k # 0 PROVE G[<<k, f[k - 1]>>] = f[k - 1] + segs[k].transitions
    <3>1. k - 1 \in 0 .. n /\ k \in 1 .. n
      BY <2>1
    <3> QED
      BY <1>2, <1>4, <3>1 DEF InSteps
  <2> QED
    BY <1>4, <2>1 DEF InSteps
<1>6. read = [k \in 0 .. n |-> IF k = 0 THEN 0 ELSE read[k - 1] + segs[k].transitions]
  BY <1>5
<1>7. Counted(segs) = read[n]
  BY DEF Counted
<1> HIDE DEF read, n
<1>8. read[0] = 0 /\ \A k \in 1 .. n : read[k] = read[k - 1] + segs[k].transitions
  <2>1. 0 \in 0 .. n /\ \A k \in 1 .. n : k \in 0 .. n /\ k # 0
    BY <1>1
  <2> QED
    BY <1>6, <2>1
<1>9. \A k \in 0 .. n : read[k] \in J[k]
  <2>1. read[0] \in J[0]
    BY <1>1, <1>8
  <2>2. \A k \in 1 .. n : read[k - 1] \in J[k - 1] => read[k] \in J[k]
    BY <1>2, <1>8
  <2> QED
    BY <1>1, <2>1, <2>2, StepwiseIn
<1> QED
  BY <1>3, <1>7, <1>8, <1>9 DEF Totals, n

(* Lists that begin with the same numbers of transitions.                  *)
LEMMA TotalsAgree ==
    ASSUME NEW s, NEW r, NEW m \in Nat, m <= Len(s), m <= Len(r), Len(s) \in Nat, Len(r) \in Nat,
           NEW f, Totals(f, s), NEW g, Totals(g, r),
           \A k \in 1 .. m : s[k].transitions = r[k].transitions
    PROVE  f[m] = g[m]
<1> DEFINE J == [k \in 0 .. m |-> {g[k]}]
<1>1. f[0] \in J[0]
  BY DEF Totals
<1>2. ASSUME NEW k \in 1 .. m, f[k - 1] \in J[k - 1] PROVE f[k] \in J[k]
  <2>1. k \in 1 .. Len(s) /\ k \in 1 .. Len(r) /\ k - 1 \in 0 .. m /\ k \in 0 .. m
    OBVIOUS
  <2>2. f[k - 1] = g[k - 1]
    BY <1>2, <2>1
  <2>3. f[k] = f[k - 1] + s[k].transitions /\ g[k] = g[k - 1] + r[k].transitions
    BY <2>1 DEF Totals
  <2> QED
    BY <2>1, <2>2, <2>3
<1>3. \A k \in 0 .. m : f[k] \in J[k]
  <2> HIDE DEF J
  <2> QED
    BY <1>1, <1>2, StepwiseIn
<1>4. m \in 0 .. m
  OBVIOUS
<1> QED
  BY <1>3, <1>4

LEMMA CountedSame ==
    ASSUME NEW s, NEW r, Len(s) \in Nat, Len(r) = Len(s), \A k \in 1 .. Len(s) : s[k].transitions \in Nat,
           \A k \in 1 .. Len(s) : s[k].transitions = r[k].transitions
    PROVE  Counted(s) = Counted(r) /\ Counted(s) \in Nat
<1>1. PICK f : Totals(f, s) /\ Counted(s) = f[Len(s)]
  BY CountedIs
<1>2. PICK g : Totals(g, r) /\ Counted(r) = g[Len(r)]
  BY CountedIs
<1>3. f[Len(s)] = g[Len(s)]
  BY <1>1, <1>2, TotalsAgree
<1> QED
  BY <1>1, <1>2, <1>3 DEF Totals

LEMMA CountedMore ==
    ASSUME NEW s, NEW r, Len(s) \in Nat, Len(r) = Len(s) + 1, \A k \in 1 .. Len(s) : s[k].transitions \in Nat,
           \A k \in 1 .. Len(s) : s[k].transitions = r[k].transitions, r[Len(s) + 1].transitions \in Nat
    PROVE  Counted(r) = Counted(s) + r[Len(s) + 1].transitions /\ Counted(s) \in Nat
<1> DEFINE n == Len(s)
<1>1. PICK f : Totals(f, s) /\ Counted(s) = f[n]
  BY CountedIs
<1>2. PICK g : Totals(g, r) /\ Counted(r) = g[n + 1]
  <2>1. \A k \in 1 .. Len(r) : k \in 1 .. n \/ k = n + 1
    OBVIOUS
  <2>2. \A k \in 1 .. Len(r) : r[k].transitions \in Nat
    BY <2>1
  <2> QED
    BY <2>2, CountedIs
<1>3. f[n] = g[n]
  BY <1>1, <1>2, TotalsAgree
<1>4. n + 1 \in 1 .. Len(r) /\ (n + 1) - 1 = n
  OBVIOUS
<1>5. g[n + 1] = g[n] + r[n + 1].transitions
  BY <1>2, <1>4 DEF Totals
<1> QED
  BY <1>1, <1>2, <1>3, <1>5 DEF Totals

LEMMA AppendCounts ==
    ASSUME NEW looks, NEW segs \in Seq(Segments(looks)), NEW next \in Segments(looks)
    PROVE  LET r == append_overview_segment(segs, next)
           IN  /\ Counted(segs) \in Nat
               /\ next.transitions = 0 => Counted(r) = Counted(segs)
               /\ next.start <= next.end /\ (Len(segs) > 0 => segs[Len(segs)].state # next.state) =>
                    Counted(r) = Counted(segs) + next.transitions
               /\ next.start <= next.end => Len(r) > 0 /\ r[Len(r)].state = next.state
               /\ Len(r) <= Len(segs) + (IF next.start <= next.end THEN 1 ELSE 0)
<1> DEFINE n == Len(segs)
           r == append_overview_segment(segs, next)
<1>1. n \in Nat /\ \A k \in 1 .. n : segs[k].transitions \in Nat
  BY SegmentIs
<1>2. next.transitions \in Nat /\ next.start \in Int /\ next.end \in Int
  BY DEF Segments
<1>3. /\ r \in Seq(Segments(looks))
      /\ next.start > next.end => r = segs
      /\ next.start <= next.end => Widened(r, segs, next) \/ Added(r, segs, next)
  BY AppendIs
<1>4. Counted(segs) \in Nat
  BY <1>1, CountedSame
<1> HIDE DEF r
<1>5. CASE next.start > next.end
  <2>1. r = segs /\ ~(next.start <= next.end)
    BY <1>2, <1>3, <1>5
  <2> QED
    BY <1>1, <1>4, <2>1 DEF r
<1>6. CASE next.start <= next.end /\ Widened(r, segs, next)
  <2>1. /\ n > 0 /\ Len(r) = n /\ \A k \in 1 .. n - 1 : r[k] = segs[k]
        /\ segs[n].state = next.state /\ r[n].state = next.state
        /\ segs[n].transitions = next.transitions /\ r[n].transitions = next.transitions
    BY <1>6 DEF Widened, same_overview_segment_shape
  <2>2. \A k \in 1 .. n : segs[k].transitions = r[k].transitions
    <3>1. \A k \in 1 .. n : k \in 1 .. n - 1 \/ k = n
      BY <1>1
    <3> QED
      BY <2>1, <3>1
  <2>3. Counted(segs) = Counted(r)
    BY <1>1, <2>1, <2>2, CountedSame
  <2> QED
    BY <1>1, <1>4, <1>6, <2>1, <2>3 DEF r
<1>7. CASE next.start <= next.end /\ Added(r, segs, next)
  <2>1. Len(r) = n + 1 /\ r[n + 1] = next /\ \A k \in 1 .. n : r[k] = segs[k]
    BY <1>7 DEF Added
  <2>2. Counted(r) = Counted(segs) + r[n + 1].transitions
    BY <1>1, <1>2, <2>1, CountedMore
  <2> QED
    BY <1>1, <1>2, <1>4, <1>7, <2>1, <2>2 DEF r
<1> QED
  BY <1>2, <1>3, <1>5, <1>6, <1>7

(* What holds when the first e transitions of a window are summarised, e   *)
(* being the last one of a cluster.                                        *)
Summarised(w, win, width, start, res, radix, acc, e) ==
  /\ acc.cursor = CursorAt(win, start, res, e)
  /\ acc.value = IF e = 0 THEN get_value_at_time(w, start) ELSE win[e].v
  /\ Tiled(acc.segments, start, acc.cursor) /\ Truthful(w, width, radix, acc.segments)
  /\ Len(acc.segments) <= NumberIn(Marks(win, start, res), 1, e)
  /\ res >= 2 => Counted(acc.segments) = NumberIn(Bursts(win, res), 1, e)

(* The value that is kept is that of every time up to the next transition. *)
LEMMA KeptValue ==
    ASSUME NEW w, Wave(w), NEW start \in Int, NEW end \in Int, start <= end,
           NEW win, win = get_window_transitions(w, start, end), NEW res \in Int, res >= 1,
           NEW e \in 0 .. Len(win), NEW t \in Int,
           CursorAt(win, start, res, e) <= t, t <= end, e < Len(win) => t < win[e + 1].t
    PROVE  get_value_at_time(w, t) = IF e = 0 THEN get_value_at_time(w, start) ELSE win[e].v
<1>1. InWindow(win, start, end)
  BY WindowOf
<1>2. /\ CursorAt(win, start, res, e) \in Int /\ start <= CursorAt(win, start, res, e)
      /\ e > 0 => win[e].t <= CursorAt(win, start, res, e)
  BY <1>1, CursorIs
<1>3. e > 0 => win[e].t \in Int
  <2> SUFFICES ASSUME e > 0 PROVE win[e].t \in Int
    OBVIOUS
  <2>1. e \in 1 .. Len(win)
    BY <1>1, InWindowIs
  <2> QED
    BY <1>1, <2>1, InWindowIs
<1>4. t \in start .. end /\ (e > 0 => win[e].t <= t)
  BY <1>2, <1>3
<1> QED
  BY <1>4, ValueBetween

LEMMA SummaryStep ==
    ASSUME NEW w, Wave(w), NEW start \in Int, NEW end \in Int, start <= end,
           NEW win, win = get_window_transitions(w, start, end), NEW res \in Int, res >= 1,
           NEW width, NEW radix, NEW values, \A k \in 1 .. Len(win) : win[k].v \in values,
           NEW i \in 1 .. Len(win), Begins(win, i, res),
           NEW acc \in Accounts(values, LooksOf(width, values, radix)),
           Summarised(w, win, width, start, res, radix, acc, i - 1)
    PROVE  /\ Overview(win, width, res, radix, acc, i) \in Accounts(values, LooksOf(width, values, radix))
           /\ Summarised(w, win, width, start, res, radix, Overview(win, width, res, radix, acc, i),
                         ClusterEnd(win, i, res))
<1> DEFINE looks == LooksOf(width, values, radix)
           j == ClusterEnd(win, i, res)
           stable == Stable(width, acc.cursor, win[i].t - 1, acc.value, radix)
           before == Before(win, width, radix, acc, i)
           burst == Burst(win, width, acc, i, j)
           next == Overview(win, width, res, radix, acc, i)
           c == CursorAt(win, start, res, i - 1)
           B == Bursts(win, res)
           M == Marks(win, start, res)
           old == acc.segments
           new == next.segments
           u == win[i].t
           v == win[j].t
<1>1. InWindow(win, start, end)
  BY WindowOf
<1>2. TurnTells(win, width, radix, values, acc, i, j, stable, before, burst, next)
  BY <1>1, TurnIs
<1>3. /\ j \in i .. Len(win) /\ j \in Nat /\ i \in Nat /\ i >= 1 /\ Len(win) \in Nat
      /\ u \in Int /\ v \in Int /\ u <= v /\ u <= end
  <2>1. Len(win) \in Nat
    BY <1>1, InWindowIs
  <2>2. /\ j \in i .. Len(win) /\ j \in Nat /\ i \in Nat
        /\ u \in Int /\ v \in Int /\ u <= v /\ v <= end
    BY <1>1, GapsAre
  <2> HIDE DEF j, u, v
  <2> QED
    BY <2>1, <2>2
<1>4. /\ CursorAt(win, start, res, j) = (IF i < j /\ u = v THEN v + 1 ELSE v)
      /\ c <= u /\ (res >= 2 => c < u)
  BY <1>1, ClusterBegins
<1>5. c \in Int /\ start <= c
  <2> DEFINE m == i - 1
  <2>1. m \in 0 .. Len(win)
    BY <1>3
  <2> HIDE DEF m
  <2>2. CursorAt(win, start, res, m) \in Int /\ start <= CursorAt(win, start, res, m)
    BY <1>1, <2>1, CursorIs
  <2> QED
    BY <2>2 DEF m
<1>6. /\ acc.cursor = c /\ Tiled(old, start, c) /\ Truthful(w, width, radix, old)
      /\ Len(old) <= NumberIn(M, 1, i - 1)
      /\ res >= 2 => Counted(old) = NumberIn(B, 1, i - 1)
      /\ acc.value = (IF i - 1 = 0 THEN get_value_at_time(w, start) ELSE win[i - 1].v)
  BY DEF Summarised
<1>7. /\ NumberIn(B, 1, j) = NumberIn(B, 1, i - 1) + (IF i < j THEN j - i + 1 ELSE 0)
      /\ NumberIn(B, 1, i - 1) \in Nat
  BY <1>1, BurstsGrow
<1>8. /\ NumberIn(M, 1, j) = NumberIn(M, 1, i - 1) + (IF c < u THEN 1 ELSE 0) + (IF i < j THEN 1 ELSE 0)
      /\ NumberIn(M, 1, i - 1) \in Nat
  BY <1>1, MarksGrow
<1>9. old \in Seq(Segments(looks))
  BY DEF Accounts
<1> HIDE DEF next, before, burst, j, looks, stable, B, M, c, u, v, old, new
<1>10. next \in Accounts(values, looks) /\ before \in Seq(Segments(looks))
  BY <1>2 DEF TurnTells, looks
<1>11. /\ stable \in Segments(looks) /\ stable.start = c /\ stable.end = u - 1
       /\ stable.state = "stable" /\ stable.value = Looks(width, acc.value, radix) /\ stable.transitions = 0
  BY <1>2, <1>6 DEF TurnTells, looks, u
<1>12. /\ burst \in Segments(looks) /\ burst.start = u /\ burst.state = "flipping"
       /\ burst.transitions = j - i + 1
  BY <1>2 DEF TurnTells, looks, u
<1>13. before = append_overview_segment(old, stable) /\ next.value = win[j].v
  BY <1>2 DEF TurnTells, old
<1>14. i = j => new = before /\ next.cursor = u
  BY <1>2 DEF TurnTells, new, u
<1>15. i < j => /\ new = append_overview_segment(before, burst)
                /\ next.cursor = burst.end + 1 /\ burst.end \in Int /\ u <= burst.end
                /\ next.cursor = IF u = v THEN v + 1 ELSE v
  BY <1>2 DEF TurnTells, new, u, v
<1>16. new \in Seq(Segments(looks))
  BY <1>10 DEF Accounts, new
<1>17. Len(old) \in Nat /\ Len(before) \in Nat /\ Len(new) \in Nat
  BY <1>9, <1>10, <1>16, SegmentIs
<1>18. \A t \in stable.start .. stable.end : Looks(width, get_value_at_time(w, t), radix) = stable.value
  <2> SUFFICES ASSUME NEW t \in c .. u - 1
               PROVE  get_value_at_time(w, t) = acc.value
    BY <1>11
  <2> DEFINE m == i - 1
  <2>1. t \in Int /\ c <= t /\ t < u /\ t <= end /\ m \in 0 .. Len(win) /\ m + 1 = i
    BY <1>3, <1>5
  <2>2. CursorAt(win, start, res, m) <= t /\ (m < Len(win) => t < win[m + 1].t)
    BY <2>1 DEF c, u
  <2>3. acc.value = IF m = 0 THEN get_value_at_time(w, start) ELSE win[m].v
    BY <1>6
  <2> HIDE DEF m
  <2>4. get_value_at_time(w, t) = IF m = 0 THEN get_value_at_time(w, start) ELSE win[m].v
    BY <2>1, <2>2, KeptValue
  <2> QED
    BY <2>3, <2>4
<1>19. Tiled(before, start, u)
  <2>1. Tiled(old, start, stable.start) /\ stable.start <= stable.end + 1 /\ stable.end + 1 = u
    BY <1>3, <1>4, <1>5, <1>6, <1>11
  <2>2. Tiled(append_overview_segment(old, stable), start, stable.end + 1)
    BY <1>9, <1>11, <2>1, AppendTiles
  <2> QED
    BY <1>13, <2>1, <2>2
<1>20. Truthful(w, width, radix, before)
  <2>1. Truthful(w, width, radix, append_overview_segment(old, stable))
    BY <1>6, <1>9, <1>11, <1>18, AppendTruthful
  <2> QED
    BY <1>13, <2>1
<1>21. /\ Counted(before) = Counted(old) /\ Counted(old) \in Nat
       /\ c < u => Len(before) > 0 /\ before[Len(before)].state = "stable"
       /\ Len(before) <= Len(old) + (IF c < u THEN 1 ELSE 0)
  <2>1. /\ Counted(old) \in Nat
        /\ Counted(append_overview_segment(old, stable)) = Counted(old)
    BY <1>9, <1>11, AppendCounts
  <2>2. /\ stable.start <= stable.end =>
             /\ Len(append_overview_segment(old, stable)) > 0
             /\ append_overview_segment(old, stable)[Len(append_overview_segment(old, stable))].state
                  = stable.state
        /\ Len(append_overview_segment(old, stable))
             <= Len(old) + (IF stable.start <= stable.end THEN 1 ELSE 0)
    BY <1>9, <1>11, AppendCounts
  <2>3. stable.start <= stable.end <=> c < u
    BY <1>3, <1>5, <1>11
  <2> QED
    BY <1>11, <1>13, <2>1, <2>2, <2>3
<1>22. next.value = IF j = 0 THEN get_value_at_time(w, start) ELSE win[j].v
  BY <1>3, <1>13
<1>23. SUFFICES /\ Tiled(new, start, next.cursor) /\ Truthful(w, width, radix, new)
                /\ Len(new) <= NumberIn(M, 1, j)
                /\ res >= 2 => Counted(new) = NumberIn(B, 1, j)
                /\ next.cursor = CursorAt(win, start, res, j)
  <2>1. Summarised(w, win, width, start, res, radix, next, j)
    BY <1>22, <1>23 DEF Summarised, B, M, new
  <2> QED
    BY <1>10, <2>1 DEF next, j, looks
<1>24. CASE i = j
  <2>1. new = before /\ next.cursor = CursorAt(win, start, res, j) /\ next.cursor = u
    BY <1>4, <1>14, <1>24 DEF u, v
  <2>2. Len(new) <= NumberIn(M, 1, j)
    BY <1>3, <1>6, <1>8, <1>17, <1>21, <1>24, <2>1
  <2>3. res >= 2 => Counted(new) = NumberIn(B, 1, j)
    BY <1>3, <1>6, <1>7, <1>21, <1>24, <2>1
  <2> QED
    BY <1>19, <1>20, <2>1, <2>2, <2>3
<1>25. CASE i < j
  <2>1. /\ new = append_overview_segment(before, burst)
        /\ next.cursor = CursorAt(win, start, res, j) /\ next.cursor = burst.end + 1
        /\ burst.start = u /\ burst.start <= burst.end /\ burst.end \in Int
    BY <1>4, <1>12, <1>15, <1>25
  <2>2. Tiled(new, start, next.cursor)
    <3>1. burst.start <= burst.end + 1 /\ Tiled(before, start, burst.start)
      BY <1>3, <1>19, <2>1
    <3>2. Tiled(append_overview_segment(before, burst), start, burst.end + 1)
      BY <1>10, <1>12, <3>1, AppendTiles
    <3> QED
      BY <2>1, <3>2
  <2>3. Truthful(w, width, radix, new)
    <3>1. burst.state # "stable"
      BY <1>12
    <3>2. Truthful(w, width, radix, append_overview_segment(before, burst))
      BY <1>10, <1>12, <1>20, <3>1, AppendTruthful
    <3> QED
      BY <2>1, <3>2
  <2>4. /\ burst.start <= burst.end /\ (Len(before) > 0 => before[Len(before)].state # burst.state) =>
             Counted(append_overview_segment(before, burst)) = Counted(before) + burst.transitions
        /\ Len(append_overview_segment(before, burst)) <= Len(before) + (IF burst.start <= burst.end THEN 1 ELSE 0)
    BY <1>10, <1>12, AppendCounts
  <2>5. Len(new) <= NumberIn(M, 1, j)
    <3>1. Len(new) <= Len(before) + 1
      BY <1>17, <2>1, <2>4
    <3> QED
      BY <1>3, <1>6, <1>8, <1>17, <1>21, <1>25, <3>1
  <2>6. ASSUME res >= 2 PROVE Counted(new) = NumberIn(B, 1, j)
    <3>1. before[Len(before)].state # burst.state
      BY <1>4, <1>12, <1>21, <2>6
    <3>2. Counted(new) = Counted(before) + (j - i + 1)
      BY <1>12, <2>1, <2>4, <3>1
    <3> QED
      BY <1>3, <1>6, <1>7, <1>21, <1>25, <2>6, <3>2
  <2> QED
    BY <2>1, <2>2, <2>3, <2>5, <2>6
<1> QED
  BY <1>3, <1>24, <1>25

LEMMA NothingSummarised ==
    ASSUME NEW w, NEW start \in Int, NEW win, NEW width, NEW radix, NEW res, NEW end
    PROVE  /\ NoSegments(w, start) \in Accounts(ValuesIn(w, start, end), LooksOf(width, ValuesIn(w, start, end), radix))
           /\ Summarised(w, win, width, start, res, radix, NoSegments(w, start), 0)
<1> DEFINE acc == NoSegments(w, start)
           v == get_value_at_time(w, start)
           looks == LooksOf(width, ValuesIn(w, start, end), radix)
           M == Marks(win, start, res)
           B == Bursts(win, res)
<1>1. v \in ValuesIn(w, start, end)
  BY DEF ValuesIn
<1>2. acc = [segments |-> <<>>, cursor |-> start, value |-> v]
  BY DEF NoSegments
<1>3. NumberIn(M, 1, 0) = 0 /\ NumberIn(B, 1, 0) = 0
  <2>1. M \cap (1 .. 0) = {} /\ B \cap (1 .. 0) = {}
    <3> HIDE DEF M, B
    <3> QED
      OBVIOUS
  <2>2. Cardinality({}) = 0
    BY FS_EmptySet
  <2>3. Cardinality(M \cap (1 .. 0)) = 0 /\ Cardinality(B \cap (1 .. 0)) = 0
    BY <2>1, <2>2, Zenon
  <2> QED
    BY <2>3 DEF NumberIn
<1>4. Counted(<<>>) = 0
  <2>1. Len(<<>>) = 0
    OBVIOUS
  <2>2. \E total : Totals(total, <<>>) /\ Counted(<<>>) = total[Len(<<>>)]
    BY CountedIs
  <2> QED
    BY <2>1, <2>2 DEF Totals
<1>5. Tiled(<<>>, start, start) /\ Truthful(w, width, radix, <<>>) /\ Len(<<>>) = 0
  BY DEF Tiled, Truthful
<1> HIDE DEF v, looks
<1>6. acc.segments = <<>> /\ acc.cursor = start /\ acc.value = v /\ <<>> \in Seq(Segments(looks))
  BY <1>2
<1>7. acc \in Accounts(ValuesIn(w, start, end), looks)
  BY <1>1, <1>2, <1>6 DEF Accounts
<1>8. CursorAt(win, start, res, 0) = start
  BY DEF CursorAt
<1> HIDE DEF acc
<1>9. Summarised(w, win, width, start, res, radix, acc, 0)
  BY <1>3, <1>4, <1>5, <1>6, <1>8 DEF Summarised, v
<1> QED
  BY <1>7, <1>9 DEF acc, looks

(* After the loop, the whole window is summarised up to the cursor.        *)
LEMMA AllSummarised ==
    ASSUME NEW w, Wave(w), NEW start \in Int, NEW end \in Int, start <= end,
           NEW win, win = get_window_transitions(w, start, end), NEW res \in Int, res >= 1,
           NEW width, NEW radix
    PROVE  LET all == Overviews(w, width, start, end, res, radix)[Len(win)]
           IN  /\ all \in Accounts(ValuesIn(w, start, end), LooksOf(width, ValuesIn(w, start, end), radix))
               /\ Summarised(w, win, width, start, res, radix, all, Len(win))
<1> DEFINE values == ValuesIn(w, start, end)
           S == Accounts(values, LooksOf(width, values, radix))
           n == Len(win)
           Kept(acc, e) == Summarised(w, win, width, start, res, radix, acc, e)
           J == [i \in 0 .. n |-> {acc \in S : Kept(acc, EndOf(win, res, i))}]
<1>1. InWindow(win, start, end)
  BY WindowOf
<1>2. n \in Nat
  BY <1>1, InWindowIs
<1>3. \A k \in 1 .. n : win[k].v \in values
  BY DEF ValuesIn
<1>4. NoSegments(w, start) \in S /\ Kept(NoSegments(w, start), 0)
  BY NothingSummarised
<1>5. \A i \in 1 .. n : \A acc \in S : Begins(win, i, res) /\ Kept(acc, i - 1) =>
        /\ Overview(win, width, res, radix, acc, i) \in S
        /\ Kept(Overview(win, width, res, radix, acc, i), ClusterEnd(win, i, res))
  BY <1>3, SummaryStep
<1>6. EndOf(win, res, 0) = 0
  BY DEF EndOf
<1>7. EndOf(win, res, n) = n
  <2>1. CASE n = 0
    BY <1>6, <2>1
  <2>2. CASE n # 0
    <3>1. n \in 1 .. Len(win)
      BY <1>2, <2>2
    <3>2. EndOf(win, res, n) \in n .. n
      BY <1>1, <3>1, EndOfIs
    <3> HIDE DEF n
    <3> QED
      BY <1>2, <3>2
  <2> QED
    BY <2>1, <2>2
<1>8. \A i \in 1 .. n : /\ Begins(win, i, res) => EndOf(win, res, i - 1) = i - 1
                                              /\ EndOf(win, res, i) = ClusterEnd(win, i, res)
                        /\ ~Begins(win, i, res) => EndOf(win, res, i) = EndOf(win, res, i - 1)
  BY <1>1, EndOfIs
<1> HIDE DEF S, Kept, values
<1>9. /\ J \in [0 .. n -> SUBSET S]
      /\ \A i \in 0 .. n : J[i] = {acc \in S : Kept(acc, EndOf(win, res, i))}
  OBVIOUS
<1>10. NoSegments(w, start) \in J[0]
  BY <1>2, <1>4, <1>6, <1>9
<1> HIDE DEF J
<1>11. ASSUME NEW i \in 1 .. n, NEW acc \in J[i - 1]
       PROVE  Turned(win, width, res, radix, acc, i) \in J[i]
  <2>0. i \in 0 .. n /\ i - 1 \in 0 .. n
    BY <1>2
  <2>1. acc \in S /\ Kept(acc, EndOf(win, res, i - 1))
    BY <1>9, <2>0
  <2>2. CASE Begins(win, i, res)
    <3>1. Turned(win, width, res, radix, acc, i) = Overview(win, width, res, radix, acc, i)
      BY <2>2 DEF Turned
    <3> DEFINE next == Overview(win, width, res, radix, acc, i)
    <3> HIDE DEF next
    <3>2. next \in S /\ Kept(next, EndOf(win, res, i))
      BY <1>5, <1>8, <2>1, <2>2 DEF next
    <3> QED
      BY <1>9, <2>0, <3>1, <3>2 DEF next
  <2>3. CASE ~Begins(win, i, res)
    <3>1. Turned(win, width, res, radix, acc, i) = acc
      BY <2>3 DEF Turned
    <3>2. Kept(acc, EndOf(win, res, i))
      BY <1>8, <2>1, <2>3
    <3> QED
      BY <1>9, <2>0, <2>1, <3>1, <3>2
  <2> QED
    BY <2>2, <2>3
<1>12. Overviews(w, width, start, end, res, radix)[n] \in J[n]
  BY <1>2, <1>9, <1>10, <1>11, OverviewsIn
<1>13. J[n] = {acc \in S : Kept(acc, n)}
  BY <1>2, <1>7, <1>9
<1>14. Overviews(w, width, start, end, res, radix)[n] \in S /\ Kept(Overviews(w, width, start, end, res, radix)[n], n)
  BY <1>12, <1>13
<1> QED
  BY <1>14 DEF S, Kept, values

LEMMA AllPlaces ==
    ASSUME NEW S, NEW n \in Nat, S \subseteq 1 .. n
    PROVE  NumberIn(S, 1, n) = Cardinality(S) /\ Cardinality(S) \in Nat
<1>1. S \cap (1 .. n) = S
  OBVIOUS
<1>2. Cardinality(S \cap (1 .. n)) = Cardinality(S)
  BY <1>1, Zenon
<1>3. NumberIn(S, 1, n) = Cardinality(S)
  BY <1>2 DEF NumberIn
<1>4. IsFiniteSet(1 .. n)
  BY FS_Interval
<1>5. IsFiniteSet(S)
  BY <1>4, FS_Subset
<1>6. Cardinality(S) \in Nat
  BY <1>5, FS_CardinalityType
<1> QED
  BY <1>3, <1>6

LEMMA AnyStable ==
    ASSUME NEW width, NEW radix, NEW values, NEW end \in Int
    PROVE  \A x \in Int, u \in values :
             LET g == Stable(width, x, end, u, radix)
             IN  /\ g \in Segments(LooksOf(width, values, radix)) /\ g.start = x /\ g.end = end
                 /\ g.state = "stable" /\ g.value = Looks(width, u, radix) /\ g.transitions = 0
<1> TAKE x \in Int, u \in values
<1> DEFINE g == Stable(width, x, end, u, radix)
<1>1. /\ g \in Segments(LooksOf(width, values, radix))
      /\ g.start = x /\ g.end = end /\ g.transitions = 0 /\ g.state = "stable" /\ g.value = Looks(width, u, radix)
  BY StableIs
<1> HIDE DEF g
<1>2. /\ g \in Segments(LooksOf(width, values, radix)) /\ g.start = x /\ g.end = end
      /\ g.state = "stable" /\ g.value = Looks(width, u, radix) /\ g.transitions = 0
  BY <1>1
<1> QED
  BY <1>2 DEF g

(* The overview: what was summarised, and the v behind the last        *)
(* cluster.                                                                *)
LEMMA OverviewIs ==
    ASSUME NEW w, Wave(w), NEW start \in Int, NEW end \in Int, start <= end,
           NEW win, win = get_window_transitions(w, start, end), NEW res \in Int, res >= 1,
           NEW width, NEW radix
    PROVE  LET segs == build_signal_overview_segments(w, width, start, end, res, radix)
           IN  /\ segs \in Seq(Segments(LooksOf(width, ValuesIn(w, start, end), radix)))
               /\ Tiled(segs, start, end + 1) /\ Truthful(w, width, radix, segs)
               /\ res >= 2 => Counted(segs) = Cardinality(Bursts(win, res))
               /\ Len(segs) <= Cardinality(Marks(win, start, res))
                                + (IF CursorAt(win, start, res, Len(win)) <= end THEN 1 ELSE 0)
<1> DEFINE values == ValuesIn(w, start, end)
           looks == LooksOf(width, values, radix)
           n == Len(win)
           all == Overviews(w, width, start, end, res, radix)[n]
           stable == Stable(width, all.cursor, end, all.value, radix)
           segs == build_signal_overview_segments(w, width, start, end, res, radix)
           old == all.segments
           c == CursorAt(win, start, res, n)
           B == Bursts(win, res)
           M == Marks(win, start, res)
<1>1. InWindow(win, start, end)
  BY WindowOf
<1>0. \A x \in Int, u \in values :
        LET g == Stable(width, x, end, u, radix)
        IN  /\ g \in Segments(looks) /\ g.start = x /\ g.end = end
            /\ g.state = "stable" /\ g.value = Looks(width, u, radix) /\ g.transitions = 0
  BY AnyStable
<1>2. n \in Nat
  BY <1>1, InWindowIs
<1>3. segs = append_overview_segment(old, stable)
  BY DEF build_signal_overview_segments
<1>4. all \in Accounts(values, looks) /\ Summarised(w, win, width, start, res, radix, all, n)
  BY AllSummarised
<1>5. M \subseteq 1 .. n /\ B \subseteq 1 .. n
  <2>1. M \subseteq 1 .. n
    BY DEF Marks
  <2>2. DOMAIN win = 1 .. n
    BY <1>1, InWindowIs
  <2>3. B \subseteq 1 .. n
    BY <2>2 DEF Bursts
  <2> QED
    BY <2>1, <2>3
<1>6. c \in Int /\ start <= c /\ c <= end + 1
  <2>1. n \in 0 .. Len(win)
    BY <1>2
  <2> QED
    BY <1>1, <2>1, CursorIs
<1> HIDE DEF all
<1>7. /\ all.cursor = c /\ all.value = (IF n = 0 THEN get_value_at_time(w, start) ELSE win[n].v)
      /\ Tiled(old, start, c) /\ Truthful(w, width, radix, old) /\ Len(old) <= NumberIn(M, 1, n)
      /\ res >= 2 => Counted(old) = NumberIn(B, 1, n)
  BY <1>4 DEF Summarised
<1>8. old \in Seq(Segments(looks)) /\ all.value \in values
  BY <1>4 DEF Accounts
<1> DEFINE cursor == all.cursor
           v == all.value
<1>9. cursor = c /\ v \in values /\ stable = Stable(width, cursor, end, v, radix)
  BY <1>7, <1>8
<1> HIDE DEF c, old, segs, M, B, cursor, v, values, stable
<1>10. /\ stable \in Segments(looks) /\ stable.start = c /\ stable.end = end
       /\ stable.state = "stable" /\ stable.value = Looks(width, v, radix) /\ stable.transitions = 0
  BY <1>0, <1>6, <1>9
<1> HIDE DEF looks
<1>11. \A t \in stable.start .. stable.end : Looks(width, get_value_at_time(w, t), radix) = stable.value
  <2> SUFFICES ASSUME NEW t \in c .. end
               PROVE  get_value_at_time(w, t) = v
    <3>1. stable.start = c /\ stable.end = end /\ stable.value = Looks(width, v, radix)
      BY <1>10
    <3> QED
      BY <3>1
  <2>1. t \in Int /\ c <= t /\ t <= end /\ n \in 0 .. Len(win)
    BY <1>2, <1>6
  <2>2. CursorAt(win, start, res, n) <= t
    BY <2>1 DEF c
  <2>3. get_value_at_time(w, t) = IF n = 0 THEN get_value_at_time(w, start) ELSE win[n].v
    BY <2>1, <2>2, KeptValue
  <2> QED
    BY <1>7, <2>3 DEF v
<1>12. Tiled(segs, start, end + 1)
  <2>1. Tiled(append_overview_segment(old, stable), start, stable.end + 1)
    BY <1>6, <1>7, <1>8, <1>10, AppendTiles
  <2> QED
    BY <1>3, <1>10, <2>1
<1>13. Truthful(w, width, radix, segs)
  <2>1. Truthful(w, width, radix, append_overview_segment(old, stable))
    BY <1>7, <1>8, <1>10, <1>11, AppendTruthful
  <2> QED
    BY <1>3, <2>1
<1>14. /\ Counted(segs) = Counted(old)
       /\ Len(segs) <= Len(old) + (IF c <= end THEN 1 ELSE 0)
  <2>1. Counted(append_overview_segment(old, stable)) = Counted(old)
    BY <1>8, <1>10, AppendCounts
  <2>2. Len(append_overview_segment(old, stable))
          <= Len(old) + (IF stable.start <= stable.end THEN 1 ELSE 0)
    BY <1>8, <1>10, AppendCounts
  <2> QED
    BY <1>3, <1>10, <2>1, <2>2
<1>15. segs \in Seq(Segments(looks))
  BY <1>3, <1>8, <1>10, AppendIs
<1>16. NumberIn(M, 1, n) = Cardinality(M) /\ NumberIn(B, 1, n) = Cardinality(B) /\ Cardinality(M) \in Nat
  BY <1>2, <1>5, AllPlaces
<1>17. Len(segs) \in Nat /\ Len(old) \in Nat
  BY <1>8, <1>15, SegmentIs
<1>18. Len(segs) <= Cardinality(M) + (IF c <= end THEN 1 ELSE 0)
  BY <1>7, <1>14, <1>16, <1>17
<1>19. res >= 2 => Counted(segs) = Cardinality(B)
  BY <1>7, <1>14, <1>16
<1> QED
  BY <1>12, <1>13, <1>15, <1>18, <1>19 DEF c, segs, M, B, values, looks

(* The parts of the covering, of every segment.                            *)
LEMMA OverviewsAreExact ==
    ASSUME NEW w, Wave(w), NEW start \in Int, NEW end \in Int, start <= end,
           NEW res \in Int, res >= 1, NEW width, NEW radix
    PROVE  LET segs == build_signal_overview_segments(w, width, start, end, res, radix)
           IN  /\ segs # <<>> /\ segs[1].start = start /\ segs[Len(segs)].end = end
               /\ \A i \in DOMAIN segs :
                    /\ segs[i].start <= segs[i].end
                    /\ i > 1 => segs[i].start = segs[i - 1].end + 1
                    /\ segs[i].state = "stable" =>
                         \A t \in segs[i].start .. segs[i].end :
                           Looks(width, get_value_at_time(w, t), radix) = segs[i].value
<1> DEFINE segs == build_signal_overview_segments(w, width, start, end, res, radix)
           looks == LooksOf(width, ValuesIn(w, start, end), radix)
<1>1. segs \in Seq(Segments(looks)) /\ Tiled(segs, start, end + 1) /\ Truthful(w, width, radix, segs)
  BY OverviewIs
<1> HIDE DEF segs, looks
<1>2. Len(segs) \in Nat /\ DOMAIN segs = 1 .. Len(segs)
  BY <1>1
<1>3. Len(segs) > 0 /\ segs[1].start = start /\ segs[Len(segs)].end + 1 = end + 1
  BY <1>1 DEF Tiled
<1>4. segs[Len(segs)].end \in Int
  <2>1. Len(segs) \in 1 .. Len(segs)
    BY <1>2, <1>3
  <2> QED
    BY <1>1, <2>1, SegmentIs
<1>5. segs # <<>> /\ segs[Len(segs)].end = end
  BY <1>3, <1>4
<1>6. ASSUME NEW i \in DOMAIN segs
      PROVE  /\ segs[i].start <= segs[i].end
             /\ i > 1 => segs[i].start = segs[i - 1].end + 1
  BY <1>1, <1>2 DEF Tiled
<1>7. ASSUME NEW i \in DOMAIN segs, segs[i].state = "stable"
      PROVE  \A t \in segs[i].start .. segs[i].end : Looks(width, get_value_at_time(w, t), radix) = segs[i].value
  BY <1>1, <1>2, <1>7 DEF Truthful
<1> QED
  BY <1>3, <1>5, <1>6, <1>7 DEF segs

(* What the estimate has counted before transition e + 1.                  *)
Counts(win, start, res, acc, e) ==
  acc.count = NumberIn(Marks(win, start, res), 1, e) /\ acc.cursor = CursorAt(win, start, res, e)

LEMMA EstimateStep ==
    ASSUME NEW win, NEW start, NEW end, InWindow(win, start, end), NEW res \in Int, res >= 1,
           NEW i \in 1 .. Len(win), Begins(win, i, res), NEW acc \in [count : Nat, cursor : Int],
           Counts(win, start, res, acc, i - 1)
    PROVE  /\ Estimate(win, res, acc, i) \in [count : Nat, cursor : Int]
           /\ Counts(win, start, res, Estimate(win, res, acc, i), ClusterEnd(win, i, res))
<1> DEFINE j == ClusterEnd(win, i, res)
           fend == FlippingEnd(win, i, j)
           next == Estimate(win, res, acc, i)
           c == CursorAt(win, start, res, i - 1)
           M == Marks(win, start, res)
           u == win[i].t
           v == win[j].t
           more == (IF c < u THEN 1 ELSE 0) + (IF i < j THEN 1 ELSE 0)
           cursor == IF i < j /\ fend = v THEN fend + 1 ELSE v
<1>1. /\ j \in i .. Len(win) /\ j \in Nat /\ i \in Nat /\ u \in Int /\ v \in Int /\ u <= v
  BY GapsAre
<1>2. CursorAt(win, start, res, j) = (IF i < j /\ u = v THEN v + 1 ELSE v)
  BY ClusterBegins
<1>3. /\ NumberIn(M, 1, j) = NumberIn(M, 1, i - 1) + (IF c < u THEN 1 ELSE 0) + (IF i < j THEN 1 ELSE 0)
      /\ NumberIn(M, 1, i - 1) \in Nat
  BY MarksGrow
<1>4. acc.count = NumberIn(M, 1, i - 1) /\ acc.cursor = c
  BY DEF Counts
<1>5. fend = IF u = v THEN v ELSE v - 1
  <2> HIDE DEF j
  <2>1. fend = IF v > u THEN v - 1 ELSE v
    BY DEF FlippingEnd
  <2> HIDE DEF fend, u, v
  <2> QED
    BY <1>1, <2>1
<1>6. next = [count |-> acc.count + (IF acc.cursor < u THEN 1 ELSE 0) + (IF i < j THEN 1 ELSE 0), cursor |-> cursor]
  BY DEF Estimate
<1> HIDE DEF j, fend, next, c, M, u, v
<1>7. next.count = acc.count + (IF c < u THEN 1 ELSE 0) + (IF i < j THEN 1 ELSE 0) /\ next.cursor = cursor
  BY <1>4, <1>6
<1>8. next.count = NumberIn(M, 1, j) /\ next.count \in Nat
  BY <1>1, <1>3, <1>4, <1>7
<1>9. next.cursor = CursorAt(win, start, res, j) /\ next.cursor \in Int
  BY <1>1, <1>2, <1>5, <1>7
<1>10. next \in [count : Nat, cursor : Int]
  BY <1>6, <1>8, <1>9
<1>11. Counts(win, start, res, next, j)
  BY <1>8, <1>9 DEF Counts, M
<1> QED
  BY <1>10, <1>11 DEF next, j

(* The estimate is the number of transitions that start a segment, and one *)
(* for what is behind the last cluster.                                    *)
LEMMA EstimateIs ==
    ASSUME NEW win, NEW start, NEW end, InWindow(win, start, end), NEW res \in Int, res >= 1
    PROVE  estimated_segment_count_for(win, start, end, res)
             = Cardinality(Marks(win, start, res))
               + (IF CursorAt(win, start, res, Len(win)) <= end THEN 1 ELSE 0)
<1> DEFINE S == [count : Nat, cursor : Int]
           n == Len(win)
           Kept(acc, e) == Counts(win, start, res, acc, e)
           J == [i \in 0 .. n |-> {acc \in S : Kept(acc, EndOf(win, res, i))}]
           none == [count |-> 0, cursor |-> start]
           all == Estimates(win, start, res)[n]
           M == Marks(win, start, res)
<1>1. n \in Nat /\ start \in Int
  BY InWindowIs DEF InWindow
<1>2. none \in S /\ Kept(none, 0)
  <2>1. CursorAt(win, start, res, 0) = start
    BY DEF CursorAt
  <2>2. M \cap (1 .. 0) = {}
    <3> HIDE DEF M
    <3> QED
      OBVIOUS
  <2>3. Cardinality({}) = 0
    BY FS_EmptySet
  <2>4. Cardinality(M \cap (1 .. 0)) = 0
    BY <2>2, <2>3, Zenon
  <2>5. NumberIn(M, 1, 0) = 0
    BY <2>4 DEF NumberIn
  <2>6. none.count = 0 /\ none.cursor = start /\ none \in S
    BY <1>1
  <2> HIDE DEF none
  <2> QED
    BY <2>1, <2>5, <2>6 DEF Counts
<1>3. \A i \in 1 .. n : \A acc \in S : Begins(win, i, res) /\ Kept(acc, i - 1) =>
        /\ Estimate(win, res, acc, i) \in S
        /\ Kept(Estimate(win, res, acc, i), ClusterEnd(win, i, res))
  BY EstimateStep
<1>4. EndOf(win, res, 0) = 0
  BY DEF EndOf
<1>5. EndOf(win, res, n) = n
  <2>1. CASE n = 0
    BY <1>4, <2>1
  <2>2. CASE n # 0
    <3>1. n \in 1 .. Len(win)
      BY <1>1, <2>2
    <3>2. EndOf(win, res, n) \in n .. n
      BY <3>1, EndOfIs
    <3> HIDE DEF n
    <3> QED
      BY <1>1, <3>2
  <2> QED
    BY <2>1, <2>2
<1>6. \A i \in 1 .. n : /\ Begins(win, i, res) => EndOf(win, res, i - 1) = i - 1
                                              /\ EndOf(win, res, i) = ClusterEnd(win, i, res)
                        /\ ~Begins(win, i, res) => EndOf(win, res, i) = EndOf(win, res, i - 1)
  BY EndOfIs
<1> HIDE DEF S, Kept, none
<1>7. /\ J \in [0 .. n -> SUBSET S]
      /\ \A i \in 0 .. n : J[i] = {acc \in S : Kept(acc, EndOf(win, res, i))}
  OBVIOUS
<1>8. none \in J[0]
  BY <1>1, <1>2, <1>4, <1>7
<1> HIDE DEF J
<1>9. ASSUME NEW i \in 1 .. n, NEW acc \in J[i - 1]
      PROVE  Guessed(win, res, acc, i) \in J[i]
  <2>0. i \in 0 .. n /\ i - 1 \in 0 .. n
    BY <1>1
  <2>1. acc \in S /\ Kept(acc, EndOf(win, res, i - 1))
    BY <1>7, <2>0
  <2>2. CASE Begins(win, i, res)
    <3>1. Guessed(win, res, acc, i) = Estimate(win, res, acc, i)
      BY <2>2 DEF Guessed
    <3> DEFINE next == Estimate(win, res, acc, i)
    <3> HIDE DEF next
    <3>2. next \in S /\ Kept(next, EndOf(win, res, i))
      BY <1>3, <1>6, <2>1, <2>2 DEF next
    <3> QED
      BY <1>7, <2>0, <3>1, <3>2 DEF next
  <2>3. CASE ~Begins(win, i, res)
    <3>1. Guessed(win, res, acc, i) = acc
      BY <2>3 DEF Guessed
    <3>2. Kept(acc, EndOf(win, res, i))
      BY <1>6, <2>1, <2>3
    <3> QED
      BY <1>7, <2>0, <2>1, <3>1, <3>2
  <2> QED
    BY <2>2, <2>3
<1>10. all \in J[n]
  BY <1>1, <1>7, <1>8, <1>9, EstimatesIn DEF none
<1>11. J[n] = {acc \in S : Kept(acc, n)}
  BY <1>1, <1>5, <1>7
<1>12. Kept(all, n)
  BY <1>10, <1>11
<1>13. all.count = NumberIn(M, 1, n) /\ all.cursor = CursorAt(win, start, res, n)
  BY <1>12 DEF Kept, Counts
<1>14. M \subseteq 1 .. n
  BY DEF Marks
<1>15. NumberIn(M, 1, n) = Cardinality(M)
  <2> HIDE DEF M
  <2> QED
    BY <1>1, <1>14, AllPlaces
<1>16. estimated_segment_count_for(win, start, end, res) = all.count + (IF all.cursor <= end THEN 1 ELSE 0)
  BY DEF estimated_segment_count_for
<1> HIDE DEF all, M
<1> QED
  BY <1>13, <1>15, <1>16 DEF M

(* What begins a cluster at a coarse resolution begins one at a finer one, *)
(* and what starts a segment does.                                         *)
LEMMA FinerBegins ==
    ASSUME NEW win, NEW start, NEW end, InWindow(win, start, end), NEW r \in Int, NEW s \in Int, 1 <= r, r < s,
           NEW i \in 1 .. Len(win), Begins(win, i, s)
    PROVE  Begins(win, i, r) /\ CursorAt(win, start, r, i - 1) < win[i].t
<1> DEFINE m == i - 1
           u == win[i].t
           v == win[m].t
           c == CursorAt(win, start, r, m)
<1>1. Len(win) \in Nat /\ i \in Nat /\ i >= 1 /\ m \in 0 .. Len(win) /\ u \in Int /\ start \in Int /\ start < u
  <2>1. Len(win) \in Nat /\ u \in Int
    BY InWindowIs
  <2>2. start \in Int /\ start < u
    BY DEF InWindow
  <2> HIDE DEF u
  <2> QED
    BY <2>1, <2>2
<1>2. m > 0 => m \in 1 .. Len(win) /\ v \in Int
  <2>1. m > 0 => m \in 1 .. Len(win)
    BY <1>1
  <2> HIDE DEF m
  <2> QED
    BY <2>1, InWindowIs
<1>3. i = 1 <=> m = 0
  BY <1>1
<1>4. i = 1 \/ u - v >= s
  BY DEF Begins
<1>5. Begins(win, i, r)
  <2>1. i = 1 \/ u - v >= r
    <3> HIDE DEF m, u, v
    <3> QED
      BY <1>1, <1>2, <1>3, <1>4
  <2> QED
    BY <2>1 DEF Begins
<1>6. c \in Int /\ (m > 0 => c <= v + 1) /\ (m = 0 => c = start)
  <2> HIDE DEF m
  <2>1. CursorAt(win, start, r, m) \in Int /\ (m > 0 => CursorAt(win, start, r, m) <= win[m].t + 1)
    BY <1>1, CursorIs
  <2> QED
    BY <2>1 DEF CursorAt
<1>7. c < u
  <2> HIDE DEF c, m, u, v
  <2> QED
    BY <1>1, <1>2, <1>3, <1>4, <1>6
<1> QED
  BY <1>5, <1>7

LEMMA FinerMarks ==
    ASSUME NEW win, NEW start, NEW end, InWindow(win, start, end), NEW r \in Int, NEW s \in Int, 1 <= r, r < s
    PROVE  Marks(win, start, s) \subseteq Marks(win, start, r)
<1> SUFFICES ASSUME NEW i \in Marks(win, start, s) PROVE i \in Marks(win, start, r)
  OBVIOUS
<1>1. i \in 1 .. Len(win) /\ (~Begins(win, i, s) => Begins(win, i - 1, s))
  BY DEF Marks
<1>2. CASE Begins(win, i, s)
  <2>1. Begins(win, i, r) /\ CursorAt(win, start, r, i - 1) < win[i].t
    BY <1>1, <1>2, FinerBegins
  <2> QED
    BY <1>1, <2>1 DEF Marks
<1>3. CASE ~Begins(win, i, s)
  <2> DEFINE m == i - 1
             u == win[i].t
             v == win[m].t
  <2>1. Len(win) \in Nat /\ i \in Nat /\ i > 1
    <3>1. i # 1
      BY <1>3 DEF Begins
    <3> QED
      BY <1>1, <3>1, InWindowIs
  <2>2. m \in 1 .. Len(win) /\ m > 0 /\ m # 0
    BY <1>1, <2>1
  <2>3. Begins(win, m, s)
    BY <1>1, <1>3
  <2>4. CASE Begins(win, i, r)
    <3>1. u - v >= r
      BY <2>1, <2>4 DEF Begins
    <3> HIDE DEF m
    <3>2. u \in Int /\ v \in Int
      BY <1>1, <2>2, InWindowIs
    <3>3. Begins(win, m, r)
      BY <2>2, <2>3, FinerBegins
    <3>4. First(win, r, m) = m
      BY <2>2, <3>3, FirstIs
    <3>5. Shift(win, r, m) = 0
      BY <2>2, <3>4 DEF Shift
    <3>6. CursorAt(win, start, r, m) = v
      BY <2>2, <3>2, <3>5 DEF CursorAt
    <3>7. CursorAt(win, start, r, m) < u
      <4> HIDE DEF u, v
      <4> QED
        BY <3>1, <3>2, <3>6
    <3> QED
      BY <1>1, <2>4, <3>7 DEF Marks, m
  <2>5. CASE ~Begins(win, i, r)
    <3> HIDE DEF m
    <3>1. Begins(win, m, r)
      BY <2>2, <2>3, FinerBegins
    <3> QED
      BY <1>1, <2>5, <3>1 DEF Marks, m
  <2> QED
    BY <2>4, <2>5
<1> QED
  BY <1>2, <1>3

(* Where only the finer summary ends with its last burst, it has begun     *)
(* that burst with a segment of its own.                                   *)
LEMMA LastBurst ==
    ASSUME NEW win, NEW start, NEW end, InWindow(win, start, end), NEW r \in Int, NEW s \in Int, 1 <= r, r < s,
           CursorAt(win, start, s, Len(win)) <= end, ~(CursorAt(win, start, r, Len(win)) <= end)
    PROVE  \E i \in Marks(win, start, r) : i \notin Marks(win, start, s)
<1> DEFINE n == Len(win)
           f == First(win, r, n)
           g == First(win, s, n)
           v == win[n].t
<1>1. n \in Nat /\ end \in Int /\ start \in Int /\ start <= end
  BY InWindowIs DEF InWindow
<1>2. n # 0
  BY <1>1 DEF CursorAt
<1>3. n \in 1 .. Len(win)
  BY <1>1, <1>2
<1>4. v \in Int /\ v <= end
  <2> HIDE DEF n
  <2>1. n \in 1 .. Len(win)
    BY <1>3
  <2>2. win[n].t \in Int
    BY <2>1, InWindowIs
  <2>3. win[n].t <= end
    BY <2>1 DEF InWindow
  <2> QED
    BY <2>2, <2>3
<1>5. CursorAt(win, start, r, n) = v + Shift(win, r, n) /\ CursorAt(win, start, s, n) = v + Shift(win, s, n)
  BY <1>2 DEF CursorAt
<1>6. Shift(win, r, n) \in {0, 1} /\ Shift(win, s, n) \in {0, 1}
  BY DEF Shift
<1>7. Shift(win, r, n) = 1 /\ Shift(win, s, n) = 0
  <2> HIDE DEF v, n
  <2>1. Shift(win, r, n) = 1
    BY <1>1, <1>4, <1>5, <1>6 DEF n
  <2>2. v = end
    BY <1>1, <1>4, <1>5, <1>6, <2>1 DEF n
  <2> QED
    BY <1>1, <1>4, <1>5, <1>6, <2>1, <2>2 DEF n
<1>8. f < n /\ win[f].t = v
  BY <1>7 DEF Shift
<1>9. ~(g < n /\ win[g].t = v)
  BY <1>7 DEF Shift
<1>10. /\ f \in 1 .. n /\ Begins(win, f, r) /\ \A k \in f + 1 .. n : ~Begins(win, k, r)
       /\ g \in 1 .. n /\ Begins(win, g, s) /\ \A k \in g + 1 .. n : ~Begins(win, k, s)
  <2> HIDE DEF n
  <2>1. n \in 1 .. Len(win)
    BY <1>3
  <2> QED
    BY <2>1, FirstIs
<1>11. Begins(win, g, r)
  BY <1>10, FinerBegins
<1> HIDE DEF n, f, g, v
<1>12. g < f
  <2>1. g <= f
    BY <1>1, <1>10, <1>11
  <2>2. g # f
    BY <1>8, <1>9
  <2> QED
    BY <1>1, <1>10, <2>1, <2>2
<1> DEFINE i == f + 1
<1>13. i \in 1 .. n /\ i - 1 = f /\ i \in f + 1 .. n /\ i \in g + 1 .. n /\ f \in g + 1 .. n
  BY <1>1, <1>8, <1>10, <1>12
<1> HIDE DEF i
<1>14. ~Begins(win, i, r) /\ ~Begins(win, i, s) /\ ~Begins(win, f, s)
  BY <1>10, <1>13
<1>15. i \in Marks(win, start, r)
  BY <1>10, <1>13, <1>14 DEF Marks, n
<1>16. i \notin Marks(win, start, s)
  BY <1>13, <1>14 DEF Marks
<1> QED
  BY <1>15, <1>16

(* A coarser summary is never estimated to be longer.                      *)
LEMMA EstimateFalls ==
    ASSUME NEW win, NEW start, NEW end, InWindow(win, start, end), NEW r \in Int, NEW s \in Int, 1 <= r, r <= s
    PROVE  /\ estimated_segment_count_for(win, start, end, s) <= estimated_segment_count_for(win, start, end, r)
           /\ estimated_segment_count_for(win, start, end, s) \in Nat
<1> DEFINE n == Len(win)
           M == Marks(win, start, r)
           N == Marks(win, start, s)
           a == estimated_segment_count_for(win, start, end, r)
           b == estimated_segment_count_for(win, start, end, s)
           left == CursorAt(win, start, r, n) <= end
           over == CursorAt(win, start, s, n) <= end
<1>1. n \in Nat
  BY InWindowIs
<1>2. M \subseteq 1 .. n /\ N \subseteq 1 .. n
  BY DEF Marks
<1>3. IsFiniteSet(M) /\ IsFiniteSet(N) /\ Cardinality(M) \in Nat /\ Cardinality(N) \in Nat
  <2> HIDE DEF M, N, n
  <2>1. IsFiniteSet(1 .. n)
    BY <1>1, FS_Interval
  <2>2. IsFiniteSet(M) /\ IsFiniteSet(N)
    BY <1>2, <2>1, FS_Subset
  <2> QED
    BY <2>2, FS_CardinalityType
<1>4. /\ a = Cardinality(M) + (IF left THEN 1 ELSE 0)
      /\ b = Cardinality(N) + (IF over THEN 1 ELSE 0)
  BY EstimateIs
<1>5. CASE r = s
  <2>1. a = b /\ M = N
    BY <1>5
  <2> HIDE DEF M, N, a, b, left, over
  <2>2. b \in Nat
    BY <1>3, <1>4
  <2> QED
    BY <2>1, <2>2 DEF a, b
<1>6. CASE r < s
  <2>1. N \subseteq M
    BY <1>6, FinerMarks
  <2>2. over /\ ~left => \E i \in M : i \notin N
    BY <1>6, LastBurst
  <2> HIDE DEF M, N, a, b, left, over
  <2>3. Cardinality(N) <= Cardinality(M) /\ (N # M => Cardinality(N) < Cardinality(M))
    BY <1>3, <2>1, FS_Subset
  <2>4. over /\ ~left => Cardinality(N) < Cardinality(M)
    BY <2>2, <2>3
  <2>5. b <= a /\ b \in Nat
    BY <1>3, <1>4, <2>3, <2>4
  <2> QED
    BY <2>5 DEF a, b
<1> QED
  BY <1>5, <1>6

(* The search for a resolution: what each turn keeps holds after the last. *)
LEMMA HalvingsIn ==
    ASSUME NEW win, NEW start, NEW end, NEW n \in Nat, n = end - start + 1,
           NEW S, NEW J \in [0 .. n -> SUBSET S], [low |-> 1, high |-> n] \in J[0],
           \A k \in 1 .. n : \A x \in J[k - 1] : Halve(win, start, end, x) \in J[k]
    PROVE  Halvings(win, start, end)[n] \in J[n]
<1> DEFINE G == [x \in (1 .. n) \X S |-> Halve(win, start, end, x[2])]
           b == [low |-> 1, high |-> n]
           read == CHOOSE f : f = [k \in 0 .. n |-> IF k = 0 THEN [low |-> 1, high |-> n]
                                                    ELSE Halve(win, start, end, f[k - 1])]
<1>1. Halvings(win, start, end) = read
  BY DEF Halvings
<1>2. \A i \in 1 .. n : \A x \in J[i - 1] : G[<<i, x>>] = Halve(win, start, end, x) /\ G[<<i, x>>] \in J[i]
  <2> SUFFICES ASSUME NEW i \in 1 .. n, NEW x \in J[i - 1]
               PROVE  G[<<i, x>>] = Halve(win, start, end, x) /\ G[<<i, x>>] \in J[i]
    OBVIOUS
  <2>1. i - 1 \in 0 .. n /\ x \in S
    OBVIOUS
  <2>2. G[<<i, x>>] = Halve(win, start, end, x)
    BY <2>1
  <2> HIDE DEF G
  <2> QED
    BY <2>2
<1> HIDE DEF G, b
<1>3. b \in J[0]
  BY DEF b
<1>4. PICK f : InSteps(f, n, b, G, J)
  BY <1>2, <1>3, StepsInside
<1>5. f = [k \in 0 .. n |-> IF k = 0 THEN [low |-> 1, high |-> n] ELSE Halve(win, start, end, f[k - 1])]
  <2>1. ASSUME NEW i \in 0 .. n, i # 0
        PROVE  G[<<i, f[i - 1]>>] = Halve(win, start, end, f[i - 1])
    <3>1. i - 1 \in 0 .. n /\ i \in 1 .. n
      BY <2>1
    <3> QED
      BY <1>2, <1>4, <3>1 DEF InSteps
  <2> QED
    BY <1>4, <2>1 DEF InSteps, b
<1>6. read = [k \in 0 .. n |-> IF k = 0 THEN [low |-> 1, high |-> n] ELSE Halve(win, start, end, read[k - 1])]
  BY <1>5
<1> HIDE DEF read
<1>7. read[0] = b /\ \A i \in 1 .. n : read[i] = Halve(win, start, end, read[i - 1])
  <2>1. 0 \in 0 .. n /\ \A i \in 1 .. n : i \in 0 .. n /\ i # 0
    OBVIOUS
  <2> QED
    BY <1>6, <2>1 DEF b
<1>8. \A i \in 0 .. n : read[i] \in J[i]
  <2>1. read[0] \in J[0]
    BY <1>3, <1>7
  <2>2. \A i \in 1 .. n : read[i - 1] \in J[i - 1] => read[i] \in J[i]
    BY <1>7
  <2> QED
    BY <2>1, <2>2, StepwiseIn
<1>9. n \in 0 .. n
  OBVIOUS
<1> QED
  BY <1>1, <1>8, <1>9

(* As coarse as the window is long, there is one cluster.                  *)
LEMMA WholeFits ==
    ASSUME NEW win, NEW start, NEW end, InWindow(win, start, end), NEW res \in Int, res >= 1,
           res = end - start + 1 \/ win = <<>>
    PROVE  Fits(win, start, end, res)
<1> DEFINE M == Marks(win, start, res)
           n == Len(win)
           left == CursorAt(win, start, res, n) <= end
           a == estimated_segment_count_for(win, start, end, res)
<1>0. n \in Nat /\ start \in Int /\ end \in Int
  BY InWindowIs DEF InWindow
<1>1. ASSUME NEW i \in 1 .. n, i # 1
      PROVE  ~Begins(win, i, res)
  <2> DEFINE m == i - 1
             u == win[i].t
             v == win[m].t
  <2>1. i \in Nat /\ m \in 1 .. n /\ win # <<>>
    BY <1>0, <1>1
  <2>2. u \in Int /\ u <= end
    <3>1. u \in Int
      BY InWindowIs
    <3>2. u <= end
      BY DEF InWindow
    <3> QED
      BY <3>1, <3>2
  <2>3. v \in Int /\ start < v
    <3> HIDE DEF m
    <3>1. v \in Int
      BY <2>1, InWindowIs
    <3>2. start < v
      BY <2>1 DEF InWindow
    <3> QED
      BY <3>1, <3>2
  <2>4. ~(u - v >= res)
    <3> HIDE DEF u, v
    <3> QED
      BY <1>0, <2>1, <2>2, <2>3
  <2> QED
    BY <1>1, <2>4 DEF Begins
<1>2. M \subseteq {1, 2}
  <2> SUFFICES ASSUME NEW i \in M, i # 1 PROVE i = 2
    OBVIOUS
  <2>1. i \in 1 .. n /\ (Begins(win, i, res) \/ Begins(win, i - 1, res))
    BY DEF Marks
  <2>2. Begins(win, i - 1, res)
    BY <1>1, <2>1
  <2>3. i - 1 \in 1 .. n
    BY <1>0, <2>1
  <2>4. i - 1 = 1
    BY <1>1, <2>2, <2>3
  <2> QED
    BY <1>0, <2>1, <2>4
<1>3. Cardinality(M) <= 2 /\ Cardinality(M) \in Nat
  <2> HIDE DEF M
  <2> DEFINE T == 1 .. 2
  <2>1. IsFiniteSet(T) /\ Cardinality(T) = 2
    <3>1. \A b \in Nat : IsFiniteSet(1 .. b) /\ Cardinality(1 .. b) = IF 1 > b THEN 0 ELSE b - 1 + 1
      BY FS_Interval
    <3> DEFINE b == 2
    <3>2. b \in Nat /\ (IF 1 > b THEN 0 ELSE b - 1 + 1) = 2
      OBVIOUS
    <3> HIDE DEF b
    <3>3. IsFiniteSet(1 .. b) /\ Cardinality(1 .. b) = 2
      BY <3>1, <3>2
    <3> QED
      BY <3>3 DEF b
  <2>2. M \subseteq T
    BY <1>2
  <2> HIDE DEF T
  <2>3. IsFiniteSet(M) /\ Cardinality(M) <= Cardinality(T)
    BY <2>1, <2>2, FS_Subset
  <2>4. Cardinality(M) \in Nat
    BY <2>3, FS_CardinalityType
  <2> QED
    BY <2>1, <2>3, <2>4
<1>4. a = Cardinality(M) + (IF left THEN 1 ELSE 0)
  BY EstimateIs
<1> HIDE DEF M, left, a
<1>5. a <= kTargetSegments
  BY <1>3, <1>4, QueryAssumption
<1> QED
  BY <1>5 DEF Fits, a

(* A range of resolutions that holds the smallest that fits, after k       *)
(* turns.                                                                  *)
Halved(win, start, end, n, range, k) ==
  /\ range.low <= range.high /\ Fits(win, start, end, range.high)
  /\ \A r \in 1 .. range.low - 1 : ~Fits(win, start, end, r)
  /\ range.low = range.high \/ range.high - range.low <= n - 1 - k

LEMMA HalveKeeps ==
    ASSUME NEW win, NEW start, NEW end, InWindow(win, start, end), NEW n \in Nat, NEW k \in 1 .. n,
           NEW range \in [low : 1 .. n, high : 1 .. n], Halved(win, start, end, n, range, k - 1)
    PROVE  /\ Halve(win, start, end, range) \in [low : 1 .. n, high : 1 .. n]
           /\ Halved(win, start, end, n, Halve(win, start, end, range), k)
<1> DEFINE low == range.low
           high == range.high
           d == high - low
           h == d \div 2
           mid == low + h
           Coarse(r) == Fits(win, start, end, r)
           next == Halve(win, start, end, range)
<1>1. low \in 1 .. n /\ high \in 1 .. n /\ range = [low |-> low, high |-> high]
  OBVIOUS
<1>2. /\ low <= high /\ Coarse(high) /\ \A r \in 1 .. low - 1 : ~Coarse(r)
      /\ low = high \/ d <= n - 1 - (k - 1)
  BY DEF Halved
<1>3. ASSUME NEW r \in Int, NEW s \in Int, 1 <= r, r <= s, Coarse(r)
      PROVE  Coarse(s)
  <2> DEFINE a == estimated_segment_count_for(win, start, end, r)
             b == estimated_segment_count_for(win, start, end, s)
  <2>1. b <= a /\ b \in Nat
    BY <1>3, EstimateFalls
  <2>2. a \in Nat
    <3>1. r <= r
      BY <1>3
    <3> QED
      BY <1>3, <3>1, EstimateFalls
  <2>3. a <= kTargetSegments
    BY <1>3 DEF Fits
  <2> HIDE DEF a, b
  <2>4. b <= kTargetSegments
    BY <2>1, <2>2, <2>3, QueryAssumption
  <2> QED
    BY <2>4 DEF Fits, b
<1>4. next = IF low >= high THEN range
             ELSE IF Coarse(mid) THEN [range EXCEPT !.high = mid] ELSE [range EXCEPT !.low = mid + 1]
  BY DEF Halve
<1> HIDE DEF low, high, Coarse, next
<1>5. low \in Int /\ high \in Int /\ low >= 1 /\ d \in Int /\ d >= 0 /\ n \in Int /\ k \in Int /\ high <= n
  BY <1>1, <1>2
<1>6. h \in Int /\ 0 <= h /\ (d >= 1 => h < d) /\ h <= d
  <2> HIDE DEF d
  <2> QED
    BY <1>5
<1> HIDE DEF h
<1>7. CASE low >= high
  <2>1. next = range /\ low = high
    BY <1>2, <1>4, <1>5, <1>7
  <2>2. Halved(win, start, end, n, range, k)
    BY <1>2, <2>1 DEF Halved, low, high, Coarse
  <2> QED
    BY <2>1, <2>2 DEF next
<1>8. CASE ~(low >= high) /\ Coarse(mid)
  <2>1. next = [low |-> low, high |-> mid]
    BY <1>1, <1>4, <1>8
  <2>2. mid \in 1 .. n /\ mid < high /\ low <= mid
    BY <1>5, <1>6, <1>8
  <2>3. mid - low <= n - 1 - k
    BY <1>2, <1>5, <1>6, <1>8
  <2> HIDE DEF mid
  <2>4. next \in [low : 1 .. n, high : 1 .. n] /\ next.low = low /\ next.high = mid
    BY <1>1, <2>1, <2>2
  <2>5. Halved(win, start, end, n, next, k)
    <3>1. Fits(win, start, end, mid) /\ \A r \in 1 .. low - 1 : ~Fits(win, start, end, r)
      BY <1>2, <1>8 DEF Coarse
    <3> QED
      BY <2>2, <2>3, <2>4, <3>1 DEF Halved
  <2> QED
    BY <2>4, <2>5 DEF next
<1>9. CASE ~(low >= high) /\ ~Coarse(mid)
  <2> DEFINE up == mid + 1
  <2>1. next = [low |-> up, high |-> high]
    BY <1>1, <1>4, <1>9
  <2>2. mid \in Int /\ 1 <= mid /\ mid < high /\ up \in 1 .. n /\ up <= high
    BY <1>5, <1>6, <1>9
  <2>3. high - up <= n - 1 - k
    BY <1>2, <1>5, <1>6, <1>9
  <2>4. up - 1 = mid
    BY <2>2
  <2> HIDE DEF mid
  <2>5. \A r \in 1 .. up - 1 : ~Coarse(r)
    <3> SUFFICES ASSUME NEW r \in 1 .. mid PROVE ~Coarse(r)
      BY <2>4
    <3>1. r \in Int /\ 1 <= r /\ r <= mid
      BY <2>2
    <3> QED
      BY <1>3, <1>9, <2>2, <3>1
  <2> HIDE DEF up
  <2>6. next \in [low : 1 .. n, high : 1 .. n] /\ next.low = up /\ next.high = high
    BY <1>1, <2>1, <2>2
  <2>7. Halved(win, start, end, n, next, k)
    <3>1. Fits(win, start, end, high) /\ \A r \in 1 .. up - 1 : ~Fits(win, start, end, r)
      BY <1>2, <2>5 DEF Coarse
    <3> QED
      BY <2>2, <2>3, <2>6, <3>1 DEF Halved
  <2> QED
    BY <2>6, <2>7 DEF next
<1> QED
  BY <1>7, <1>8, <1>9

(* The automatic resolution fits, and no finer one does.                   *)
LEMMA AutoIs ==
    ASSUME NEW win, NEW start, NEW end, InWindow(win, start, end)
    PROVE  LET res == choose_auto_resolution(win, start, end)
           IN  /\ res \in Int /\ res >= 1 /\ Fits(win, start, end, res)
               /\ \A r \in 1 .. res - 1 : ~Fits(win, start, end, r)
<1> DEFINE n == end - start + 1
           res == choose_auto_resolution(win, start, end)
<1>1. n \in Nat /\ n >= 1 /\ start \in Int /\ end \in Int
  BY DEF InWindow
<1>2. CASE win = <<>> \/ Fits(win, start, end, 1)
  <2>1. res = 1
    BY <1>2 DEF choose_auto_resolution
  <2>2. Fits(win, start, end, 1)
    <3>1. CASE win = <<>>
      <4> DEFINE one == 1
      <4>1. one \in Int /\ one >= 1
        OBVIOUS
      <4> HIDE DEF one
      <4>2. Fits(win, start, end, one)
        BY <3>1, <4>1, WholeFits
      <4> QED
        BY <4>2 DEF one
    <3> QED
      BY <1>2, <3>1
  <2> HIDE DEF res
  <2> QED
    BY <2>1, <2>2 DEF res
<1>3. CASE ~(win = <<>> \/ Fits(win, start, end, 1))
  <2> DEFINE S == [low : 1 .. n, high : 1 .. n]
             Kept(x, k) == Halved(win, start, end, n, x, k)
             J == [k \in 0 .. n |-> {x \in S : Kept(x, k)}]
             all == [low |-> 1, high |-> n]
             found == Halvings(win, start, end)[n]
  <2>1. res = found.low
    BY <1>3 DEF choose_auto_resolution
  <2>2. Fits(win, start, end, n)
    <3> DEFINE m == n
    <3>1. m \in Int /\ m >= 1 /\ m = end - start + 1
      BY <1>1
    <3> HIDE DEF m
    <3>2. Fits(win, start, end, m)
      BY <3>1, WholeFits
    <3> QED
      BY <3>2 DEF m
  <2> HIDE DEF n, res
  <2>3. all \in S /\ Kept(all, 0)
    <3>1. all.low = 1 /\ all.high = n /\ all \in S
      BY <1>1
    <3>2. all.low <= all.high /\ all.high - all.low <= n - 1 - 0 /\ \A r \in 1 .. all.low - 1 : FALSE
      BY <1>1, <3>1
    <3>3. Fits(win, start, end, all.high)
      BY <2>2, <3>1
    <3> HIDE DEF all
    <3> QED
      BY <3>1, <3>2, <3>3 DEF Halved
  <2>4. \A k \in 1 .. n : \A x \in S : Kept(x, k - 1) =>
          Halve(win, start, end, x) \in S /\ Kept(Halve(win, start, end, x), k)
    BY <1>1, HalveKeeps
  <2> HIDE DEF S, Kept, all
  <2>5. J \in [0 .. n -> SUBSET S] /\ \A k \in 0 .. n : J[k] = {x \in S : Kept(x, k)}
    OBVIOUS
  <2> HIDE DEF J
  <2>6. all \in J[0]
    BY <1>1, <2>3, <2>5
  <2>7. ASSUME NEW k \in 1 .. n, NEW x \in J[k - 1]
        PROVE  Halve(win, start, end, x) \in J[k]
    <3>1. k \in 0 .. n /\ k - 1 \in 0 .. n
      BY <1>1
    <3>2. x \in S /\ Kept(x, k - 1)
      BY <2>5, <3>1
    <3> DEFINE next == Halve(win, start, end, x)
    <3> HIDE DEF next
    <3>3. next \in S /\ Kept(next, k)
      BY <2>4, <3>2 DEF next
    <3> QED
      BY <2>5, <3>1, <3>3 DEF next
  <2>8. found \in J[n]
    <3>1. n = end - start + 1
      BY DEF n
    <3> QED
      BY <1>1, <2>5, <2>6, <2>7, <3>1, HalvingsIn DEF all
  <2>9. found \in S /\ Kept(found, n)
    <3>1. n \in 0 .. n
      BY <1>1
    <3> QED
      BY <2>5, <2>8, <3>1
  <2> HIDE DEF found
  <2>10. found.low \in 1 .. n /\ found.high \in 1 .. n
    BY <2>9 DEF S
  <2>11. /\ found.low <= found.high /\ Fits(win, start, end, found.high)
         /\ \A r \in 1 .. found.low - 1 : ~Fits(win, start, end, r)
         /\ found.low = found.high \/ found.high - found.low <= n - 1 - n
    BY <2>9 DEF Kept, Halved
  <2>12. found.low = found.high
    BY <1>1, <2>10, <2>11
  <2>13. res \in Int /\ res >= 1 /\ Fits(win, start, end, res) /\ \A r \in 1 .. res - 1 : ~Fits(win, start, end, r)
    BY <1>1, <2>1, <2>10, <2>11, <2>12
  <2> QED
    BY <2>13 DEF res
<1> QED
  BY <1>2, <1>3

(* The automatic resolution keeps a summary within its target.             *)
LEMMA AutoFits ==
    ASSUME NEW w, Wave(w), NEW start \in Int, NEW end \in Int, start <= end, NEW width, NEW radix
    PROVE  LET win == get_window_transitions(w, start, end)
               res == choose_auto_resolution(win, start, end)
           IN  /\ Len(build_signal_overview_segments(w, width, start, end, res, radix)) <= kTargetSegments
               /\ \A r \in 1 .. res - 1 : estimated_segment_count_for(win, start, end, r) > kTargetSegments
<1> DEFINE win == get_window_transitions(w, start, end)
           res == choose_auto_resolution(win, start, end)
           segs == build_signal_overview_segments(w, width, start, end, res, radix)
<1>1. InWindow(win, start, end)
  BY WindowOf
<1> HIDE DEF win
<1>2. /\ res \in Int /\ res >= 1 /\ Fits(win, start, end, res)
      /\ \A r \in 1 .. res - 1 : ~Fits(win, start, end, r)
  BY <1>1, AutoIs
<1> HIDE DEF res
<1>3. segs \in Seq(Segments(LooksOf(width, ValuesIn(w, start, end), radix)))
      /\ Len(segs) <= Cardinality(Marks(win, start, res))
                      + (IF CursorAt(win, start, res, Len(win)) <= end THEN 1 ELSE 0)
  BY <1>2, OverviewIs DEF win
<1> HIDE DEF segs
<1>4. Len(segs) <= estimated_segment_count_for(win, start, end, res)
  BY <1>1, <1>2, <1>3, EstimateIs
<1>5. \A r \in Int : r >= 1 => estimated_segment_count_for(win, start, end, r) \in Nat
  <2> SUFFICES ASSUME NEW r \in Int, r >= 1 PROVE estimated_segment_count_for(win, start, end, r) \in Nat
    OBVIOUS
  <2>1. 1 <= r /\ r <= r
    OBVIOUS
  <2> QED
    BY <1>1, <2>1, EstimateFalls
<1>6. Len(segs) <= kTargetSegments
  <2>1. Len(segs) \in Nat
    BY <1>3, SegmentIs
  <2>2. estimated_segment_count_for(win, start, end, res) <= kTargetSegments
    BY <1>2 DEF Fits
  <2> QED
    BY <1>2, <1>4, <1>5, <2>1, <2>2, QueryAssumption
<1>7. ASSUME NEW r \in 1 .. res - 1
      PROVE  estimated_segment_count_for(win, start, end, r) > kTargetSegments
  <2>1. r \in Int /\ r >= 1
    BY <1>2
  <2>2. ~(estimated_segment_count_for(win, start, end, r) <= kTargetSegments)
    BY <1>2 DEF Fits
  <2> QED
    BY <1>5, <2>1, <2>2, QueryAssumption
<1> QED
  BY <1>6, <1>7 DEF segs, res, win

LEMMA SummariesMeet == WInv /\ Declared => SummariesExact
<1> SUFFICES ASSUME WInv, Declared PROVE SummariesExact
  OBVIOUS
<1>1. \A x \in Waves : Wave(x.w)
  BY SignalsAreWaves
<1>2. \A win \in Windows : win[1] \in Int /\ win[2] \in Int /\ win[1] <= win[2]
  BY WaveAssumption DEF Windows, Times
<1>3. \A res \in 1 .. MaxTime + 1 : res \in Int /\ res >= 1
  BY WaveAssumption
<1>4. OverviewExact
  <2> SUFFICES ASSUME NEW x \in Waves, NEW win \in Windows, NEW res \in 1 .. MaxTime + 1
               PROVE  LET segs == build_signal_overview_segments(x.w, x.width, win[1], win[2], res, "hex")
                      IN  /\ segs # <<>> /\ segs[1].start = win[1] /\ segs[Len(segs)].end = win[2]
                          /\ \A i \in DOMAIN segs :
                               /\ segs[i].start <= segs[i].end
                               /\ i > 1 => segs[i].start = segs[i - 1].end + 1
                               /\ segs[i].state = "stable" =>
                                    \A t \in segs[i].start .. segs[i].end :
                                      Looks(x.width, get_value_at_time(x.w, t), "hex") = segs[i].value
    BY DEF OverviewExact, Looks
  <2> DEFINE w == x.w
             width == x.width
             start == win[1]
             end == win[2]
  <2>1. Wave(w) /\ start \in Int /\ end \in Int /\ start <= end /\ res \in Int /\ res >= 1
    BY <1>1, <1>2, <1>3
  <2> HIDE DEF w, width, start, end
  <2>2. LET segs == build_signal_overview_segments(w, width, start, end, res, "hex")
        IN  /\ segs # <<>> /\ segs[1].start = start /\ segs[Len(segs)].end = end
            /\ \A i \in DOMAIN segs :
                 /\ segs[i].start <= segs[i].end
                 /\ i > 1 => segs[i].start = segs[i - 1].end + 1
                 /\ segs[i].state = "stable" =>
                      \A t \in segs[i].start .. segs[i].end :
                        Looks(width, get_value_at_time(w, t), "hex") = segs[i].value
    BY <2>1, OverviewsAreExact
  <2> QED
    BY <2>2 DEF w, width, start, end
<1>5. OverviewCounts
  <2> SUFFICES ASSUME NEW x \in Waves, NEW win \in Windows, NEW res \in 2 .. MaxTime + 1
               PROVE  Counted(build_signal_overview_segments(x.w, x.width, win[1], win[2], res, "hex"))
                        = Cardinality(Bursts(get_window_transitions(x.w, win[1], win[2]), res))
    BY DEF OverviewCounts, Bursts
  <2> DEFINE w == x.w
             width == x.width
             start == win[1]
             end == win[2]
             window == get_window_transitions(w, start, end)
  <2>1. Wave(w) /\ start \in Int /\ end \in Int /\ start <= end /\ res \in Int /\ res >= 1 /\ res >= 2
    BY <1>1, <1>2, <1>3, WaveAssumption
  <2> HIDE DEF w, width, start, end
  <2>2. window = get_window_transitions(w, start, end)
    OBVIOUS
  <2> HIDE DEF window
  <2>3. Counted(build_signal_overview_segments(w, width, start, end, res, "hex")) = Cardinality(Bursts(window, res))
    BY <2>1, <2>2, OverviewIs
  <2> QED
    BY <2>3 DEF window, w, width, start, end
<1>6. AutoIsSmallest
  <2> SUFFICES ASSUME NEW x \in Waves, NEW win \in Windows
               PROVE  LET window == get_window_transitions(x.w, win[1], win[2])
                          res == choose_auto_resolution(window, win[1], win[2])
                      IN  /\ Len(build_signal_overview_segments(x.w, x.width, win[1], win[2], res, "hex"))
                               <= kTargetSegments
                          /\ \A r \in 1 .. res - 1 :
                               estimated_segment_count_for(window, win[1], win[2], r) > kTargetSegments
    BY DEF AutoIsSmallest
  <2> DEFINE w == x.w
             width == x.width
             start == win[1]
             end == win[2]
  <2>1. Wave(w) /\ start \in Int /\ end \in Int /\ start <= end
    BY <1>1, <1>2
  <2> HIDE DEF w, width, start, end
  <2>2. LET window == get_window_transitions(w, start, end)
            res == choose_auto_resolution(window, start, end)
        IN  /\ Len(build_signal_overview_segments(w, width, start, end, res, "hex")) <= kTargetSegments
            /\ \A r \in 1 .. res - 1 : estimated_segment_count_for(window, start, end, r) > kTargetSegments
    BY <2>1, AutoFits
  <2> QED
    BY <2>2 DEF w, width, start, end
<1> QED
  BY <1>4, <1>5, <1>6 DEF SummariesExact

(* In every file that the reader accepts, for every window and resolution, *)
(* the segments of an overview cover the window and show what point        *)
(* queries show, its bursts hide no transition, and the automatic          *)
(* resolution is the smallest that keeps it within its target.             *)
THEOREM SummariesAreExact == WaveSpec => []SummariesExact
<1>1. WaveInit => WInv /\ Declared
  BY InitHolds, DeclaredFirst
<1>2. WInv /\ Declared /\ [WaveNext]_waveVars => WInv' /\ Declared'
  BY StepHolds, DeclaredStep
<1>3. WInv /\ Declared => SummariesExact
  BY SummariesMeet
<1> QED
  BY <1>1, <1>2, <1>3, PTL DEF WaveSpec
=============================================================================
