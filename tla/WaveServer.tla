---------------------------- MODULE WaveServer ----------------------------
(***************************************************************************)
(* One waveform, the wave_agent_cli daemons that are started for it        *)
(* (clients.py, WaveformDaemon; main.cpp) and the agents that share them.  *)
(* A daemon answers one line for each line it reads.  One command, the     *)
(* dump, writes a file: records into OUT.tmp, which then replaces OUT.     *)
(* Daemons die, are killed when they do not answer in time, and the steps  *)
(* on the files fail.                                                      *)
(***************************************************************************)
EXTENDS Integers, Sequences, FiniteSets

CONSTANTS
  Agents, None,
  Records,       \* lines of a dump
  MaxCalls, MaxFaults     \* bounds: tool calls; deaths, timeouts, failed steps

ASSUME WaveServerAssumption ==
  /\ Records \in Nat \ {0} /\ MaxCalls \in Nat /\ MaxFaults \in Nat
  /\ None \notin Agents

Daemons == 1..MaxFaults + 1
Cmds == {"query", "dump", "replace"}    \* replace: a dump with overwrite

VARIABLES
  daemon,    \* wave_daemons: the daemon of the waveform, or 0
  proc,      \* a daemon: "unborn", "loading", "serving", "exiting", "dead",
             \* or the next step of the dump that it executes
  job,       \* the command it executes
  stdin,     \* lines on their way to it
  cout,      \* lines on their way to the thread of its StdoutLineFilter
  stdout,    \* lines on their way to the agent
  qlock,     \* the agent in its query lock
  out, tmp,  \* the records of OUT and OUT.tmp, or None
  pc, call, id, sess,    \* an agent: next step, command, its number, daemon
  calls, faults,
  made,      \* history: OUT has existed
  gone       \* history: OUT was given up, see NothingLost

pipes == <<stdin, cout, stdout>>
server == <<proc, job, pipes>>
disk == <<out, tmp, made, gone>>
agent == <<pc, call, id, sess>>
vars == <<daemon, server, qlock, disk, agent, calls, faults>>

Tags == 0..MaxCalls                    \* 0: not a call of an agent
Dump(tag) == [i \in 1..Records |-> tag]
Jobs == [tag : Tags, cmd : Cmds]
Replies == [tag : Tags, kind : {"answer", "written", "error", "banner"}]
DumpSteps == {"open", "write", "replace", "rename", "cleanup"}

TypeOK ==
  /\ daemon \in Daemons \cup {0}
  /\ proc \in [Daemons -> {"unborn", "loading", "serving", "exiting", "dead"} \cup DumpSteps]
  /\ job \in [Daemons -> Jobs \cup {None}]
  /\ stdin \in [Daemons -> Seq(Jobs)]
  /\ cout \in [Daemons -> Seq(Replies)] /\ stdout \in [Daemons -> Seq(Replies)]
  /\ qlock \in [Daemons -> Agents \cup {None}]
  /\ out \in Seq(Tags) \cup {None} /\ tmp \in Seq(Tags) \cup {None}
  /\ pc \in [Agents -> {"idle", "get", "enter", "send", "read"}]
  /\ call \in [Agents -> Cmds] /\ id \in [Agents -> Tags] /\ sess \in [Agents -> Daemons \cup {0}]
  /\ calls \in 0..MaxCalls /\ faults \in 0..MaxFaults
  /\ made \in BOOLEAN /\ gone \in BOOLEAN

Init ==
  /\ daemon = 0
  /\ proc = [d \in Daemons |-> "unborn"] /\ job = [d \in Daemons |-> None]
  /\ stdin = [d \in Daemons |-> <<>>] /\ cout = stdin /\ stdout = stdin
  /\ qlock = [d \in Daemons |-> None]
  /\ out \in {None, Dump(0)} /\ made = (out # None) /\ gone = FALSE
  /\ tmp = None
  /\ pc = [a \in Agents |-> "idle"] /\ call = [a \in Agents |-> "query"]
  /\ id = [a \in Agents |-> 0] /\ sess = [a \in Agents |-> 0]
  /\ calls = 0 /\ faults = 0

Alive(d) == proc[d] \notin {"unborn", "dead"}
Fault == faults < MaxFaults /\ faults' = faults + 1
Goto(a, label) == pc' = [pc EXCEPT ![a] = label]
Step(d, label) == proc' = [proc EXCEPT ![d] = label]

(* _stop_process: the process is gone and so are its pipes. *)
Kill(d) ==
  /\ Step(d, "dead")
  /\ job' = [job EXCEPT ![d] = None]
  /\ stdin' = [stdin EXCEPT ![d] = <<>>]
  /\ cout' = [cout EXCEPT ![d] = <<>>]
  /\ stdout' = [stdout EXCEPT ![d] = <<>>]

---------------------------------------------------------------------------
(* The agents: _wave_query. *)
Call(a, cmd) ==
  /\ pc[a] = "idle" /\ calls < MaxCalls
  /\ calls' = calls + 1
  /\ call' = [call EXCEPT ![a] = cmd] /\ id' = [id EXCEPT ![a] = calls + 1]
  /\ Goto(a, "get")
  /\ UNCHANGED <<daemon, server, qlock, disk, sess, faults>>

(* Mutant: a daemon that is busy is not shared. *)
GetIdle(a) ==
  /\ pc[a] = "get"
  /\ \/ /\ daemon # 0 /\ Alive(daemon) /\ qlock[daemon] = None
        /\ sess' = [sess EXCEPT ![a] = daemon]
        /\ UNCHANGED <<daemon, proc>>
     \/ /\ daemon # 0 => qlock[daemon] # None
        /\ \E d \in Daemons : /\ proc[d] = "unborn"
                              /\ daemon' = d /\ Step(d, "loading")
                              /\ sess' = [sess EXCEPT ![a] = d]
  /\ Goto(a, "enter")
  /\ UNCHANGED <<job, pipes, qlock, disk, call, id, calls, faults>>

(* _get_wave_daemon, under runtime_state_lock: the daemon that runs, or a  *)
(* new one.  stop() of the old one waits for the query that is in it.      *)
Get(a) ==
  /\ pc[a] = "get"
  /\ \/ /\ daemon # 0 /\ Alive(daemon)
        /\ sess' = [sess EXCEPT ![a] = daemon]
        /\ UNCHANGED <<daemon, server>>
     \/ /\ daemon # 0 => ~Alive(daemon) /\ qlock[daemon] = None
        /\ LET d == CHOOSE d \in Daemons : proc[d] = "unborn" /\ \A e \in 1..d - 1 : proc[e] # "unborn"
               Closed(pipe) == [e \in Daemons |-> IF e = daemon THEN <<>> ELSE pipe[e]]
           IN  /\ daemon' = d
               /\ Step(d, "loading")
               /\ sess' = [sess EXCEPT ![a] = d]
               /\ stdin' = Closed(stdin) /\ cout' = Closed(cout) /\ stdout' = Closed(stdout)
               /\ UNCHANGED job
  /\ Goto(a, "enter")
  /\ UNCHANGED <<qlock, disk, call, id, calls, faults>>

Enter(a) ==
  LET d == sess[a]
  IN  /\ pc[a] = "enter" /\ qlock[d] = None
      /\ qlock' = [qlock EXCEPT ![d] = a]
      /\ Goto(a, "send")
      /\ UNCHANGED <<daemon, server, disk, call, id, sess, calls, faults>>

Return(a) ==
  /\ Goto(a, "idle")
  /\ qlock' = [qlock EXCEPT ![sess[a]] = None]
  /\ call' = [call EXCEPT ![a] = "query"] /\ id' = [id EXCEPT ![a] = 0] /\ sess' = [sess EXCEPT ![a] = 0]
  /\ UNCHANGED <<daemon, disk, calls>>

(* The pipe of a process that is gone raises. *)
Send(a) ==
  LET d == sess[a]
  IN  /\ pc[a] = "send"
      /\ IF Alive(d)
         THEN /\ stdin' = [stdin EXCEPT ![d] = Append(@, [tag |-> id[a], cmd |-> call[a]])]
              /\ Goto(a, "read")
              /\ UNCHANGED <<daemon, qlock, disk, call, id, sess, calls>>
         ELSE Return(a) /\ UNCHANGED stdin
      /\ UNCHANGED <<proc, job, cout, stdout, faults>>

Read(a) ==
  LET d == sess[a]
  IN  /\ pc[a] = "read"
      /\ IF stdout[d] = <<>> THEN ~Alive(d) /\ UNCHANGED stdout
         ELSE stdout' = [stdout EXCEPT ![d] = Tail(@)]
      /\ Return(a)
      /\ UNCHANGED <<proc, job, stdin, cout, faults>>

(* Mutant: a daemon that does not answer in time is left alone. *)
TimeoutOnly(a) ==
  /\ pc[a] = "read" /\ stdout[sess[a]] = <<>> /\ Alive(sess[a])
  /\ Fault
  /\ Return(a)
  /\ UNCHANGED server

Timeout(a) ==
  /\ pc[a] = "read" /\ stdout[sess[a]] = <<>> /\ Alive(sess[a])
  /\ Fault
  /\ Kill(sess[a])
  /\ Return(a)

---------------------------------------------------------------------------
(* The daemon: main(). *)
Say(d, tag, kind) == cout' = [cout EXCEPT ![d] = Append(@, [tag |-> tag, kind |-> kind])]

(* A reader library may print a banner; a load that fails prints a line.   *)
Load(d) ==
  /\ proc[d] = "loading"
  /\ \/ Step(d, "serving") /\ UNCHANGED <<cout, faults>>
     \/ Step(d, "serving") /\ Say(d, 0, "banner") /\ UNCHANGED faults
     \/ Fault /\ Step(d, "exiting") /\ Say(d, 0, "error")
  /\ UNCHANGED <<daemon, job, stdin, stdout, qlock, disk, agent, calls>>

GetLine(d) ==
  /\ proc[d] = "serving" /\ stdin[d] # <<>>
  /\ job' = [job EXCEPT ![d] = Head(stdin[d])]
  /\ stdin' = [stdin EXCEPT ![d] = Tail(@)]
  /\ IF Head(stdin[d]).cmd = "query"
     THEN Say(d, Head(stdin[d]).tag, "answer") /\ UNCHANGED proc
     ELSE Step(d, "open") /\ UNCHANGED cout
  /\ UNCHANGED <<daemon, stdout, qlock, disk, agent, calls, faults>>

Reply(d, kind) == Step(d, "serving") /\ Say(d, job[d].tag, kind)

dumping == <<daemon, job, stdin, stdout, qlock, agent, calls>>

(* dump_waveform_data: nothing is touched when OUT must be kept; else      *)
(* OUT.tmp is truncated.                                                   *)
DumpOpen(d) ==
  /\ proc[d] = "open"
  /\ \/ /\ out # None /\ job[d].cmd # "replace"
        /\ Reply(d, "error")
        /\ UNCHANGED <<tmp, faults>>
     \/ /\ out = None \/ job[d].cmd = "replace"
        /\ \/ Step(d, "write") /\ tmp' = <<>> /\ UNCHANGED <<cout, faults>>
           \/ Fault /\ Reply(d, "error") /\ UNCHANGED tmp
  /\ gone' = (gone \/ (made /\ out = None))
  /\ UNCHANGED <<dumping, out, made>>

(* Mutant: a failed write is noticed, but OUT.tmp is renamed all the same. *)
DumpWriteBlind(d) ==
  /\ proc[d] = "write"
  /\ \/ /\ Len(tmp) < Records
        /\ tmp' = Append(tmp, job[d].tag)
        /\ UNCHANGED <<proc, cout, faults>>
     \/ Len(tmp) = Records /\ Step(d, "replace") /\ UNCHANGED <<tmp, cout, faults>>
     \/ Fault /\ Step(d, "replace") /\ UNCHANGED <<tmp, cout>>
  /\ UNCHANGED <<dumping, out, made, gone>>

(* A record, the end, a failed write, or an exception: without a sample    *)
(* period, "samples" throws with OUT.tmp open.                             *)
DumpWrite(d) ==
  /\ proc[d] = "write"
  /\ \/ /\ Len(tmp) < Records
        /\ tmp' = Append(tmp, job[d].tag)
        /\ UNCHANGED <<proc, cout, faults>>
     \/ Len(tmp) = Records /\ Step(d, "replace") /\ UNCHANGED <<tmp, cout, faults>>
     \/ Fault /\ Step(d, "cleanup") /\ UNCHANGED <<tmp, cout>>
     \/ tmp = <<>> /\ Reply(d, "error") /\ UNCHANGED <<tmp, faults>>
  /\ UNCHANGED <<dumping, out, made, gone>>

(* An existing OUT is removed first. *)
DumpReplace(d) ==
  /\ proc[d] = "replace"
  /\ \/ /\ Step(d, "rename")
        /\ out' = IF job[d].cmd = "replace" THEN None ELSE out
        /\ UNCHANGED faults
     \/ /\ out # None /\ Fault
        /\ Step(d, "cleanup")
        /\ UNCHANGED out
  /\ UNCHANGED <<dumping, cout, tmp, made, gone>>

DumpRename(d) ==
  /\ proc[d] = "rename"
  /\ \/ /\ out' = tmp /\ tmp' = None /\ made' = TRUE
        /\ Reply(d, "written")
        /\ UNCHANGED <<gone, faults>>
     \/ /\ Fault /\ Step(d, "cleanup")
        /\ gone' = (gone \/ out = None)
        /\ UNCHANGED <<out, tmp, made, cout>>
  /\ UNCHANGED dumping

(* Mutant: a dump that failed is not answered. *)
DumpCleanupSilent(d) ==
  /\ proc[d] = "cleanup"
  /\ tmp' = None
  /\ Step(d, "serving")
  /\ UNCHANGED <<dumping, cout, out, made, gone, faults>>

DumpCleanup(d) ==
  /\ proc[d] = "cleanup"
  /\ tmp' = None
  /\ Reply(d, "error")
  /\ UNCHANGED <<dumping, out, made, gone, faults>>

(* The filter's thread forwards every line that is not a banner. *)
Forward(d) ==
  /\ Alive(d) /\ cout[d] # <<>>
  /\ cout' = [cout EXCEPT ![d] = Tail(@)]
  /\ stdout' = IF Head(cout[d]).kind = "banner" THEN stdout
               ELSE [stdout EXCEPT ![d] = Append(@, Head(cout[d]))]
  /\ UNCHANGED <<daemon, proc, job, stdin, qlock, disk, agent, calls, faults>>

(* main returns: the destructor of the filter joins its thread first. *)
Exit(d) ==
  /\ proc[d] = "exiting" /\ cout[d] = <<>>
  /\ Step(d, "dead")
  /\ UNCHANGED <<daemon, job, pipes, qlock, disk, agent, calls, faults>>

(* A crash: what the filter holds is lost, what is in the pipe is not. *)
Die(d) ==
  /\ Alive(d) /\ Fault
  /\ Step(d, "dead")
  /\ cout' = [cout EXCEPT ![d] = <<>>]
  /\ UNCHANGED <<daemon, job, stdin, stdout, qlock, disk, agent, calls>>

Work(d) ==
  \/ Load(d) \/ GetLine(d) \/ Forward(d) \/ Exit(d)
  \/ DumpOpen(d) \/ DumpWrite(d) \/ DumpReplace(d) \/ DumpRename(d) \/ DumpCleanup(d)
Agent(a) == Get(a) \/ Enter(a) \/ Send(a) \/ Read(a)

Next ==
  \/ \E a \in Agents : Agent(a) \/ Timeout(a) \/ \E cmd \in Cmds : Call(a, cmd)
  \/ \E d \in Daemons : Work(d) \/ Die(d)

Spec == Init /\ [][Next]_vars

(* Agents are threads; a daemon runs until it has to wait. *)
FairSpec == Spec /\ (\A a \in Agents : WF_vars(Agent(a))) /\ (\A d \in Daemons : WF_vars(Work(d)))

---------------------------------------------------------------------------
(* A line in a pipe answers the query that holds the lock: nobody reads    *)
(* the answer to another one, also after a death, a timeout or a load that *)
(* failed.  A failed load answers the query that comes first               *)
(* (clients.py:449: one line is read for one line that was sent).          *)
OwnAnswer ==
  \A d \in Daemons : \A i \in DOMAIN stdout[d] :
    stdout[d][i].tag # 0 => i = 1 /\ qlock[d] # None /\ id[qlock[d]] = stdout[d][i].tag

(* Only one process works for the waveform and on the files: a daemon that *)
(* was given up is dead before the next one starts (clients.py:475).       *)
OneDaemon == \A d, e \in Daemons : Alive(d) /\ Alive(e) => d = e

(* OUT is a whole dump whenever it exists, and the dump of which the agent *)
(* has still to read the success (AgentAPI.cpp:1414: failed writes, stale  *)
(* OUT.tmp, dumps that follow each other).                                 *)
WholeOutput ==
  /\ out # None => \E tag \in Tags : out = Dump(tag)
  /\ \A d \in Daemons : \A i \in DOMAIN stdout[d] :
       stdout[d][i].kind = "written" /\ Alive(d) => out = Dump(stdout[d][i].tag)

(* OUT is removed before OUT.tmp takes its place.  Who crashes in between, *)
(* or is killed because the dump takes too long, leaves a whole OUT.tmp.   *)
(* Both are lost in two ways only: the rename fails (AgentAPI.cpp:1428),   *)
(* or a later dump truncates that OUT.tmp.                                 *)
NothingLost ==
  made /\ out = None =>
    gone \/ \E tag \in Tags : tmp = Dump(tag)

(* Every call returns: no lock is left taken and no line is waited for     *)
(* that does not come, with or without deaths and timeouts.                *)
CallsReturn == \A a \in Agents : pc[a] # "idle" ~> pc[a] = "idle"

(* The file of a dump, whoever dumps, dies or is killed, is whole, of the  *)
(* call that was told so, and lost only in the ways above; and without     *)
(* overwrite an existing file is never touched (AgentAPI.cpp:1283,         *)
(* waveform_explorer/README.md:114).                                       *)
OutputSafe ==
  [][ /\ WholeOutput' /\ NothingLost'
      /\ (out # None /\ out' # out => \E a \in Agents : call[a] = "replace" /\ pc[a] = "read")]_vars
============================================================================
