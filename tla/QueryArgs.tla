----------------------------- MODULE QueryArgs -----------------------------
(***************************************************************************)
(* The arguments of the query commands, on the command line and in a line  *)
(* of `serve`: the options of each and one way to read them.  A command    *)
(* that is accepted is run, and a pattern that it compiles is not checked  *)
(* again (TraceQuery.cc, FindQuery.cc, HierQuery.cc, WhereIsQuery.cc).     *)
(***************************************************************************)
EXTENDS Integers, Sequences, SequencesExt

CONSTANTS Groups,       \* command |-> options with their values, as sequences of words
          MaxGroups,    \* bound: the number of options of a call
          Numeral,      \* words that are numbers |-> their value
          BadPatterns,  \* words that std::regex refuses
          Word          \* 2^64: numbers are read as unsigned words

(* The options of each command; one that is not a flag takes a value.      *)
Flags == {"--prefer-port-hop", "--regex", "--show-source", "--show-params"}
Patterns == {"--include", "--exclude", "--stop-at"}
Counts == {"--depth", "--max-nodes", "--limit"}
Options == [
  trace |-> {"--db", "--format", "--mode", "--signal", "--depth", "--cone-level", "--max-nodes", "--prefer-port-hop"}
            \cup Patterns,
  find |-> {"--db", "--format", "--query", "--regex", "--limit"},
  hier |-> {"--db", "--format", "--root", "--depth", "--max-nodes", "--show-source"},
  whereis |-> {"--db", "--format", "--instance", "--show-params"} ]
Required == [trace |-> {"--mode", "--signal"}, find |-> {"--query"}, hier |-> {}, whereis |-> {"--instance"}]

ParseOutputFormat(v) == {"text", "json"} \cap {v}
CompileUserRegex(v) == v \notin BadPatterns
Numbers(v, range) == {Numeral[w] : w \in {x \in DOMAIN Numeral \cap {v} : Numeral[x] \in range}}
(* std::stoull takes a sign: -1 is the largest word.                       *)
ParseUnsignedCliValue(v) == {k % Word : k \in Numbers(v, 1 - Word .. Word - 1)}

ASSUME ArgsAssumption ==
  /\ MaxGroups \in Nat /\ Word \in Nat \ {0}
  /\ DOMAIN Groups \subseteq DOMAIN Options
  /\ \A cmd \in DOMAIN Groups : \A g \in Groups[cmd] : g \in Seq(STRING) /\ Len(g) \in {1, 2}
  /\ \A w \in DOMAIN Numeral : Numeral[w] \in Int

(* The value that an option is given, in a set of at most one.             *)
Value(o, v) ==
  IF o \in Counts THEN ParseUnsignedCliValue(v)
  ELSE IF o = "--cone-level" THEN Numbers(v, 1 .. Word \div 2 - 1)    \* std::stoll
  ELSE IF o \in Patterns THEN {w \in {v} : CompileUserRegex(w)}
  ELSE IF o = "--format" THEN ParseOutputFormat(v)
  ELSE {v}

(* What has been read: an option that waits for its value, and the others. *)
NoOption == "none"
Reading(status, open, opts) == [status |-> status, open |-> open, opts |-> opts]
Unread == Reading("ok", NoOption, <<>>)
Failed(s) == Reading("error", s.open, s.opts)
Set(s, o, v) ==
  Reading(s.status, NoOption, [x \in DOMAIN s.opts \cup {o} |-> IF x = o THEN v ELSE s.opts[x]])
ReadWord(cmd, serve, s, w) ==
  IF s.status # "ok" THEN s
  ELSE IF s.open # NoOption
       THEN IF Value(s.open, w) = {} THEN Failed(s)
            ELSE Set(s, s.open, CHOOSE v \in Value(s.open, w) : TRUE)
  ELSE IF w = "--help" THEN Reading("help", NoOption, s.opts)
  ELSE IF w \notin Options[cmd] \/ (w = "--db" /\ serve) THEN Failed(s)
  ELSE IF w \in Flags THEN Set(s, w, TRUE)
  ELSE Reading("ok", w, s.opts)

(* What is checked when all words have been read.                          *)
Given(s, o) == o \in DOMAIN s.opts /\ s.opts[o] # ""
(* Mutant: the pattern of a query is not checked.                          *)
CheckNoPattern(cmd, serve, s) ==
  /\ s.open = NoOption /\ \A o \in Required[cmd] : Given(s, o)
  /\ serve \/ "--db" \in DOMAIN s.opts
  /\ cmd = "trace" => s.opts["--mode"] \in {"drivers", "loads"}
Check(cmd, serve, s) ==
  /\ s.open = NoOption /\ \A o \in Required[cmd] : Given(s, o)
  /\ serve \/ "--db" \in DOMAIN s.opts
  /\ cmd = "trace" => s.opts["--mode"] \in {"drivers", "loads"}
  /\ (cmd = "find" /\ "--regex" \in DOMAIN s.opts) => CompileUserRegex(s.opts["--query"])

ReadWords(cmd, serve, first, words) ==
  LET after[i \in 0 .. Len(words)] ==
        IF i = 0 THEN first ELSE ReadWord(cmd, serve, after[i - 1], words[i])
  IN  after[Len(words)]
ParseArgs(cmd, serve, words) ==
  LET s == ReadWords(cmd, serve, Unread, words)
  IN  IF s.status = "ok" /\ ~Check(cmd, serve, s) THEN Failed(s) ELSE s

---------------------------------------------------------------------------
VARIABLES call,      \* [cmd, serve, groups]
          parsed     \* what the call was read as
argVars == <<call, parsed>>

NoCall == [cmd |-> "none", serve |-> FALSE, groups |-> <<>>]
ArgsInit == call = NoCall /\ parsed = Reading("none", NoOption, <<>>)
ReadCall ==
  /\ call = NoCall
  /\ \E cmd \in DOMAIN Groups, serve \in BOOLEAN : \E gs \in SeqOf(Groups[cmd], MaxGroups) :
       /\ call' = [cmd |-> cmd, serve |-> serve, groups |-> gs]
       /\ parsed' = ParseArgs(cmd, serve, FlattenSeq(gs))

---------------------------------------------------------------------------
(* A command that is accepted can be run: what it needs is there, a        *)
(* database is named on the command line and never in a session, and every *)
(* pattern that is compiled while it runs compiles (FindQuery.cc:60        *)
(* "Validate at parse time so a malformed pattern is a reported error").   *)
AcceptedIsRunnable ==
  parsed.status = "ok" =>
    LET o == parsed.opts
        patterns == {o[x] : x \in Patterns \cap DOMAIN o}
                    \cup (IF call.cmd = "find" /\ "--regex" \in DOMAIN o THEN {o["--query"]} ELSE {})
    IN  /\ ("--db" \in DOMAIN o) <=> ~call.serve
        /\ patterns \cap BadPatterns = {}
        /\ "--cone-level" \in DOMAIN o => o["--cone-level"] \in 1 .. (Word \div 2 - 1)
        /\ call.cmd = "trace" => Given(parsed, "--mode") /\ Given(parsed, "--signal")

(* Options with their values mean the same in every order.                 *)
Complete(cmd, g) == g[1] # "--help" /\ (Len(g) = 2 <=> g[1] \in Options[cmd] \ Flags)
OrderFree ==
  LET gs == call.groups
      whole == \A i \in DOMAIN gs : Complete(call.cmd, gs[i])
      once == \A i, j \in DOMAIN gs : gs[i][1] = gs[j][1] => i = j
      other(f) == ParseArgs(call.cmd, call.serve, FlattenSeq([i \in DOMAIN gs |-> gs[f[i]]]))
  IN  (call # NoCall /\ whole /\ once) =>
        \A f \in Injection(DOMAIN gs, DOMAIN gs) :
          other(f).status = parsed.status /\ (parsed.status = "ok" => other(f).opts = parsed.opts)

(* An accepted command means one thing and can be run (FindQuery.cc:64).   *)
ArgumentsExact == AcceptedIsRunnable /\ OrderFree
============================================================================
