--------------------------- MODULE WaveDatabase ---------------------------
(***************************************************************************)
(* What a wave_agent_cli process holds in memory: the signals of one       *)
(* waveform file with their transitions, and the index that resolves a     *)
(* query without a bit range.  The file arrives line by line               *)
(* (VcdAdapter::Load); the database is built from it once and does not     *)
(* change afterwards.  FST files feed the same structure through a         *)
(* callback.  A path is a sequence of characters, which are numbers in     *)
(* the order of their ASCII codes; the characters that the code treats     *)
(* specially are CONSTANTS.                                                *)
(***************************************************************************)
EXTENDS Integers, Sequences

CONSTANTS
  Names,          \* what a $scope or $var line can name: sequences of Char
  Types,          \* the type of a $var line
  Widths,         \* its width
  Ids,            \* the identifier codes of the file
  Values,         \* what a value-change line says of a signal of each width
  Char, Dot, Bracket,   \* the characters; '.' and '[' among them
  Top,            \* the prefix "TOP."
  MaxTime,        \* bound: the last timestamp of the file
  MaxLines        \* bound: $scope, $upscope, $var and value-change lines

ASSUME WaveAssumption ==
  /\ Char \subseteq Nat /\ Dot \in Char /\ Bracket \in Char
  /\ Names \subseteq Seq(Char) /\ Top \in Seq(Char) /\ Top # <<>>
  /\ \A n \in Names : n # <<>> /\ n[Len(n)] # Dot
  /\ Top[Len(Top)] = Dot /\ \A i \in DOMAIN Top : Top[i] # Bracket
  /\ MaxTime \in Nat /\ MaxLines \in Nat

VARIABLES
  phase,    \* "reading" the file, "indexing" the paths, "ready", or "failed"
  scope,    \* current_scope
  now,      \* current_time
  info,     \* signal_info: path -> type, width and identifier code
  trans,    \* id_transitions: identifier code -> transitions
  base,     \* base_signal_path_cache: path without its range -> path
  ambiguous,   \* ambiguous_base_signal_paths
  pending,     \* paths that the loop over signal_info has still to visit
  lines        \* lines read, for MaxLines

file == <<scope, now, info, trans, lines>>
index == <<base, ambiguous, pending>>
waveVars == <<phase, file, index>>

(* A path is a sequence of names or a sequence of characters. *)
IsPrefixOf(p, s) == Len(p) <= Len(s) /\ SubSeq(s, 1, Len(p)) = p

StripTop(path) ==
  IF IsPrefixOf(Top, path) THEN SubSeq(path, Len(Top) + 1, Len(path)) ELSE path

StripBitSuffix(path) ==
  LET first == {i \in DOMAIN path : path[i] = Bracket /\ \A j \in 1..i-1 : path[j] # Bracket}
  IN  IF first = {} THEN path ELSE SubSeq(path, 1, (CHOOSE i \in first : TRUE) - 1)

HasBracket(path) == \E i \in DOMAIN path : path[i] = Bracket

Transitions == [t : 0..MaxTime, v : UNION {Values[n] : n \in Widths}, glitch : BOOLEAN]
Signals == [type : Types, width : Widths, id : Ids]

WaveTypes ==
  /\ phase \in {"reading", "indexing", "ready", "failed"}
  /\ scope \in Seq(Char) /\ now \in 0..MaxTime /\ lines \in 0..MaxLines
  /\ DOMAIN info \subseteq Seq(Char) /\ info \in [DOMAIN info -> Signals]
  /\ DOMAIN trans \subseteq Ids /\ trans \in [DOMAIN trans -> Seq(Transitions)]
  /\ DOMAIN base \subseteq Seq(Char) /\ base \in [DOMAIN base -> DOMAIN info]
  /\ ambiguous \subseteq Seq(Char) /\ pending \subseteq DOMAIN info

WaveInit ==
  /\ phase = "reading" /\ scope = <<>> /\ now = 0 /\ lines = 0
  /\ info = <<>> /\ trans = <<>> /\ base = <<>> /\ ambiguous = {} /\ pending = {}

Line == phase = "reading" /\ lines < MaxLines /\ lines' = lines + 1

(* A file declares its signals first, and an identifier with one width. *)
Declaring == now = 0 /\ \A d \in DOMAIN trans : trans[d] = <<>>

(* $scope: the joined names of the open scopes, each followed by a dot. *)
ReadScope(name) ==
  /\ Line /\ Declaring
  /\ scope' = scope \o name \o <<Dot>>
  /\ UNCHANGED <<phase, now, info, trans, index>>

(* $upscope: without an open scope it is ignored. *)
ReadUpscope ==
  /\ Line /\ Declaring
  /\ LET dots == {i \in 1..Len(scope) - 1 : scope[i] = Dot}
     IN  scope' = IF dots = {} THEN <<>>
                  ELSE SubSeq(scope, 1, CHOOSE i \in dots : \A j \in dots : j <= i)
  /\ UNCHANGED <<phase, now, info, trans, index>>

(* $var: a path that is declared twice keeps its last declaration. *)
ReadVar(name, signal) ==
  /\ Line /\ Declaring
  /\ \A p \in DOMAIN info : info[p].id = signal.id => info[p].width = signal.width
  /\ LET path == StripTop(scope \o name)
     IN  info' = [p \in DOMAIN info \cup {path} |-> IF p = path THEN signal ELSE info[p]]
  /\ trans' = [d \in DOMAIN trans \cup {signal.id} |-> IF d \in DOMAIN trans THEN trans[d] ELSE <<>>]
  /\ UNCHANGED <<phase, scope, now, index>>

(* #t: timestamps of a file do not decrease. *)
ReadTime(t) ==
  /\ phase = "reading" /\ t > now
  /\ now' = t
  /\ UNCHANGED <<phase, scope, info, trans, lines, index>>

(* A timestamp that is no number ends the load, and the process. *)
ReadMalformedTime ==
  /\ phase = "reading"
  /\ phase' = "failed"
  /\ UNCHANGED <<file, index>>

(* A change at the time of the last one marks both as a glitch. *)
Appended(w, t, v) ==
  LET n == Len(w)
      again == n > 0 /\ w[n].t = t
  IN  [i \in 1..n + 1 |->
        IF i = n + 1 THEN [t |-> t, v |-> v, glitch |-> again]
        ELSE IF again /\ i = n THEN [w[i] EXCEPT !.glitch = TRUE]
        ELSE w[i]]

(* A value change of an identifier that no $var declared is skipped. *)
ReadChange(id, v) ==
  /\ Line
  /\ id \in DOMAIN trans
  /\ \A p \in DOMAIN info : info[p].id = id => v \in Values[info[p].width]
  /\ trans' = [trans EXCEPT ![id] = Appended(trans[id], now, v)]
  /\ UNCHANGED <<phase, scope, now, info, index>>

EndOfFile ==
  /\ phase = "reading"
  /\ phase' = "indexing"
  /\ pending' = DOMAIN info
  /\ UNCHANGED <<file, base, ambiguous>>

(* Mutant: the third path of a stem enters the index again. *)
IndexPathAgain(path) ==
  LET stem == StripBitSuffix(path)
      known == stem \in DOMAIN base
  IN  /\ phase = "indexing" /\ path \in pending
      /\ pending' = pending \ {path}
      /\ base' = IF stem = path THEN base
                 ELSE IF known THEN [s \in DOMAIN base \ {stem} |-> base[s]]
                 ELSE [s \in DOMAIN base \cup {stem} |-> IF s = stem THEN path ELSE base[s]]
      /\ ambiguous' = IF stem # path /\ known THEN ambiguous \cup {stem} ELSE ambiguous
      /\ UNCHANGED <<phase, file>>

(* One turn of the loop over signal_info, a hash table: in any order. *)
IndexPath(path) ==
  LET stem == StripBitSuffix(path)
  IN  /\ phase = "indexing" /\ path \in pending
      /\ pending' = pending \ {path}
      /\ IF stem = path \/ stem \in ambiguous THEN UNCHANGED <<base, ambiguous>>
         ELSE IF stem \notin DOMAIN base
         THEN /\ base' = [s \in DOMAIN base \cup {stem} |-> IF s = stem THEN path ELSE base[s]]
              /\ UNCHANGED ambiguous
         ELSE /\ base' = [s \in DOMAIN base \ {stem} |-> base[s]]
              /\ ambiguous' = ambiguous \cup {stem}
      /\ UNCHANGED <<phase, file>>

Indexed ==
  /\ phase = "indexing" /\ pending = {}
  /\ phase' = "ready"
  /\ UNCHANGED <<file, index>>

WaveNext ==
  \/ \E n \in Names : ReadScope(n)
  \/ ReadUpscope
  \/ \E n \in Names, s \in Signals : ReadVar(n, s)
  \/ \E t \in 0..MaxTime : ReadTime(t)
  \/ ReadMalformedTime
  \/ \E d \in Ids : \E v \in UNION {Values[n] : n \in Widths} : ReadChange(d, v)
  \/ EndOfFile
  \/ \E p \in pending : IndexPath(p)
  \/ Indexed

WaveSpec == WaveInit /\ [][WaveNext]_waveVars

---------------------------------------------------------------------------
(* The path that a query means. *)
Resolve(path) ==
  LET bare == StripTop(path)
  IN  IF path \in DOMAIN info THEN path
      ELSE IF bare \in DOMAIN info THEN bare
      ELSE IF Top \o path \in DOMAIN info THEN Top \o path
      ELSE IF ~HasBracket(path) /\ bare \in DOMAIN base THEN base[bare]
      ELSE path

HasSignal(path) == Resolve(path) \in DOMAIN info

(* A transition is flagged as a glitch exactly when its signal has another *)
(* one at the same time, although the flag of the first is known only when *)
(* the second is read; and the list stays in the order of time, which the  *)
(* binary searches of all queries presuppose (VcdAdapter.cpp:135).         *)
InOrder(w) ==
  \A i, j \in DOMAIN w : i < j => w[i].t <= w[j].t
Flagged(w) ==
  \A i \in DOMAIN w : w[i].glitch <=> \E j \in DOMAIN w \ {i} : w[j].t = w[i].t
GlitchesFlagged == \A d \in DOMAIN trans : InOrder(trans[d]) /\ Flagged(trans[d])

(* In whatever order the hash table is walked, a path without its range    *)
(* stands for a signal exactly when one signal has that stem               *)
(* (WaveDatabase.cpp:100: two paths remove the entry, a third must not     *)
(* bring it back); with or without the prefix TOP.                         *)
StemIndex ==
  LET stemmed(s) == {p \in DOMAIN info : p # s /\ StripBitSuffix(p) = s}
      plain(s) == /\ ~IsPrefixOf(Top, s)
                  /\ {s, Top \o s, Top \o (Top \o s)} \cap DOMAIN info = {}
  IN  phase = "ready" =>
        \A s \in {StripBitSuffix(p) : p \in DOMAIN info} :
          plain(s) => \A path \in {s, Top \o s} :
            IF \E p \in DOMAIN info : stemmed(s) = {p}
            THEN stemmed(s) = {Resolve(path)}
            ELSE ~HasSignal(path)

(* What was read is indexed as it was written: no record is out of order   *)
(* or hides another one at its time, and every short name means one signal *)
(* (VcdAdapter.cpp:132, WaveDatabase.cpp:96).                              *)
DatabaseExact == WaveTypes /\ GlitchesFlagged /\ StemIndex
============================================================================
