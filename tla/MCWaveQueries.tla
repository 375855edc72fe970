--------------------------- MODULE MCWaveQueries ---------------------------
(***************************************************************************)
(* Files of up to MaxLines lines.  Values change only in files that        *)
(* declare one signal, at the top: the queries look at one signal at a     *)
(* time.                                                                   *)
(***************************************************************************)
EXTENDS WaveQueries

MCChar == {1, 2, 3, 4}            \* in the order of '.', 'T', '[', 'a'
MCTop == <<2, 1>>
MCNames == {<<2>>, <<4>>, <<4, 3>>, <<4, 3, 3>>}
MCTypes == {"wire"}
MCWidths == {1, 2}
MCValues == [n \in MCWidths |->
  IF n = 1 THEN {<<"0">>, <<"1">>, <<"X">>}
  ELSE {<<"b", "0">>, <<"b", "1", "0">>, <<"b", "0", "0">>, <<"b", "1", "x">>}]

OneWave == (\E d \in DOMAIN trans : trans[d] # <<>>) \/ now > 0 => DOMAIN info = {<<4>>} /\ scope = <<>>
============================================================================
