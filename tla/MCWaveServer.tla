---------------------------- MODULE MCWaveServer ----------------------------
(***************************************************************************)
(* Two agents and up to three calls, with up to two faults.                *)
(***************************************************************************)
EXTENDS WaveServer
============================================================================
