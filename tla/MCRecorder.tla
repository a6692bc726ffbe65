----------------------------- MODULE MCRecorder -----------------------------
(* Model of Recorder.tla: one recorder, every interleaving.  No counter needs  *)
(* a bound, the program counters only move forward.                            *)
EXTENDS Recorder
=============================================================================
