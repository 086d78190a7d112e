----------------------------- MODULE MCRecorder -----------------------------
(***************************************************************************)
(* TLC instance of Recorder.                                               *)
(***************************************************************************)
EXTENDS Recorder
=============================================================================
