---------------------------- MODULE MCRhythmboxRun ----------------------------
(***************************************************************************)
(* Instances of RhythmboxRun for TLC.  The module has no sizes: with or    *)
(* without commands that cannot be executed, its state space is complete.  *)
(***************************************************************************)
EXTENDS RhythmboxRun

AllExecuted == {}
ExecMayFail == {"exec"}

=============================================================================
