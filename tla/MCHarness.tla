------------------------------ MODULE MCHarness ------------------------------
(***************************************************************************)
(* Instances of Harness for TLC.  Two runs and two jobs let two children   *)
(* work at a time; one job makes the parent wait for a slot; two           *)
(* invocations are enough for one to start from what the other left.       *)
(***************************************************************************)
EXTENDS Harness

NoFault == {}
Crashes == {"crash"}
AllFaults == {"crash", "orphan"}

=============================================================================
