------------------------------ MODULE RunCatalog ------------------------------
(***************************************************************************)
(* What the run harness promises its users: a growing set of labelled runs *)
(* and a file, stamp-labels, that says how many runs the suite has.  Runs  *)
(* are labelled in any order and stay labelled, and a number is recorded   *)
(* only when all the runs below it are labelled.                           *)
(***************************************************************************)
EXTENDS Integers

CONSTANT NumRuns  \* how many runs there may be, a positive number

VARIABLES
  labelled,  \* the runs that have a whole label
  catalog    \* a number of runs, or -2 (no file), or -1 (an empty file)

Complete(n) == 0 .. n - 1 \subseteq labelled

Init == labelled = {} /\ catalog = -2

LabelRun(r) ==
  /\ r \notin labelled
  /\ labelled' = labelled \cup {r}
  /\ UNCHANGED catalog

Truncate ==
  /\ \E n \in 1 .. NumRuns : Complete(n)
  /\ catalog' = -1
  /\ UNCHANGED labelled

Record(n) ==
  /\ catalog = -1
  /\ Complete(n)
  /\ catalog' = n
  /\ UNCHANGED labelled

Next ==
  \/ \E r \in 0 .. NumRuns - 1 : LabelRun(r)
  \/ Truncate
  \/ \E n \in 1 .. NumRuns : Record(n)

Spec == Init /\ [][Next]_<<labelled, catalog>>

=============================================================================
