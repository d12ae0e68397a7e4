------------------------------- MODULE SubjectRun -------------------------------
(***************************************************************************)
(* One run of the subjects bc, ccrypt, exif and moss: their run-once, then *)
(* their label-once, as MakeRuns runs them one after the other.       *)
(*                                                                         *)
(* moss runs the reference program and the faulty one under the watchdog   *)
(* (after an optional build of databases, variant "-") and compares the    *)
(* two executions; the others run one program and note its wait status.    *)
(***************************************************************************)
EXTENDS Watchdog

CONSTANTS
  Subjects, \* the subjects to consider
  Faults    \* what may go wrong: "watchdog" dies, "exec" fails, a "tool" fails

ASSUME SubjectAssumption ==
  /\ Subjects \subseteq {"bc", "ccrypt", "exif", "moss"}
  /\ Faults \subseteq {"watchdog", "exec", "tool"}

VARIABLES
  subject,
  variant,   \* the variant of the program that runs, or ran last
  good,      \* stdout and exit of the variant "good"
  reports,   \* the file of reports: none, part of it, or the whole
  outcome,   \* the file "outcome" of bc, ccrypt and exif, or bad/fail
  stage,     \* run-once: start, run, compare, done or died; then labelled
  label      \* the label file

vars == <<watchdogVars, subject, variant, good, reports, outcome, stage, label>>
runVars == <<subject, variant, good, reports, outcome, stage, label>>

None == As("none", 0)

Init ==
  /\ Fresh("unborn")
  /\ subject \in Subjects
  /\ variant = "none" /\ good = [stdout |-> <<>>, written |-> <<>>, exit |-> None]
  /\ reports = "none" /\ outcome = "none"
  /\ stage = "start" /\ label = "none"

Instrumented == subject # "moss" \/ variant = "bad"

-----------------------------------------------------------------------------
(* The program.  The sampler runtime writes the reports when it ends, be   *)
(* it by a signal, or does not get to it.                                  *)

Output ==
  /\ subject = "moss" /\ \E t \in Tokens : Write(t)
  /\ UNCHANGED runVars

Detach == CloseOutput /\ UNCHANGED runVars

ProgramEnds ==
  /\ \E e \in Ended \ {As("signal", 9)} : EndAs(e)
  /\ reports' \in IF Instrumented THEN {"none", "part", "whole"} ELSE {reports}
  /\ UNCHANGED <<subject, variant, good, outcome, stage, label>>

SigkillEnds ==
  /\ killed /\ EndAs(As("signal", 9))
  /\ reports' \in IF Instrumented THEN {"none", "part", "whole"} ELSE {reports}
  /\ UNCHANGED <<subject, variant, good, outcome, stage, label>>

-----------------------------------------------------------------------------
(* run-once of bc, ccrypt and exif.                                        *)

Spawn ==
  /\ stage = "start" /\ subject # "moss"
  /\ program' = As("running", 0) /\ open' = TRUE
  /\ stage' = "run"
  /\ UNCHANGED <<killed, written, pipe, buffer, place, log, exit,
                 subject, variant, good, reports, outcome, label>>

\* system returns -1.
SpawnFails ==
  /\ stage = "start" /\ subject \in {"bc", "exif"} /\ "exec" \in Faults
  /\ outcome' = "-1"
  /\ stage' = "done"
  /\ UNCHANGED <<watchdogVars, subject, variant, good, reports, label>>

\* Slip: the wait status is noted without its low byte.
NoteExitCode ==
  /\ stage = "run" /\ subject \in {"bc", "exif"} /\ ~IsRunning
  /\ outcome' = IF program = As("normal", 1) THEN "error" ELSE "zero"
  /\ stage' = "done"
  /\ UNCHANGED <<watchdogVars, subject, variant, good, reports, label>>

WaitStatus ==
  CASE program = As("normal", 0) -> "zero"
    [] program.kind = "signal"   -> "signal"
    [] OTHER                     -> "error"

\* note 'outcome', $outcome
NoteOutcome ==
  /\ stage = "run" /\ subject \in {"bc", "exif"} /\ ~IsRunning
  /\ outcome' = WaitStatus
  /\ stage' = "done"
  /\ UNCHANGED <<watchdogVars, subject, variant, good, reports, label>>

\* expect ends with the terminal; the exit status is undefined, and noted as an
\* empty line, unless the end of the program has been seen by then.
NoteExitStatus ==
  /\ stage = "run" /\ subject = "ccrypt" /\ ~open
  /\ outcome' \in {"empty"} \cup (IF IsRunning THEN {} ELSE {WaitStatus})
  /\ stage' = "done"
  /\ UNCHANGED <<watchdogVars, subject, variant, good, reports, label>>

-----------------------------------------------------------------------------
(* run-once of moss.                                                       *)

\* The databases of the options -r, if any, then good, then bad.
RunMoss(v) ==
  /\ subject = "moss"
  /\ \/ stage = "start" /\ v \in {"-", "good"} /\ UNCHANGED good
     \/ stage = "run" /\ place = "over" /\ variant = "-" /\ v = "good" /\ UNCHANGED good
     \/ /\ stage = "run" /\ place = "over" /\ variant = "good" /\ v = "bad"
        /\ good' = [stdout |-> log, written |-> written, exit |-> exit]
  /\ Launch
  /\ variant' = v /\ stage' = "run"
  /\ UNCHANGED <<subject, reports, outcome, label>>

\* diff "bad/stdout", diff "bad/exit"
Difference == IF log # good.stdout \/ exit # good.exit THEN "nonzero" ELSE "zero"

\* bad/fail
Compare ==
  /\ stage = "run" /\ variant = "bad" /\ place = "over"
  /\ outcome' = Difference
  /\ stage' = "done"
  /\ UNCHANGED <<watchdogVars, subject, variant, good, reports, label>>

\* check_system: the watchdog has crashed, the run is to be disregarded.
Fatal ==
  /\ stage = "run" /\ place = "dead"
  /\ stage' = "died"
  /\ UNCHANGED <<watchdogVars, subject, variant, good, reports, outcome, label>>

\* fatal, again: mkdir, touch or cmp has failed, or gzip, after bad/fail.
ToolFails ==
  /\ subject = "moss" /\ "tool" \in Faults
  /\ stage \in {"start", "run"} /\ place \in {"off", "over"}
  /\ outcome' \in {outcome} \cup (IF variant = "bad" THEN {Difference} ELSE {})
  /\ stage' = "died"
  /\ UNCHANGED <<watchdogVars, subject, variant, good, reports, label>>

WatchdogRuns == stage = "run" /\ WatchdogStep /\ UNCHANGED runVars

WatchdogDies == stage = "run" /\ "watchdog" \in Faults /\ Die /\ UNCHANGED runVars

-----------------------------------------------------------------------------
(* label-once.                                                             *)

\* Check::outcome, which reads an empty line as the number 0.
CheckOutcome ==
  CASE outcome \in {"zero", "empty"} -> "success"
    [] outcome \in {"signal", "-1"}  -> "failure"
    [] OTHER                         -> "success"

\* Slip: a reference that timed out is compared as well.
MossVerdictOnTimeout ==
  IF good.exit.kind = "signal" THEN "ignore"
  ELSE IF outcome = "zero" THEN "success" ELSE "failure"

MossVerdict ==
  IF good.exit.kind \in {"signal", "timeout"} THEN "ignore"
  ELSE IF outcome = "zero" THEN "success" ELSE "failure"

\* Check::reports is not called for exif.
LabelOnce ==
  IF subject # "exif" /\ reports # "whole" THEN "ignore"
  ELSE IF subject = "moss" THEN MossVerdict ELSE CheckOutcome

\* Only a run-once that exits with 0 is stamped and labelled.
Label ==
  /\ stage = "done"
  /\ label' = LabelOnce
  /\ stage' = "labelled"
  /\ UNCHANGED <<watchdogVars, subject, variant, good, reports, outcome>>

-----------------------------------------------------------------------------

Supervisor ==
  \/ Spawn \/ NoteOutcome \/ NoteExitStatus
  \/ \E v \in {"-", "good", "bad"} : RunMoss(v)
  \/ Compare \/ Fatal \/ Label

Next ==
  \/ Output \/ Detach \/ ProgramEnds \/ SigkillEnds
  \/ Supervisor \/ SpawnFails \/ ToolFails
  \/ WatchdogRuns \/ WatchdogDies

Spec == Init /\ [][Next]_vars

\* The watchdog and the scripts run on, time passes, and SIGKILL ends a
\* program.  Nothing is assumed of the programs.
Fairness == WF_vars(Supervisor) /\ WF_vars(WatchdogRuns) /\ WF_vars(SigkillEnds)

-----------------------------------------------------------------------------
(* Properties.                                                             *)

TypeOK ==
  /\ WatchdogTypeOK
  /\ subject \in Subjects
  /\ variant \in {"none", "-", "good", "bad"}
  /\ good.exit \in Ended \cup {None, As("timeout", 0)}
  /\ reports \in {"none", "part", "whole"}
  /\ outcome \in {"none", "zero", "nonzero", "signal", "error", "empty", "-1"}
  /\ stage \in {"start", "run", "done", "died", "labelled"}
  /\ label \in {"none", "ignore", "success", "failure"}

SameExecution == Visible(written) = Visible(good.written) /\ program = good.exit

\* A verdict on a run of moss is about the two programs themselves, whatever
\* the watchdog did: the reference ended by itself, and the faulty program is
\* said to succeed exactly if it wrote the same (as far as Visible tells) and
\* ended in the same way, or to fail because it was given up.
VerdictTrue ==
  subject = "moss" /\ label \in {"success", "failure"} =>
    /\ good.exit.kind = "normal"
    /\ label = "success" <=> SameExecution /\ exit.kind # "timeout"

\* A run of bc that is said to fail has crashed, and one that is said to
\* succeed has not; for exif too, if its program could be executed at all.
CrashLabelled ==
  (subject = "bc" \/ (subject = "exif" /\ outcome # "-1"))
    /\ label \in {"success", "failure"}
  => (label = "failure" <=> program.kind = "signal")

\* When a run is stamped, its programs have ended, so that its files no longer
\* change (of ccrypt, only the end of the terminal is awaited).
QuietWhenStamped ==
  stage \in {"done", "labelled"} /\ subject # "ccrypt" => ~IsRunning

\* The watchdog waits for the program without a limit of time: for the rest of
\* a line, or for the end of a program that has closed its output.
Stuck ==
  \/ place = "read" /\ Newlines = {} /\ pipe = <<>> /\ open
  \/ place = "close" /\ IsRunning

\* The time limit is one on silence: it ends no program that goes on printing.
OutputIsFinite == <>[][~Output]_vars

\* A run of moss comes to its end even if its programs hang, or fall silent
\* between two lines: the watchdog gives them up.  It does not if a program
\* prints for ever, or leaves the watchdog stuck.
MossRunEnds ==
  subject = "moss" /\ OutputIsFinite /\ []<>~Stuck => <>(stage \in {"labelled", "died"})

=================================================================================
