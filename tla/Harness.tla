------------------------------- MODULE Harness -------------------------------
(***************************************************************************)
(* The run harness: bin/make-runs, with its base classes TaskRunner,       *)
(* RunsRunner and MakeRuns.                                                *)
(*                                                                         *)
(* A make-runs process (the parent) walks over the run numbers, skips the  *)
(* runs that already have a "label" file, and forks one child per          *)
(* remaining run, at most Jobs at a time.  A child clears and recreates    *)
(* the run directory, executes the subject program there (run-once), and   *)
(* has its outcome judged (label-once).  When every task went well the     *)
(* parent records the number of runs in data/stamp-labels.                 *)
(*                                                                         *)
(* Everything the processes share is on disk, so the module is about the   *)
(* files: what an interrupted invocation leaves behind is what the next    *)
(* invocation starts from.                                                 *)
(***************************************************************************)
EXTENDS Integers, FiniteSets

CONSTANTS
  NumRuns,         \* the run numbers are 0 .. NumRuns-1
  Jobs,            \* value of --jobs
  MaxInvocations,  \* how many times make-runs is started (bounds the model)
  Faults           \* which of "crash", "orphan" the environment may cause

ASSUME HarnessAssumption ==
  /\ NumRuns \in Nat \ {0}
  /\ Jobs \in Nat \ {0}                   \* make-runs: $jobs = 1 if $jobs < 1
  /\ MaxInvocations \in Nat
  /\ Faults \subseteq {"crash", "orphan"}

Runs == 0 .. NumRuns - 1
Invocations == 1 .. MaxInvocations        \* names an invocation and its children

\* What data/stamp-labels holds besides a number of runs.
Missing == -2                             \* no such file
Blank   == -1                             \* truncated, nothing written yet

VARIABLES
  inv,        \* the current (or latest) invocation
  pc,         \* where that make-runs process is
  task,       \* the next run it considers
  goal,       \* its <num-runs> argument
  children,   \* $self->{children}
  error,      \* $self->{error}
  updated,    \* $self->{updated}
  child,      \* child[i][r]: the child that invocation i forked for run r
  exists,     \* exists[r]: run r has a directory
  inside,     \* inside[r]: invocations whose child has that directory as cwd
  data,       \* data[r]: invocations whose run-once output is in it
  stamp,      \* stamp[r]: it holds a "stamp" file
  label,      \* label[r]: its "label" file is "none", "empty" or "whole"
  holders,    \* holders[r]: invocations whose child has that file as stdout
  basis,      \* basis[r]: the output that the whole label was computed from
  catalog,    \* data/stamp-labels
  shutdown    \* a file "orderly-shutdown" exists

parentVars == <<inv, pc, task, goal, children, error, updated>>
dirVars == <<exists, inside, data, stamp, label, holders, basis>>
vars == <<parentVars, child, dirVars, catalog, shutdown>>

Idle == {"idle", "exit0", "exit1", "died"}      \* no make-runs is running
Busy == {"loop", "slot", "drain", "publish", "print"}

Live   == {"clear", "rmdir", "mkdir", "run", "stamp", "open", "judge"}
Zombie == {"ok", "bad"}                         \* exited, not waited for
Past   == {"reaped ok", "reaped bad", "gone"}

TypeOK ==
  /\ inv \in 0 .. MaxInvocations
  /\ pc \in Idle \cup Busy
  /\ pc = "idle" <=> inv = 0
  /\ task \in 0 .. NumRuns
  /\ goal \in 0 .. NumRuns
  /\ children \in 0 .. Jobs
  /\ error \in BOOLEAN /\ updated \in BOOLEAN
  /\ child \in [Invocations -> [Runs -> {"none"} \cup Live \cup Zombie \cup Past]]
  /\ exists \in [Runs -> BOOLEAN]
  /\ inside \in [Runs -> SUBSET Invocations]
  /\ data \in [Runs -> SUBSET Invocations]
  /\ stamp \in [Runs -> BOOLEAN]
  /\ label \in [Runs -> {"none", "empty", "whole"}]
  /\ holders \in [Runs -> SUBSET Invocations]
  /\ basis \in [Runs -> SUBSET Invocations]
  /\ catalog \in {Missing, Blank} \cup 0 .. NumRuns
  /\ shutdown \in BOOLEAN

Init ==
  /\ inv = 0 /\ pc = "idle" /\ task = 0 /\ goal = 0
  /\ children = 0 /\ error = FALSE /\ updated = FALSE
  /\ child = [i \in Invocations |-> [r \in Runs |-> "none"]]
  /\ exists = [r \in Runs |-> FALSE]
  /\ inside = [r \in Runs |-> {}]
  /\ data = [r \in Runs |-> {}]
  /\ stamp = [r \in Runs |-> FALSE]
  /\ label = [r \in Runs |-> "none"]
  /\ holders = [r \in Runs |-> {}]
  /\ basis = [r \in Runs |-> {}]
  /\ catalog = Missing
  /\ shutdown = FALSE

-----------------------------------------------------------------------------
(* The parent: make-runs and TaskRunner::run_tasks.                        *)

\* Slip: a run that was already labelled is done again.
EveryTaskNecessary(r) == TRUE

necessary_task(r) == label[r] = "none"

\* "make-runs --start=s n".  The option says that the runs below s have
\* already been done, so a user only gives it when they are labelled.
Start(s, n) ==
  /\ pc \in Idle
  /\ inv < MaxInvocations
  /\ s < n
  /\ \A r \in 0 .. s - 1 : label[r] # "none"
  /\ inv' = inv + 1
  /\ pc' = "loop"
  /\ task' = s /\ goal' = n
  /\ children' = 0 /\ error' = FALSE /\ updated' = FALSE
  /\ UNCHANGED <<child, dirVars, catalog, shutdown>>

\* Slip: an orderly shutdown is not an error.
QuietShutdown ==
  /\ pc = "loop" /\ task < goal /\ shutdown
  /\ pc' = "drain"
  /\ UNCHANGED <<inv, task, goal, children, error, updated, child, dirVars, catalog, shutdown>>

SeeShutdown ==
  /\ pc = "loop" /\ task < goal /\ shutdown
  /\ error' = TRUE
  /\ pc' = "drain"
  /\ UNCHANGED <<inv, task, goal, children, updated, child, dirVars, catalog, shutdown>>

SkipTask ==
  /\ pc = "loop" /\ task < goal /\ ~shutdown
  /\ ~necessary_task(task)
  /\ task' = task + 1
  /\ UNCHANGED <<inv, pc, goal, children, error, updated, child, dirVars, catalog, shutdown>>

TakeTask ==
  /\ pc = "loop" /\ task < goal /\ ~shutdown
  /\ necessary_task(task)
  /\ pc' = "slot"
  /\ UNCHANGED <<inv, task, goal, children, error, updated, child, dirVars, catalog, shutdown>>

EndOfTasks ==
  /\ pc = "loop" /\ task = goal
  /\ pc' = "drain"
  /\ UNCHANGED <<inv, task, goal, children, error, updated, child, dirVars, catalog, shutdown>>

\* Slip: one job too many.
SlotFreeOffByOne == children <= Jobs

SlotFree == children < Jobs

\* TaskRunner calls reap while there is no free slot and, at the end, while
\* there are children.
Waiting ==
  \/ pc = "slot" /\ ~SlotFree
  \/ pc = "drain" /\ children > 0

Buried(state) == IF state = "bad" THEN "reaped bad" ELSE "reaped ok"

\* Slips in reap: the child is counted twice, is not discounted, or its good
\* exit hides an earlier bad one.
ReapTwice(r) ==
  /\ Waiting /\ child[inv][r] \in Zombie
  /\ error' = (error \/ child[inv][r] = "bad")
  /\ child' = [child EXCEPT ![inv][r] = Buried(@)]
  /\ children' = children - 2
  /\ updated' = TRUE
  /\ UNCHANGED <<inv, pc, task, goal, dirVars, catalog, shutdown>>

ReapKeepsCount(r) ==
  /\ Waiting /\ child[inv][r] \in Zombie
  /\ error' = (error \/ child[inv][r] = "bad")
  /\ child' = [child EXCEPT ![inv][r] = Buried(@)]
  /\ updated' = TRUE
  /\ UNCHANGED <<inv, pc, task, goal, children, dirVars, catalog, shutdown>>

ReapForgets(r) ==
  /\ Waiting /\ child[inv][r] \in Zombie
  /\ error' = (child[inv][r] = "bad")
  /\ child' = [child EXCEPT ![inv][r] = Buried(@)]
  /\ children' = children - 1
  /\ updated' = TRUE
  /\ UNCHANGED <<inv, pc, task, goal, dirVars, catalog, shutdown>>

\* TaskRunner::reap: wait() returns any child that has exited.
Reap(r) ==
  /\ Waiting /\ child[inv][r] \in Zombie
  /\ error' = (error \/ child[inv][r] = "bad")
  /\ child' = [child EXCEPT ![inv][r] = Buried(@)]
  /\ children' = children - 1
  /\ updated' = TRUE
  /\ UNCHANGED <<inv, pc, task, goal, dirVars, catalog, shutdown>>

\* last if $self->{error}
GiveUp ==
  /\ pc = "slot" /\ SlotFree /\ error
  /\ pc' = "drain"
  /\ UNCHANGED <<inv, task, goal, children, error, updated, child, dirVars, catalog, shutdown>>

Fork ==
  /\ pc = "slot" /\ SlotFree /\ ~error
  /\ child' = [child EXCEPT ![inv][task] = "clear"]
  /\ children' = children + 1
  /\ task' = task + 1
  /\ pc' = "loop"
  /\ UNCHANGED <<inv, goal, error, updated, dirVars, catalog, shutdown>>

\* Slip: exit 1 if $runner->{error} is forgotten.
FinishAnyway ==
  /\ pc = "drain" /\ children = 0
  /\ pc' = IF updated THEN "publish" ELSE "exit0"
  /\ UNCHANGED <<inv, task, goal, children, error, updated, child, dirVars, catalog, shutdown>>

\* run_tasks has returned: the end of make-runs.
Finish ==
  /\ pc = "drain" /\ children = 0
  /\ pc' = IF error THEN "exit1" ELSE IF updated THEN "publish" ELSE "exit0"
  /\ UNCHANGED <<inv, task, goal, children, error, updated, child, dirVars, catalog, shutdown>>

OpenCatalog ==
  /\ pc = "publish"
  /\ catalog' = Blank
  /\ pc' = "print"
  /\ UNCHANGED <<inv, task, goal, children, error, updated, child, dirVars, shutdown>>

PrintCatalog ==
  /\ pc = "print"
  /\ catalog' = goal
  /\ pc' = "exit0"
  /\ UNCHANGED <<inv, task, goal, children, error, updated, child, dirVars, shutdown>>

ParentStep ==
  \/ SeeShutdown \/ SkipTask \/ TakeTask \/ EndOfTasks
  \/ \E r \in Runs : Reap(r)
  \/ GiveUp \/ Fork \/ Finish \/ OpenCatalog \/ PrintCatalog

-----------------------------------------------------------------------------
(* A child: MakeRuns::run_task for run r, forked by invocation i.  Its     *)
(* relative file names work only while its cwd is still linked, that is    *)
(* while i \in inside[r].                                                  *)

At(i, r, from, to) ==
  /\ child[i][r] = from
  /\ child' = [child EXCEPT ![i][r] = to]
  /\ UNCHANGED <<parentVars, catalog, shutdown>>

\* Slip: the directory is reused as it is.
KeepDir(i, r) ==
  /\ At(i, r, "clear", "rmdir")
  /\ UNCHANGED dirVars

\* rmtree, first half: every file of the directory goes.
ClearDir(i, r) ==
  /\ At(i, r, "clear", "rmdir")
  /\ data' = [data EXCEPT ![r] = {}]
  /\ stamp' = [stamp EXCEPT ![r] = FALSE]
  /\ label' = [label EXCEPT ![r] = "none"]
  /\ holders' = [holders EXCEPT ![r] = {}]
  /\ basis' = [basis EXCEPT ![r] = {}]
  /\ UNCHANGED <<exists, inside>>

\* rmtree, second half.  rmdir fails, with a mere warning, when some process
\* has created a file in the meantime.
RemoveDir(i, r) ==
  LET empty == data[r] = {} /\ ~stamp[r] /\ label[r] = "none" IN
  /\ At(i, r, "rmdir", "mkdir")
  /\ exists' = [exists EXCEPT ![r] = IF empty THEN FALSE ELSE @]
  /\ inside' = [inside EXCEPT ![r] = IF empty THEN {} ELSE @]
  /\ UNCHANGED <<data, stamp, label, holders, basis>>

\* mkpath and chdir.
MakeDir(i, r) ==
  /\ At(i, r, "mkdir", "run")
  /\ exists' = [exists EXCEPT ![r] = TRUE]
  /\ inside' = [inside EXCEPT ![r] = @ \cup {i}]
  /\ UNCHANGED <<data, stamp, label, holders, basis>>

\* system run_once.  Its own output files need the directory.
RunOnce(i, r) ==
  /\ i \in inside[r]
  /\ At(i, r, "run", "stamp")
  /\ data' = [data EXCEPT ![r] = @ \cup {i}]
  /\ UNCHANGED <<exists, inside, stamp, label, holders, basis>>

RunOnceFails(i, r) ==
  /\ At(i, r, "run", "bad")
  /\ data' = [data EXCEPT ![r] = IF i \in inside[r] THEN @ \cup {i} ELSE @]
  /\ UNCHANGED <<exists, inside, stamp, label, holders, basis>>

\* Slip: wait until the file can be created.
StampWhenPossible(i, r) ==
  /\ i \in inside[r]
  /\ At(i, r, "stamp", "open")
  /\ stamp' = [stamp EXCEPT ![r] = TRUE]
  /\ UNCHANGED <<exists, inside, data, label, holders, basis>>

\* new FileHandle 'stamp', 'w' or die
WriteStamp(i, r) ==
  LET ok == i \in inside[r] IN
  /\ At(i, r, "stamp", IF ok THEN "open" ELSE "bad")
  /\ stamp' = [stamp EXCEPT ![r] = @ \/ ok]
  /\ UNCHANGED <<exists, inside, data, label, holders, basis>>

\* open STDOUT, '>', 'label' or die: creates or truncates the file.
OpenLabel(i, r) ==
  LET ok == i \in inside[r] IN
  /\ At(i, r, "open", IF ok THEN "judge" ELSE "bad")
  /\ label' = [label EXCEPT ![r] = IF ok THEN "empty" ELSE @]
  /\ holders' = [holders EXCEPT ![r] = IF ok THEN @ \cup {i} ELSE @]
  /\ basis' = [basis EXCEPT ![r] = IF ok THEN {} ELSE @]
  /\ UNCHANGED <<exists, inside, data, stamp>>

\* system label_once: Check::stamp, then the verdict goes to the inherited
\* stdout, which may have been unlinked since.
LabelOnce(i, r) ==
  LET kept == i \in holders[r] IN
  /\ i \in inside[r] /\ stamp[r]
  /\ At(i, r, "judge", "ok")
  /\ label' = [label EXCEPT ![r] = IF kept THEN "whole" ELSE @]
  /\ basis' = [basis EXCEPT ![r] = IF kept THEN data[r] ELSE @]
  /\ UNCHANGED <<exists, inside, data, stamp, holders>>

\* Slip: unlink 'label'; return 0
UnlinkQuietly(i, r) ==
  LET here == i \in inside[r] IN
  /\ At(i, r, "judge", "ok")
  /\ label' = [label EXCEPT ![r] = IF here THEN "none" ELSE @]
  /\ holders' = [holders EXCEPT ![r] = IF here THEN {} ELSE @]
  /\ basis' = [basis EXCEPT ![r] = IF here THEN {} ELSE @]
  /\ UNCHANGED <<exists, inside, data, stamp>>

\* label_once fails (or finds no stamp): unlink 'label'; return 1
LabelOnceFails(i, r) ==
  LET here == i \in inside[r] IN
  /\ At(i, r, "judge", "bad")
  /\ label' = [label EXCEPT ![r] = IF here THEN "none" ELSE @]
  /\ holders' = [holders EXCEPT ![r] = IF here THEN {} ELSE @]
  /\ basis' = [basis EXCEPT ![r] = IF here THEN {} ELSE @]
  /\ UNCHANGED <<exists, inside, data, stamp>>

ChildStep(i, r) ==
  \/ ClearDir(i, r) \/ RemoveDir(i, r) \/ MakeDir(i, r)
  \/ RunOnce(i, r) \/ RunOnceFails(i, r)
  \/ WriteStamp(i, r) \/ OpenLabel(i, r)
  \/ LabelOnce(i, r) \/ LabelOnceFails(i, r)

-----------------------------------------------------------------------------
(* The environment.                                                        *)

\* The operator creates or removes the orderly-shutdown file.
ToggleShutdown ==
  /\ shutdown' = ~shutdown
  /\ UNCHANGED <<parentVars, child, dirVars, catalog>>

\* The whole process group is gone: ^C, SIGKILL, power failure.
Crash ==
  /\ "crash" \in Faults
  /\ pc \in Busy
  /\ pc' = "died"
  /\ child' = [i \in Invocations |-> [r \in Runs |->
                 IF child[i][r] \in Live \cup Zombie THEN "gone" ELSE child[i][r]]]
  /\ UNCHANGED <<inv, task, goal, children, error, updated, dirVars, catalog, shutdown>>

\* The parent alone is gone: it was killed, or died with "cannot fork".  Its
\* children go on.
ParentDies ==
  /\ "orphan" \in Faults
  /\ pc \in Busy
  /\ pc' = "died"
  /\ UNCHANGED <<inv, task, goal, children, error, updated, child, dirVars, catalog, shutdown>>

Next ==
  \/ \E n \in 1 .. NumRuns, s \in Runs : Start(s, n)
  \/ ParentStep
  \/ \E i \in Invocations, r \in Runs : ChildStep(i, r)
  \/ ToggleShutdown \/ Crash \/ ParentDies

Spec == Init /\ [][Next]_vars

\* The operating system schedules every process, and the subject programs and
\* the label scripts end.  Nobody has to start make-runs or cause a fault.
Fairness ==
  /\ WF_vars(ParentStep)
  /\ \A i \in Invocations, r \in Runs : WF_vars(ChildStep(i, r))

FairSpec == Spec /\ Fairness

-----------------------------------------------------------------------------
(* Properties.                                                             *)

\* The children the parent has forked and not waited for.
Unreaped == {r \in Runs : child[inv][r] \in Live \cup Zombie}

\* The counter $self->{children} is the number of children the parent still
\* has to wait for, and the parent never has more than Jobs of them.  A wrong
\* count would make reap() block for ever or leave children behind.
ChildrenCounted ==
  pc \in Busy => children = Cardinality(Unreaped) /\ children <= Jobs

\* When make-runs is about to report success, every child it forked has been
\* waited for and none of them failed, however the exits and the forks were
\* interleaved.
SuccessHidesNoFailure ==
  pc \in {"publish", "print", "exit0"} =>
    \A r \in Runs : child[inv][r] \in {"none", "reaped ok"}

\* When make-runs has exited with status 0, every run below <num-runs> has a
\* label file, whichever invocation made it.
ExitZeroMeansLabelled ==
  pc = "exit0" => \A r \in 0 .. goal - 1 : label[r] # "none"

\* "prepare a fresh run directory" (run_task): no output of another execution
\* is in the directory when run-once starts in it.
FreshRunDirectory ==
  \A i \in Invocations, r \in Runs :
    child[i][r] = "run" => data[r] = {} /\ ~stamp[r] /\ label[r] = "none"

\* A whole label was computed from the reports that lie beside it, those of one
\* finished execution: label-once never judges a mixture, and what it judged is
\* not replaced under the label.
LabelDescribesDirectory ==
  \A r \in Runs : label[r] = "whole" =>
    /\ stamp[r]
    /\ \E i \in Invocations : data[r] = {i} /\ basis[r] = {i}

\* Adding runs later (README.runs: "jump straight to step 2") never loses or
\* redoes a run that was labelled.
LabelsKept ==
  [][\A r \in Runs : label[r] = "whole" => label'[r] = "whole"]_label

\* stamp-labels counts only runs whose outcome is known.
CatalogSound ==
  \A r \in Runs : r < catalog => label[r] = "whole"

\* An invocation ends, with success or not, whatever its children do.
InvocationEnds == pc \in Busy ~> pc \in Idle

\* The children of a dead parent end too, and leave the directory to others.
OrphansEnd ==
  \A i \in Invocations, r \in Runs :
    child[i][r] \in Live ~> child[i][r] \notin Live

-----------------------------------------------------------------------------
(* The inductive invariants behind the properties.                         *)

\* What the parent knows of its children, whatever faults occur.
NotYetForked ==
  \A i \in Invocations, r \in Runs :
    i > inv \/ (i = inv /\ pc \in Busy /\ r >= task) => child[i][r] = "none"

FailuresSeen ==
  pc \in Busy => \A r \in Runs :
    child[inv][r] # "gone" /\ (child[inv][r] = "reaped bad" => error)

LoopState ==
  /\ pc = "slot" => task < goal
  /\ pc = "drain" => error \/ task = goal
  /\ pc \in {"publish", "print", "exit0"} => ~error /\ children = 0 /\ task = goal

ParentInv ==
  /\ ChildrenCounted
  /\ NotYetForked
  /\ FailuresSeen
  /\ LoopState
  /\ SuccessHidesNoFailure

\* Without orphans, only the children of the running invocation are active.
NoOrphans ==
  \A i \in Invocations, r \in Runs :
    child[i][r] \in Live \cup Zombie => i = inv /\ pc \in Busy

\* What the directory of run r holds while a child of invocation i is at work.
DirectoryAt(i, r) ==
  LET state == child[i][r] IN
  /\ state \in {"rmdir", "mkdir", "run"} => data[r] = {} /\ ~stamp[r] /\ label[r] = "none"
  /\ state \in {"run", "stamp", "open", "judge"} => i \in inside[r]
  /\ state \in {"stamp", "open", "judge"} => data[r] = {i}
  /\ state \in {"stamp", "open"} => label[r] = "none"
  /\ state \in {"open", "judge"} => stamp[r]
  /\ state = "judge" => label[r] = "empty" /\ i \in holders[r]
  /\ state \in {"ok", "reaped ok"} => label[r] = "whole"
  /\ state = "clear" => label[r] = "none"

\* The runs the parent has passed are labelled or have a child.
PassedRuns ==
  pc \in Busy \cup {"exit0"} =>
    \A r \in Runs : r < task /\ child[inv][r] = "none" => label[r] # "none"

\* Each inductive invariant extends the previous one.  DirectoryInv holds when
\* no parent dies before its children, CatalogInv when nothing crashes either.
DirectoryInv ==
  /\ NoOrphans
  /\ \A i \in Invocations, r \in Runs : DirectoryAt(i, r)
  /\ LabelDescribesDirectory
  /\ PassedRuns
  /\ pc = "slot" => label[task] = "none"

\* Without crashes a label is empty only while a child is filling it, and
\* stamp-labels is opened when all the runs below <num-runs> are labelled.
CatalogInv ==
  /\ \A r \in Runs : label[r] = "empty" => \E i \in Invocations : child[i][r] = "judge"
  /\ pc \in {"publish", "print"} => \A r \in 0 .. goal - 1 : label[r] = "whole"
  /\ pc = "print" => catalog = Blank
  /\ pc \in Busy => goal > 0
  /\ CatalogSound

\* The harness implements the abstract catalog of runs.
AbstractCatalog == INSTANCE RunCatalog WITH
  labelled <- {r \in Runs : label[r] = "whole"}

ImplementsRunCatalog == AbstractCatalog!Spec

=============================================================================
