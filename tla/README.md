# A TLA+ model of cbiexp

cbiexp isolates bugs statistically. Instrumented programs are run thousands of
times; each run reports how often each predicate (a branch taken, a return value
negative, ...) was observed true; predicates that predict failure are ranked.
This directory holds TLA+ modules for the parts of cbiexp in which control
matters, the TLC configurations that check them on small instances, and TLAPS
proofs of what matters most for every instance.

Paths below are relative to the root of the repository.

## 1. Inventory

| Part | Sources | State it keeps | Operations | What is hard | What makes it correct |
|---|---|---|---|---|---|
| Run harness | `bin/make-runs`, `TaskRunner.pm`, `RunsRunner.pm`, `MakeRuns.pm` | run directories, their `stamp` and `label` files, `stamp-labels`; in memory the count of children and the error flag | walk the run numbers, fork, reap, run, stamp, label, record | parallel children, repeated invocations, crashes, orphans, orderly shutdown | success hides no failure; a label describes what lies beside it; nothing labelled is lost; `stamp-labels` counts labelled runs only |
| Rhythmbox supervisor | `rhythmbox/bin/run-once`, `TimedCommand.pm`, `run-client.in` | process ids, alarm, outcome files | four waits under an alarm, a quitter, SIGTERM, SIGKILL, an END block | alarm against exit, exec that fails in a forked Perl, grandchildren nobody waits for | it always ends; outcomes are true; nobody writes after the end |
| Other supervisors | `bc`, `ccrypt`, `exif`, `mossexp` `bin/run-once*`, `mossexp/bin/watchdog.pl` | pipe and buffer, output files, wait status | execute the program, copy its output, kill it after a silence, compare two executions | partial lines and buffered lines against the timeout, programs that detach, a watchdog that is killed | no output is lost, a hung program is killed, a verdict is about the programs and not about the watchdog |
| Labelling | `bin/Check.pm`, `*/bin/label-once` | the verdict on stdout | compare outcome and reports | one number for exit code, signal and failed exec | crashed exactly if labelled failure |
| Ingestion | `DataFormatConversion/samplerToDB/*.py` | SQLite tables | clear, renumber runs, read reports, commit, write the makefile | ignored runs, shared libraries, partial reports, crashes between commits, a harness still at work | counts are those reported, under the new run number; only unsound input fails an import |
| Reading back | `src/ReportReader.cc`, `compute_obs_tru.cc`, `never-reached/`, `classify_runs.cc` | the row loop's current site; obs and tru sets | group rows by site, hand each site on | first and last group, several phases | each sampled site is handed on once, with all its counts |
| Predicate selection | `src/prefilter.cc`, `split_runs.cc`, `compute_nonconst_preds.cc` | per-site counters | count, retain, drop implied predicates | array bounds, ties | a retained predicate correlates with failure |
| Corrective ranking | `src/corrective-ranking/` | candidates, run sets with separate counts, the global `allFailures` | pick, dilute, rescore, zoom | counts that drift from their sets, a global that must be restored, a loop that a complex winner does not shorten | assertions hold, no run is explained twice, the loop ends |
| Projection, combination | `src/project.cc`, `combine.cc` | as above | as above | - | as above |
| Amplification | `src/amplify/` | values of predicates, a work list | closure under implications and contrapositives | cycles, values raised twice, unknown units | exactly what is implied is added; it ends |
| Statistical models | `train_utillog.cc`, `bicluster.cc`, `logreg`, `plsa`, `correlations`, `george` | matrices | numerics | rounding | out of reach here |
| Pipeline, rendering | `src/analysis-rules.mk.in`, `scons-tools`, XML and XSL | - | make rules, formatting | - | - |

How they interact: `make-runs` executes a subject's `run-once` and `label-once` in a
run directory, and they meet only through files and exit statuses. When it has
finished it writes `stamp-labels`, from which the analysis learns how many runs
there are. Ingestion reads the directories into a database; the C++ programs read
that and write text files (`preds.txt`, `obs.txt`, `tru.txt`, `f.runs`, `s.runs`) for
the ranking.

The vendored subject programs (`bc/src`, `ccrypt/src`, `exif/src`, `rhythmbox/src`), the
papers and the slides are left aside.

## 2. Modules

| Module | What it is | Extends or instantiates |
|---|---|---|
| `RunCatalog` | abstract: a growing set of labelled runs, and a recorded number of runs | |
| `Harness` | `make-runs` with its base classes | instantiates `RunCatalog` |
| `MCHarness` | instances for TLC: the sets of faults | `Harness` |
| `HarnessProofs` | theorems about `Harness` | `Harness`, `TLAPS` |
| `RhythmboxRun` | one execution of Rhythmbox's `run-once` | |
| `MCRhythmboxRun` | instances for TLC | `RhythmboxRun` |
| `RhythmboxProofs` | theorems about `RhythmboxRun` | `RhythmboxRun`, `TLAPS` |
| `CorrectiveRanking` | the ranking loop and the zooms of three programs | |
| `MCCorrectiveRanking` | an instance for TLC | `CorrectiveRanking` |
| `ReportReader` | the row loop, with `compute_obs_tru` and `never-reached` | |
| `MCReportReader` | an instance for TLC | `ReportReader` |
| `ReportReaderProofs` | theorems about `ReportReader` | `ReportReader`, `TLAPS` |
| `RankingProofs` | theorems about `CorrectiveRanking` | `CorrectiveRanking`, `TLAPS` |
| `Watchdog` | a program under `watchdog.pl` | |
| `SubjectRun` | one run of bc, ccrypt, exif or moss, with its verdict | `Watchdog` |
| `MCSubjectRun` | an instance for TLC, with programs that print for ever | `SubjectRun` |
| `SubjectProofs` | theorems about `SubjectRun` and `Watchdog` | `SubjectRun`, `TLAPS` |
| `Ingestion` | the import into SQLite, beside the harness | |
| `MCIngestion` | instances for TLC: report files | `Ingestion` |
| `IngestionProofs` | theorems about `Ingestion`: types, numbers of runs | `Ingestion`, `TLAPS` |
| `CountsProofs` | theorems about `Ingestion`: counts, failures | `IngestionProofs` |
| `Amplify` | both programs that close observations under implications | |
| `MCAmplify` | an instance for TLC | `Amplify` |
| `AmplifyProofs` | theorems about `Amplify` | `Amplify`, `TLAPS` |

Operators whose comment begins with "Slip:" are plausible mistakes in the code
(a counter not decremented, a directory not cleared). They are in no
specification; `PROJECT.json` ("mutants") pairs each property with one that
violates it, which shows that the property can fail.

### Harness

Variables `inv` to `updated` are the parent's: `children`, `error` and `updated` are
the fields of the same names, `pc` and `task` are the place in `run_tasks` and its
loop variable. `child[i][r]` is the place in `run_task` of the child that
invocation `i` has forked for run `r`. The other variables are files. Three
details of Unix decide the results and are modelled:

- relative names work only while the working directory is linked (`inside`): a
  child whose directory was removed fails to create its files;
- a file that is unlinked while it is open swallows what is written (`holders`):
  a label file opened before another child's `rmtree` is lost with its verdict;
- `rmtree` is two steps, and leaves a directory in which a file appears between
  them.

`basis[r]` and `data[r]` record which executions a label was computed from and
which have written output; they are how "the label describes the directory" can
be stated. An invocation chooses `--start` and `<num-runs>` freely, but `--start=s` only
when the runs below `s` have label files, as the usage text demands.

`Faults` says what the environment may do. "crash": the parent and all its
children are gone at once, at any point (^C, reboot). "orphan": the parent alone
is gone (killed, or `cannot fork`); its children go on and meet those of the
next invocation.

Modelled more coarsely than the code: `prepare-runs` and the progress display are
left out; `mkpath` and `chdir` are one step, as are the writes of one `run-once`.

### RhythmboxRun

The driver's `pc` goes round the four calls of `TimedCommand::wait` (`stage`): arm the
alarm, `waitpid`, `alarm 0`, and the two ways out. `Expire` may come at any time the
alarm is armed; `Handler` runs at the next point where Perl can run it, also
after `waitpid` has succeeded. `waitpid` on a process that was reaped before
returns at once, with -1. A forked child whose `exec` fails dies as a copy of the
driver, and therefore runs the driver's END block.

The X session is not the repository's code: it starts or does not start, the
client ends by itself or with its server, `startx` ends after the session and
obeys SIGKILL. Nothing else is assumed.

### CorrectiveRanking

Run sets keep `bits` and `count` apart, as the code does; the three programs differ in
`Dilute`. What the code computes in floating point, scores and confidence
intervals, stays abstract: any candidate may have the best score, and `rescore` may
drop any candidate but must drop each for which increase() is not positive,
since lowerBound() is at most increase(). `Increases` is exact, in integers.
Complex predicates are built from the bits of two candidates as in
`Conjunction::initialize` and `Disjunction::initialize`. `credits`, `iteration` and
`scored` only record what happened.

`combine` computes a complex predicate only if an estimate of its score is high enough.
`EstimateConjunction` and `EstimateDisjunction` are the four counts of these estimates. They use
`succ`, the number of successes, a static variable set by whichever estimate comes first
(`FirstEstimate`, once for each kind, in any iteration) from an `allFailures` that shrinks
afterwards. That the score is monotonic in the four counts is not modelled, as scores
are not; `EstimatesConservative` says that in `corrected-exact-complete` each count errs on the side that raises the
score. Nothing is claimed of `corrected-approximate-complete`, which dilutes counts and keeps the bits of which
complex predicates are built. For conjunctions `obs.successes` is a maximum with `succ` where a minimum would do: the
estimate is then safe, but prunes less.

### ReportReader

`program` is one of the two programs, `table` the rows of `SampleCounts`; both are chosen in
`Init` and never change. `Read` is the query of a run; `SameSite` and `NewSite` are the body of
the row loop, `NewSite` with the call of `handleSite` for the previous site; `EndOfRows` is the
return. The variables of the loop are `cur_site`, `counts` and `rows`, the rows not seen yet, of
which `ORDER BY` allows any of the lowest site to come next. `obs` and `tru` are the sets
of `predInfos`, `neverReached`, `neverFalse` and `neverTrue` those of `never-reached`.

`counts` is the set of the fields whose counter is not zero. The two programs use
nothing else, and no row has a zero: `readReports.py` leaves zeros out of
`SampleCounts`. `--begin-runs` and `--end-runs` are taken to select all runs of the model; `s.runs`
may lack any that does not fail, and such a run ends the program (`IllFormed`).

### Watchdog and SubjectRun

Output is a sequence of tokens: text, the digit 0, the end of a line. The program writes
into `pipe`; the watchdog moves bytes to `buffer` and lines from there to `log`. `can_read` looks at
the pipe only (`Readable`), `<$handle>` waits for a whole line without a limit (`Fill`), and a last
line `0` without its end is false in Perl and ends the loop uncopied (`ReadRest`). After the loop
`Close` waits for the program; after a silence `Kill` and `Reap` do.

`SubjectRun` puts `run-once` and `label-once` of each subject around that. moss runs the
reference program, then the faulty one, each under the watchdog, and compares; `bc` and `exif`
note the wait status; `ccrypt` notes what `Expect` knows of the status when the terminal closes,
which may be nothing. Programs do as they like: write, fall silent, close their output and
go on, end, crash, with their reports written or not. `Faults` adds a watchdog that
is killed, a program that cannot be executed, and a tool (`mkdir`, `touch`, `cmp`, `gzip`) that fails
and ends `run-once` of moss by `fatal`. One build of databases (variant "-") stands for those of `db1` and `db2`.
`check_system` is taken to see the signal that killed the watchdog: between them is a shell, which
passes the signal on if it replaces itself by the watchdog. A shell that waits would report an exit
status instead; `run-once` would go on, and give up at `cmp` for want of a file.

The comparison with the file `disregard` in moss's `label-once` is left out: `run-once` dies when
it writes that file, so that the run is never labelled.

### Ingestion

`pc` is the place in `doCBIAnalysis`; `work` holds the tables as the connection sees them and
`database` what is committed. `reader` has the variables of `processReportFile` and the state of
`readReport`, a generator whose turns are interleaved with its caller, one line at a time. A
file of reports is a sequence of parsed lines. What such a file says is defined apart from how
it is read, and only properties use it: `Blocks` are the blocks of counts in reports of samples, a file is
`Sound` when its reports end, do not nest, and hold what the sampler runtime prints, and
`Reported` adds up its lines by site, field and thread. While an import runs, the harness creates directories,
empty labels and labels (`MakeRun`); the import may crash anywhere, or fail (`Leave`), and be
started again. `rmtree` removes files in any order.

Left out: the commits that the `sqlite3` module of Python 2 makes before it creates or drops tables, at a time
when no makefile leads to the database; `Phase`, which is one more part of the key; the filter by scheme, which
`doCBIAnalysis` does not use; units and sites come from a constant.

### Amplify

`vals` maps predicates to probabilities `0 .. One`, for tool "amplify" to 0 or `One`. `Work` looks at one
predicate of the work list, in any order: one program has a queue, the other a stack. The
second one works with six predicates per site, `<`, `>=` and so on, each with its complement, and
adds the contrapositive of each implication (`SynthRelation`). Input may have a line of another
scheme (`ReadMalformed`), and an implication may lead to a unit that is not in the sites files
(`Unknown`); both end the program. The model assumes that a site has one line in
the input of a run; a second line would shadow the first in the hash tables (`IntHash.add`).

## 3. What TLC checks

All passing runs check for deadlock, except `rhythmbox_run`, `subject_run`, `ingestion` and `amplify`,
whose processes really end.

| Run | Instance | What it shows |
|---|---|---|
| `harness_ideal` | 3 runs, 2 jobs, 2 invocations, no fault; fair | `CatalogSound`; the harness implements `RunCatalog`; every invocation ends |
| `harness_crash` | the same with crashes | success hides no failed child; exit 0 means that every run has a label file; executions start in fresh directories; a whole label describes the output beside it; whole labels are kept |
| `harness_orphans` | 2 runs, 1 job, 2 invocations, all faults; fair | types, the count of children, orphans end too |
| `violation_crash` | 2 runs, 2 jobs, crashes | `CatalogSound` fails |
| `rhythmbox_run` | complete; exec may fail; fair | the alarm finds its handler; "premature" is true; nobody writes after "premature" and "normal"; run-once ends with an outcome; startx stops |
| `ranking` | 2 predicates, 3 failing and 2 successful runs, every load that `prefilter` allows within `Feedback` | recall() is defined whenever it is called; counts never exceed what is left to explain, and are exact in the exact program; each failing run is credited once there; the loop is bounded; estimates are conservative in the exact program |
| `reader` | 3 runs, 3 sites with 2 or 3 counters, every subset of 12 rows, both programs | what is recorded agrees with the database; nothing but the last site of a run is missed; what no failing run has reached is listed |
| `violation_obs` | the same | a sampled site is missing from `obs.txt` |
| `subject_run` | four subjects, 2 tokens per execution, or 2 at a time without end in the build of databases, all faults; fair | no output is lost; a verdict on moss is about the two programs; bc and exif fail exactly if they crashed; files are quiet when stamped; a run of moss ends unless a program prints for ever or the watchdog is stuck |
| `ingestion` | 2 run directories, 2 units, 8 report files of which 2 are sound, 2 imports | published numbers are the labelled runs in order; published counts are those reported; an import fails for a reason |
| `violation_bounds` | 1 run directory, a unit of scheme `bounds` | an import fails for no reason of its input |
| `amplify` | 2 runs, 3 sites, a cycle of implications, 5 observations, 3 probabilities; fair | the closure is the least one, also for contrapositives; the output agrees with it; both programs end |

The bounds. Two invocations: all state that survives an invocation is on disk, and
a second one sees every state of the disk that the first one can leave; with
orphans a third would only add more of the same competitors. Two jobs let
children exit in either order; three runs let the parent skip, wait for a slot
and fork in one invocation; one job makes it wait before every fork. The
Rhythmbox module has no bound at all. In `ranking`, two predicates suffice
for repeated winners because complex predicates may win again and again with
both still in the list; three failing runs are needed for a run to be
subtracted twice while another is left; the first successful run may report
predicates true and the second one false, so that winners can also take
successes. `Missed` bounds what sampling overlooks to one run. `MaxCredits` caps a
history counter just above the value the property forbids. In `reader`, three sites
give a first, a middle and a last one, and every run can miss each of them; one
has three counters, of which a predicate and its complement can both be true;
two lie on one line, as `never-reached` keeps lines; a second thread repeats a
count; two failing runs surround a successful one, so that what is left
over from a run would show in the next. In `subject_run`, two tokens make a half line,
a whole one, two lines in one read, and the digit that Perl takes for false, with and
without an end of line. `MCSubjectRun` adds a step that forgets the output of a build of databases once it is in the log, in
whole lines: nobody reads it again, and so the program can print for ever within the bound. In `ingestion`, two directories give a gap when the first is
ignored; a unit comes back in one file, by thread and after another unit; the unsound
files are cut in the middle of a block, too short, too long, too wide, nested and empty
(`FilesAsMade` makes TLC compare `Sound` and `Reported` with what each file was made for);
the second import meets what a crash of the first one left, at any point. In
`amplify`, a predicate of the cycle is reached with a low value before a higher one comes,
and there is one implication out of the known units; the second run shows that nothing
is left over from the first.

Fairness. `Harness`: weak fairness of the parent and of each child, that is, the
operating system schedules them and the subject programs end. The latter is an
assumption about the subjects, as `make-runs` has no timeout. Nobody is obliged to
start an invocation, and no fault ever has to happen. `RhythmboxRun`: weak
fairness of the driver, of the alarm clock, and of SIGKILL. Nothing is assumed of
the programs under supervision, which may hang. `CorrectiveRanking` needs none: a
bound on iterations and the absence of deadlock are safety properties. Nor do
`ReportReader` and `Ingestion`. `SubjectRun`: weak fairness of the scripts and of the watchdog, which the
operating system schedules, of the time limit, and of SIGKILL. Nothing is
assumed of the programs, which may hang. `MossRunEnds` names the exceptions as premises: the time limit is one on silence,
so a program that prints whole lines for ever is never killed (`OutputIsFinite`), and a watchdog `Stuck` in
the middle of a line, or waiting for a program that has closed its output, has no limit of time. TLC
meets each exception: `MossRunEnds` fails without either premise. `Amplify`: weak fairness of its one thread.

### Where code and documentation disagree

1. `violation_crash`. `MakeRuns::run_task` creates `label` before the verdict is
   known. After a crash there, the next invocation takes the empty file for a
   label and counts the run in `stamp-labels`; the import accepts only `success`,
   `failure` and `ignore`. `bc/README.runs` promises that one can "jump straight to
   step 2" to add runs.
2. `violation_obs`. `ReportReader::read` hands a site on when the next one begins, and never the
   last one of a run. `obs.txt`, documented as the "list of RunIDs where site was
   observed", lacks the run, `tru.txt` may too, and `never-reached` lists locations that were
   reached. `OnlyLastMissed` says that nothing else is lost.
3. `violation_bounds`. The scheme `bounds` records values, in the table `SampleValues` with a column `Value`;
   `utils.py` writes both tables with a column `Count`. The first value aborts the import.

Other behaviours that the models have, against which no property stands because the
promise is narrower than the comment: with orphans, `rmtree` and `mkpath` do not give a fresh
directory; an alarm between `waitpid` and `alarm 0` makes `TimedCommand::wait` lose the status of a
child; a command that cannot be executed runs the END block of its parent and may kill the
session; run-once may be over while the client that refused to end still writes;
`ccrypt`'s outcome may be empty, which counts as success, when the program has crashed.

## 4. What is proved

For all values of the constants, by TLAPS, with no unproved assumption beyond the
ones that the modules state (`HarnessAssumption`, `FaultsAssumption`, `ReaderAssumption`, `RankingAssumption`,
`IngestionAssumption`, `AmplifyAssumption`, `WatchdogAssumption`, `SubjectAssumption`). Every safety property that a
passing run checks is a theorem.

`HarnessProofs` builds three inductive invariants on one another, each as strong as the
faults allow:

| Invariant | Faults | What it adds, and why it is needed | Theorems |
|---|---|---|---|
| `TypeOK` and `ParentInv` | any | only children before `task` exist, a child that ended badly has set `error`, the count is the cardinality of the unreaped ones: without it the drain loop's exit says nothing about the children | `TypeCorrect`, `ChildrenAreCounted`, `SuccessIsHonest` |
| `DirectoryInv` | no orphans | what the directory holds at each step of a child, and that only children of the running invocation are active: then nobody else disturbs a directory | `DirectoriesAreFresh`, `LabelsDescribe`, `ExitZeroIsComplete`, `LabelsAreKept` |
| `CatalogInv` | none | an empty label has a child that fills it; what has been passed is labelled when `stamp-labels` is opened | `CatalogIsSound`, `HarnessImplementsCatalog` |

The refinement maps `labelled` to the runs with whole labels. `LabelOnce` becomes
`LabelRun`, `OpenCatalog` becomes `Truncate`, `PrintCatalog` becomes `Record`, and all other
steps leave both variables alone: that a `ClearDir` does is the point, and follows from
`DirectoryInv` (a directory is cleared only when it has no label).

`violation_crash` is exactly the assumption of `CatalogInv`: with crashes it is lost.

`RhythmboxProofs` shows `RunInv` inductive: the alarm is set exactly inside `wait`
(`AlarmInv`); what each `pc` knows of the process it waits for (`WaitInv`); an end of startx
during the first wait is early and its status real (`PlayInv`); until it is signalled,
startx outlives its session (`SessionInv`). The theorems `RunTypeCorrect`, `AlarmIsHandled`,
`PrematureIsTrue` and `DirectoryIsQuiet` follow.

`ReportReaderProofs` shows `ReaderInv` inductive. Its core is `GatherInv`: the rows seen are those of
the sites up to `cur_site`, and `counts` is what they say of it. From it follows
`HandedOnWhole`: when a row of another site comes first, no row of `cur_site` is left, so
that a site is handed on with all its counts and no others; this is where the order
of the rows is needed. `RecordsAreFaithful` and `UnreachedAreListed` rest on that;
`OnlyLastIsMissed` on a further invariant, `CompleteInv`, which says where a sampled site may
still be while it is not in `obs`. The theorems hold for any database, sites and
runs, under `ReaderAssumption` alone (the columns' types, and that a branch has two
counters).

`RankingProofs` rests on facts about the cardinality of run sets. `ViewInv` is what `buildView` keeps: the
failing runs that winners have been credited with are out of every candidate's bits in
the exact program, whose counts equal the bits; in the others the bits stay, and counts
are at most the number of uncredited runs; and `iteration`, plus the candidates, plus the
count of `allFailures`, never exceeds what there was at the beginning: a simple winner
lowers the second, a complex one the third, which is why `IterationsAreBounded`. `RecallIsDefined`,
`NothingIsOvercounted` and `CreditedAtMostOnce` follow. `EstimateInv` adds that true runs are observed ones,
within the failures left, and that `succ` is at least the number of successes, because
`allFailures` never has more than the failing runs. `EstimatesAreConservative` then is inclusion and
exclusion (`CombinedCounts`).

`IngestionProofs` builds `RunsInv` on the types. It says that the runs in `work` are numbered in the order of
their directories, are those of the listed directories visited so far without the
ignored ones, and carry labels that the harness will not change; that from the first
commit of runs to the end both tables agree on them; and that no makefile is there from
`WriteSites` until the counts are committed. What remains of an earlier import after a crash is then
never a makefile beside a new database.

`CountsProofs` shows that the reader adds up what a file says, for files of any length. Three facts carry it.
`PlaceInv` is what `readReport` and `processReportFile` know on each line: the reports behind have ended but for
the one the reader is in, the lines behind are where they may be, and all blocks behind are whole but the
last, whose unit, thread and number of rows read are those of the reader. At the end of a file this is
`Sound` (`EndIsSound`); conversely, in a sound file `PlaceInv` makes every line acceptable (`SoundIsAccepted`).
`SumsOf` says that for each key the row plus the value not yet stored is the sum over the lines read. The
step of a line of counts needs that the line's block is the last one and no other (`CountedHere`), that a
line outside of a block counts nowhere (`CountedNowhere`), and that a site has one value per block; the
step of a header needs that a value never meets a row unless its unit is `shared` (`StoreOf`). Here
`IngestionAssumption` is used: a site belongs to one unit, as `SiteID` is the primary key of its table.
`CountsInv` then says that the runs behind the loop have the rows of their files, and
that no run before it has any. `SumsOf` claims nothing once a block has ended before its time, because
later lines outside of any report would then fall where its counts are missing; `ensureAllCountersAreRead` sees to it that
such a file is refused. `CountsAreAdded` holds for all units. `AbortsAreDeserved` has a hypothesis, that no
file has a block of a unit of `Bounds`: without it, it is false, as `violation_bounds` shows.

`SubjectProofs` shows `SubjectInv` inductive: what `exit` says of the program at each place of the watchdog
(`ExitOK`); what has been written is `log`, `buffer` and `pipe` in this order, up to what is known to be lost (`LogOK`);
what each place of the script knows of program and watchdog (`StageOK`); and that notes (`NotesOK`) and the execution of the
reference program (`GoodOK`) stay what they were when they were made. `OutputIsLogged`, `StampedIsQuiet`, `CrashIsLabelled` and
`VerdictIsTrue` follow, for output of any length. The proof showed that the verdict of moss had
been modelled by cases that overlap; they are now taken in the order of the script. And
it holds of a stronger `OutputLogged` than the one first stated.

`AmplifyProofs` shows the work list's invariant: an implication from a predicate that is not on
the list is respected, and whatever has a value of at least `t` is in every closed set above
the start. With an empty list this is `LeastClosed`. `AmplifyContraposed` and `AmplifyWritten` follow.
`TypeOK` of `Amplify` and `Ingestion` is proved, and so no run checks it once more.

Sums and searches over lines are recursive functions and least numbers. The induction theorems of the library
take an operator as a parameter, which the provers cannot instantiate, but the theorem that the natural
numbers are well-founded does not: a set of counterexamples without a least element is empty
(`LeastNumber`). `SumExists` proves in this way that the recursive function in `CountedUpTo` exists,
from which its equation follows (`CountedUpToStep`).

Model-checked only: liveness (`InvocationEnds`, `OrphansEnd`, `RunEnds`, `StartxStops`, `MossRunEnds`,
`AmplifyEnds`), as the provers do not handle fairness, which rests on ENABLED.

## 5. Not modelled

- The vendored subject programs (`bc/src`, `ccrypt/src`, `exif/src`, `rhythmbox/src`) are most of the lines of the
  repository. They are what is studied, not what studies it; models treat them as
  external processes that may do anything. The share of the implementation that the
  models cover is small for this reason.
- `train_utillog`, `bicluster`, `logreg`, `plsa`, `correlations`, `george`: floating point, next to no control.
- `prefilter`, `split_runs`, `compute_nonconst_preds`, `project`, `combine`: one pass over data each, decided by
  confidence intervals. `CorrectiveRanking` assumes of `prefilter` what it needs. Sites of scheme F
  have nine counters where `compute_nonconst_preds` has room for four.
- Rendering, build rules, the lexers of `src/amplify`, the label script of rhythmbox, the
  progress displays: formatting, or one decision without state.
