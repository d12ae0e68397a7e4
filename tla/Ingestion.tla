------------------------------- MODULE Ingestion -------------------------------
(***************************************************************************)
(* The import of labelled runs into SQLite:                                *)
(* src/DataFormatConversion/samplerToDB, as doCBIAnalysis.py drives it.    *)
(*                                                                         *)
(* An import lists the run directories, clears the analysis directory,     *)
(* commits the sites, commits the runs under new, consecutive numbers      *)
(* (ignored runs have none), adds up the counts of their report files,     *)
(* commits these, and writes a makefile that says how many runs there are. *)
(* Meanwhile the harness may label further runs.  An import may be killed  *)
(* at any point, and be followed by another.                               *)
(*                                                                         *)
(* Reports are read line by line, as readReport and processReportFile take *)
(* turns for each line.                                                    *)
(***************************************************************************)
EXTENDS Integers, Sequences, FiniteSets, FiniteSetsExt

CONSTANTS
  Cases,     \* the numbers of the run directories ("test cases")
  Units,     \* the instrumented units
  Sites,     \* Sites[u]: the sites of unit u, as the sites files number them
  Fields,    \* Fields[u]: the number of counters of a site of unit u
  Bounds,    \* the units of the scheme that records values, not counts
  Files,     \* the lines that a file of reports may hold
  MaxImports \* bound on the number of imports

Lines ==
  [kind : {"report"}, id : {"samples", "debug"}]
    \cup [kind : {"samples"}, unit : Units, thread : Nat]
    \cup [kind : {"counts"}, counts : Seq(Nat)]
    \cup [kind : {"endsamples", "endreport", "text"}]

\* A site belongs to one unit.
ASSUME IngestionAssumption ==
  /\ Cases \subseteq Nat /\ IsFiniteSet(Cases)
  /\ Sites \in [Units -> Seq(Nat)] /\ Fields \in [Units -> Nat]
  /\ \A u, v \in Units : \A m \in DOMAIN Sites[u], n \in DOMAIN Sites[v] :
       Sites[u][m] = Sites[v][n] => u = v /\ m = n
  /\ Bounds \subseteq Units
  /\ Files \subseteq Seq(Lines)
  /\ MaxImports \in Nat

VARIABLES
  label,     \* label[c]: the label file of run directory c
  file,      \* file[c]: its file of reports
  pc,        \* the place in doCBIAnalysis, or "idle", "done", "aborted"
  imports,   \* the number of imports begun
  listed,    \* runDirs: the run directories found at the beginning
  dirs,      \* those that the current loop has still to visit
  work,      \* the tables, with what is not committed yet
  database,  \* the tables as committed
  makefile,  \* GNUmakefile
  reader     \* the variables of readReport and processReportFile

vars == <<label, file, pc, imports, listed, dirs, work, database, makefile, reader>>

Runs == <<label, file>>
Directory == <<database, makefile>>

Verdicts == {"success", "failure"}

-----------------------------------------------------------------------------
(* The tables.  runs is Runs joined with RunIDToTestCase, in the order of  *)
(* RunID; rows is SampleCounts, as a function from its key to Count.       *)

NoTables == [exists |-> FALSE, runs |-> <<>>, rows |-> <<>>]
NewTables == [exists |-> TRUE, runs |-> <<>>, rows |-> <<>>]
NoMakefile == [text |-> "absent", end |-> 0]

\* UPDATE SampleCounts SET Count = Count + ? WHERE ...
Update(rows, values) ==
  [k \in DOMAIN rows |-> IF k \in DOMAIN values THEN rows[k] + values[k] ELSE rows[k]]

\* INSERT OR IGNORE INTO SampleCounts ...
Insert(rows, values) ==
  [k \in DOMAIN rows \cup DOMAIN values |-> IF k \in DOMAIN rows THEN rows[k] ELSE values[k]]

HasRun(c) == \E i \in 1 .. Len(work.runs) : work.runs[i].case = c

\* testCaseMap[c]
RunOf(c) == CHOOSE i \in 1 .. Len(work.runs) : work.runs[i].case = c

-----------------------------------------------------------------------------
(* The harness.                                                            *)

Closed == [line |-> 0, state |-> "INITIAL", started |-> FALSE, unit |-> "none",
           thread |-> 0, site |-> 0, values |-> <<>>, observed |-> {}, shared |-> FALSE]

Init ==
  /\ label = [c \in Cases |-> "none"]
  /\ file \in [Cases -> Files]
  /\ pc = "idle" /\ imports = 0
  /\ listed = {} /\ dirs = {}
  /\ work = NoTables /\ database = NoTables
  /\ makefile = NoMakefile
  /\ reader = Closed

\* A directory, then an empty label file, then the label.  The reports have
\* been written before the label.
MakeRun(c) ==
  /\ \/ label[c] = "none" /\ label' = [label EXCEPT ![c] = "absent"]
     \/ label[c] = "absent" /\ label' = [label EXCEPT ![c] = "empty"]
     \/ label[c] = "empty" /\ \E l \in Verdicts \cup {"ignore"} : label' = [label EXCEPT ![c] = l]
  /\ UNCHANGED <<file, pc, imports, listed, dirs, work, Directory, reader>>

-----------------------------------------------------------------------------
(* doCBIAnalysis and processLabels.                                        *)

Begin ==
  /\ pc \in {"idle", "done", "aborted"} /\ imports < MaxImports
  /\ imports' = imports + 1
  /\ listed' = {c \in Cases : label[c] # "none"}
  /\ pc' = "clean"
  /\ UNCHANGED <<Runs, dirs, work, Directory, reader>>

\* rmtree removes the files in any order.
RemoveFile ==
  /\ pc = "clean"
  /\ \/ database.exists /\ database' = NoTables /\ UNCHANGED makefile
     \/ makefile # NoMakefile /\ makefile' = NoMakefile /\ UNCHANGED database
  /\ UNCHANGED <<Runs, pc, imports, listed, dirs, work, reader>>

\* makedirs, setupTables and writeSitesIntoDB, which commits.
WriteSites ==
  /\ pc = "clean" /\ ~database.exists /\ makefile = NoMakefile
  /\ database' = NewTables /\ work' = NewTables
  /\ dirs' = listed
  /\ pc' = "labels"
  /\ UNCHANGED <<Runs, imports, listed, makefile, reader>>

IsNext(c) == c \in dirs /\ \A d \in dirs : c <= d

\* The process is over before its end.  What it has not committed is lost.
Leave(place) ==
  /\ pc' = place
  /\ work' = NoTables /\ dirs' = {} /\ reader' = Closed
  /\ UNCHANGED <<Runs, imports, listed, Directory>>

\* Slip: an ignored run takes a number.
NumberEveryRun(c) ==
  work' = [work EXCEPT !.runs = Append(@, [case |-> c, outcome |-> label[c]])]

NumberRun(c) ==
  work' = IF label[c] = "ignore" THEN work
          ELSE [work EXCEPT !.runs = Append(@, [case |-> c, outcome |-> label[c]])]

\* A label file that is missing or holds no verdict raises an exception.
ReadLabel(c) ==
  /\ pc = "labels" /\ IsNext(c)
  /\ \/ /\ label[c] \in Verdicts \cup {"ignore"}
        /\ NumberRun(c)
        /\ dirs' = dirs \ {c}
        /\ UNCHANGED <<Runs, pc, imports, listed, Directory, reader>>
     \/ label[c] \in {"absent", "empty"} /\ Leave("aborted")

CommitRuns ==
  /\ pc = "labels" /\ dirs = {}
  /\ database' = work
  /\ dirs' = listed
  /\ pc' = "reports"
  /\ UNCHANGED <<Runs, imports, listed, work, makefile, reader>>

-----------------------------------------------------------------------------
(* processReports, processReportFile and readReport.                       *)

OpenReport(c) ==
  /\ pc = "reports" /\ IsNext(c)
  /\ \/ HasRun(c) /\ reader' = [Closed EXCEPT !.line = 1] /\ pc' = "lines" /\ UNCHANGED dirs
     \/ ~HasRun(c) /\ dirs' = dirs \ {c} /\ UNCHANGED <<reader, pc>>
  /\ UNCHANGED <<Runs, imports, listed, work, Directory>>

\* ensureAllCountersAreRead does not raise an exception.
AllRead == reader.started => reader.site = Len(Sites[reader.unit])

\* The statements for SampleValues name a column that this table does not have.
Storable == reader.started => reader.unit \notin Bounds

\* Slip: what a unit reports again is only inserted.
StoreWithoutUpdate(rows) == Insert(rows, reader.values)

\* What is done with the values of a block that has ended.
Store(rows) ==
  Insert(IF reader.shared THEN Update(rows, reader.values) ELSE rows, reader.values)

\* Slip: the iterator over the sites is not renewed.
StartBlockAtSite(l) ==
  [line |-> reader.line + 1, state |-> "READING", started |-> TRUE,
   unit |-> l.unit, thread |-> l.thread, site |-> reader.site, values |-> <<>>,
   observed |-> reader.observed \cup {l.unit}, shared |-> l.unit \in reader.observed]

StartBlock(l) ==
  [line |-> reader.line + 1, state |-> "READING", started |-> TRUE,
   unit |-> l.unit, thread |-> l.thread, site |-> 0, values |-> <<>>,
   observed |-> reader.observed \cup {l.unit}, shared |-> l.unit \in reader.observed]

\* The values of a line of counts.  Counts of zero are left out.
Values(c, counts) ==
  LET key(i) == [run |-> RunOf(c), site |-> Sites[reader.unit][reader.site + 1],
                 field |-> i, thread |-> reader.thread] IN
  [k \in {key(i) : i \in {j \in DOMAIN counts :
                             counts[j] # 0 \/ reader.unit \in Bounds}} |-> counts[k.field]]

IsHeader(l) == reader.state = "REPORT" /\ l.kind = "samples"
IsCounts(l) == reader.state = "READING" /\ l.kind = "counts"

\* The line raises no exception.
Accepts(l) ==
  \/ reader.state = "INITIAL"
  \/ reader.state = "DISCARD" /\ l.kind \notin {"report", "samples", "endsamples"}
  \/ reader.state = "REPORT" /\ l.kind = "endreport"
  \/ IsHeader(l) /\ AllRead /\ Storable
  \/ reader.state = "READING" /\ l.kind = "endsamples"
  \/ /\ IsCounts(l)
     /\ reader.site < Len(Sites[reader.unit]) /\ Len(l.counts) = Fields[reader.unit]

\* The state of readReport after a line that is no header and has no counts.
Transition(l) ==
  IF reader.state = "INITIAL"
  THEN IF l.kind # "report" THEN "INITIAL" ELSE IF l.id = "samples" THEN "REPORT" ELSE "DISCARD"
  ELSE IF l.kind = "endreport" THEN "INITIAL"
  ELSE IF l.kind = "endsamples" THEN "REPORT" ELSE reader.state

ReadLine(c, l) ==
  /\ Accepts(l)
  /\ reader' = IF IsHeader(l) THEN StartBlock(l)
               ELSE IF IsCounts(l)
               THEN [reader EXCEPT !.line = @ + 1, !.site = @ + 1,
                                   !.values = Insert(@, Values(c, l.counts))]
               ELSE [reader EXCEPT !.line = @ + 1, !.state = Transition(l)]
  /\ work' = IF IsHeader(l) THEN [work EXCEPT !.rows = Store(@)] ELSE work
  /\ UNCHANGED <<Runs, pc, imports, listed, dirs, Directory>>

\* A file without a block leaves values undefined, which raises an exception.
AcceptsEnd ==
  /\ reader.state = "INITIAL" /\ reader.started /\ AllRead
  /\ DOMAIN reader.values # {} => Storable

EndOfFile(c) ==
  /\ AcceptsEnd
  /\ work' = IF DOMAIN reader.values # {} THEN [work EXCEPT !.rows = Store(@)] ELSE work
  /\ dirs' = dirs \ {c} /\ pc' = "reports" /\ reader' = Closed
  /\ UNCHANGED <<Runs, imports, listed, Directory>>

ReadReport(c) ==
  /\ pc = "lines" /\ IsNext(c)
  /\ IF reader.line <= Len(file[c])
     THEN LET l == file[c][reader.line] IN
          \/ ReadLine(c, l)
          \/ ~Accepts(l) /\ Leave("aborted")
     ELSE \/ EndOfFile(c)
          \/ ~AcceptsEnd /\ Leave("aborted")

CommitCounts ==
  /\ pc = "reports" /\ dirs = {}
  /\ database' = work
  /\ pc' = "makefile"
  /\ UNCHANGED <<Runs, imports, listed, dirs, work, makefile, reader>>

\* The makefile is created empty, and written when it is closed.
WriteMakefile ==
  /\ \/ pc = "makefile" /\ makefile' = [text |-> "empty", end |-> 0] /\ pc' = "print"
     \/ /\ pc = "print" /\ pc' = "done"
        /\ makefile' = [text |-> "whole", end |-> Len(database.runs)]
  /\ UNCHANGED <<Runs, imports, listed, dirs, work, database, reader>>

Crash == pc \notin {"idle", "done", "aborted"} /\ Leave("idle")

Next ==
  \/ Begin \/ RemoveFile \/ WriteSites \/ CommitRuns \/ CommitCounts \/ WriteMakefile
  \/ Crash
  \/ \E c \in Cases : MakeRun(c) \/ ReadLabel(c) \/ OpenReport(c) \/ ReadReport(c)

Spec == Init /\ [][Next]_vars

-----------------------------------------------------------------------------
(* Properties.                                                             *)

TypeOK ==
  /\ label \in [Cases -> {"none", "absent", "empty", "ignore"} \cup Verdicts]
  /\ file \in [Cases -> Files]
  /\ pc \in {"idle", "clean", "labels", "reports", "lines", "makefile", "print",
             "done", "aborted"}
  /\ imports \in 0 .. MaxImports
  /\ listed \subseteq Cases /\ dirs \subseteq listed
  /\ \A t \in {work, database} :
       /\ t.exists \in BOOLEAN
       /\ t.runs \in Seq([case : Cases, outcome : Verdicts])
       /\ \A k \in DOMAIN t.rows :
            /\ k.run \in 1 .. Len(t.runs)
            /\ t.rows[k] \in Nat \ {0}
  /\ makefile \in [text : {"absent", "empty", "whole"}, end : Nat]

\* A database with a makefile beside it.
Published == database.exists /\ makefile.text # "absent"

Imported == {database.runs[i].case : i \in 1 .. Len(database.runs)}

\* The published numbers are those of the labelled runs in the order of their
\* directories, each with the outcome of its label file, and end-runs is the
\* next number; an ignored run leaves no gap, and what earlier imports left
\* behind, or a crash while it was removed, does not show.
RunsRenumbered ==
  Published =>
    /\ \A i, j \in 1 .. Len(database.runs) :
         i < j => database.runs[i].case < database.runs[j].case
    /\ \A i \in 1 .. Len(database.runs) :
         database.runs[i].outcome = label[database.runs[i].case]
    /\ makefile.text = "whole" => makefile.end = Len(database.runs)
    /\ pc = "done" => Imported = {c \in listed : label[c] # "ignore"}

\* What a file f of reports says.  Line j follows the beginning of a report, on
\* line i, that has not ended before j.
Within(f, i, j) ==
  /\ i \in 1 .. j - 1 /\ f[i].kind = "report"
  /\ \A m \in i + 1 .. j - 1 : f[m].kind \notin {"report", "endreport"}

\* The first lines of the blocks of counts, in reports of samples.
Blocks(f) ==
  {b \in DOMAIN f : /\ f[b].kind = "samples"
                    /\ \E i \in DOMAIN f : Within(f, i, b) /\ f[i].id = "samples"}

Size(f, b) == Len(Sites[f[b].unit])

\* A block as the sampler runtime prints it, one line for each site.
Whole(f, b) ==
  /\ b + Size(f, b) + 1 \in DOMAIN f /\ f[b + Size(f, b) + 1].kind = "endsamples"
  /\ \A n \in 1 .. Size(f, b) :
       f[b + n].kind = "counts" /\ Len(f[b + n].counts) = Fields[f[b].unit]

\* Reports end, and do not nest; those of samples hold whole blocks, and nothing
\* else; the others hold none.
Sound(f) ==
  /\ Blocks(f) # {} /\ \A b \in Blocks(f) : Whole(f, b)
  /\ \A i \in DOMAIN f : f[i].kind = "report" =>
       \E e \in DOMAIN f : Within(f, i, e) /\ f[e].kind = "endreport"
  /\ \A i, j \in DOMAIN f : Within(f, i, j) /\ f[j].kind # "endreport" =>
       IF f[i].id = "samples" THEN \E b \in Blocks(f) : j \in b .. b + Size(f, b) + 1
                              ELSE f[j].kind \notin {"samples", "endsamples"}

\* What line j counts for a field of a site in a thread.
Counted(f, j, k) ==
  IF /\ f[j].kind = "counts" /\ k.field \in DOMAIN f[j].counts
     /\ \E b \in Blocks(f) : /\ j - b \in 1 .. Size(f, b) /\ f[b].thread = k.thread
                             /\ Sites[f[b].unit][j - b] = k.site
  THEN f[j].counts[k.field] ELSE 0

CountedUpTo(f, k) ==
  LET sum[j \in 0 .. Len(f)] == IF j = 0 THEN 0 ELSE sum[j - 1] + Counted(f, j, k) IN sum

Reported(f, k) == CountedUpTo(f, k)[Len(f)]

\* The published rows hold what the runs have reported, under their new
\* numbers: what a unit reports again in the same file is added, once, by site,
\* field and thread; a field that was never counted has no row; and no file is
\* imported that is not sound.
CountsAdded ==
  Published =>
    /\ \A k \in DOMAIN database.rows :
         /\ k.run \in 1 .. Len(database.runs)
         /\ database.rows[k] = Reported(file[database.runs[k.run].case], k)
    /\ \A i \in 1 .. Len(database.runs) :
         LET f == file[database.runs[i].case] IN
         /\ Sound(f)
         /\ \A b \in Blocks(f) : \A n \in 1 .. Size(f, b), field \in 1 .. Fields[f[b].unit] :
              LET k == [run |-> i, site |-> Sites[f[b].unit][n], field |-> field,
                        thread |-> f[b].thread]
              IN  Reported(f, k) # 0 => k \in DOMAIN database.rows

\* An import fails only when a listed run has no verdict, or a file of reports
\* that it must read is not sound.
AbortIsDeserved ==
  [][pc # "aborted" /\ pc' = "aborted" =>
       \E c \in listed : \/ label[c] \in {"absent", "empty"}
                         \/ label[c] \in Verdicts /\ ~Sound(file[c])]_vars

================================================================================
