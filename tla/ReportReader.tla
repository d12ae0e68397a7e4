------------------------------ MODULE ReportReader ------------------------------
(***************************************************************************)
(* Reading the samples of a run back from the database: the row loop of    *)
(* src/ReportReader.cc, with two of the programs that derive a Reader from *)
(* it.  compute_obs_tru collects, for each interesting predicate, the runs *)
(* in which its site was observed (obs.txt) and in which it was true       *)
(* (tru.txt).  never-reached crosses out the source locations that some    *)
(* failing run has reached.                                                *)
(*                                                                         *)
(* The rows of a run come sorted by site.  The loop gathers the counts of  *)
(* a site and hands them to handleSite when a row of another site comes.   *)
(* Counters matter to both programs only by being zero or not, so counts   *)
(* is the set of the fields whose counter is not zero.  It is not zero in  *)
(* any row: readReports.py does not insert zeros into SampleCounts.  That  *)
(* a later row of a field overwrites an earlier one is therefore not seen. *)
(***************************************************************************)
EXTENDS Integers, FiniteSets

CONSTANTS
  Runs,         \* the run numbers between --begin-runs and --end-runs
  Failing,      \* those in f.runs; s.runs may have any of the others
  Sites,        \* the SiteIDs
  NumFields,    \* NumFields[s]: the number of counters of site s
  Branches,     \* the sites of scheme B, with counters 0 (false) and 1 (true)
  LocationOf,   \* LocationOf[s]: the file and line of site s
  Interesting,  \* the predicates in preds.txt, as pairs of a site and a number
  Samples,      \* the rows that SampleCounts may have
  Programs      \* "compute_obs_tru", "never-reached"

None == -1      \* cur_site before the first row

ASSUME ReaderAssumption ==
  /\ Runs \subseteq Nat
  /\ Failing \subseteq Runs
  /\ Sites \subseteq Nat
  /\ NumFields \in [Sites -> Nat \ {0}]
  /\ Branches \subseteq Sites /\ \A s \in Branches : NumFields[s] = 2
  /\ LocationOf \in [Sites -> STRING]
  /\ Interesting \subseteq Sites \X Nat
  /\ Samples \subseteq [run : Runs, site : Sites, field : Nat, thread : Nat]
  /\ \A row \in Samples : row.field < NumFields[row.site]
  /\ Programs \subseteq {"compute_obs_tru", "never-reached"}

VARIABLES
  program,      \* the program that is running
  table,        \* SampleCounts
  is_srun,      \* the runs in s.runs
  pc,           \* "runs", "rows", "done" or "thrown"
  todo,         \* the runs still to be read
  run,          \* the run being read
  rows,         \* the rows of the result not seen yet
  cur_site, counts,                   \* the site being gathered
  obs, tru,                           \* pairs of a predicate and a run
  neverReached, neverFalse, neverTrue \* locations

readerVars == <<pc, todo, run, rows, cur_site, counts>>
vars == <<program, table, is_srun, readerVars, obs, tru, neverReached, neverFalse, neverTrue>>

RowsOf(r) == {row \in table : row.run = r}

Init ==
  /\ program \in Programs
  /\ table \in SUBSET Samples
  /\ is_srun \in SUBSET (Runs \ Failing)
  /\ pc = "runs"
  /\ todo = IF program = "never-reached" THEN Failing ELSE Runs
  /\ run = None /\ rows = {}
  /\ cur_site = None /\ counts = {}
  /\ obs = {} /\ tru = {}
  /\ neverReached = {LocationOf[s] : s \in Sites}
  /\ neverFalse = {LocationOf[s] : s \in Branches}
  /\ neverTrue = {LocationOf[s] : s \in Branches}

-----------------------------------------------------------------------------
(* handleSite of the two programs.                                         *)

\* With two counters, predicate p is counter p.  Otherwise predicate 2f is
\* counter f and predicate 2f+1 is any other counter.
Holding(s, fields) ==
  IF NumFields[s] = 2
  THEN fields
  ELSE {2 * f : f \in fields}
         \cup {2 * f + 1 : f \in {g \in 0 .. NumFields[s] - 1 : fields \ {g} # {}}}

Predicates(s) == 0 .. (IF NumFields[s] = 2 THEN 2 ELSE 2 * NumFields[s]) - 1

\* Slip: a predicate that preds.txt does not list is added.
NoticeAll(s, fields) ==
  /\ obs' = obs \cup {<<<<s, p>>, run>> : p \in Predicates(s)}
  /\ tru' = tru \cup {<<<<s, p>>, run>> : p \in Holding(s, fields)}
  /\ UNCHANGED <<neverReached, neverFalse, neverTrue>>

\* compute_obs_tru: a predicate that preds.txt does not list is ignored.
Notice(s, fields) ==
  /\ obs' = obs \cup {<<<<s, p>>, run>> : p \in {q \in Predicates(s) : <<s, q>> \in Interesting}}
  /\ tru' = tru \cup
       {<<<<s, p>>, run>> : p \in {q \in Holding(s, fields) : <<s, q>> \in Interesting}}
  /\ UNCHANGED <<neverReached, neverFalse, neverTrue>>

\* never-reached.
CrossOut(s, fields) ==
  LET here == {LocationOf[s]} IN
  /\ neverReached' = neverReached \ here
  /\ neverFalse' = IF s \in Branches /\ 0 \in fields THEN neverFalse \ here ELSE neverFalse
  /\ neverTrue' = IF s \in Branches /\ 1 \in fields THEN neverTrue \ here ELSE neverTrue
  /\ UNCHANGED <<obs, tru>>

handleSite(s, fields) ==
  IF program = "never-reached" THEN CrossOut(s, fields) ELSE Notice(s, fields)

-----------------------------------------------------------------------------
(* ReportReader::read.                                                     *)

NextRun(r) == pc = "runs" /\ r \in todo /\ \A q \in todo : r <= q

\* A run that is neither successful nor failing: the program dies of it.
IllFormed(r) ==
  /\ NextRun(r)
  /\ r \notin is_srun \cup Failing
  /\ pc' = "thrown"
  /\ UNCHANGED <<program, table, is_srun, todo, run, rows, cur_site, counts, obs, tru,
                 neverReached, neverFalse, neverTrue>>

\* Slip: cur_site and counts outlive the run.
ReadAndKeepSite(r) ==
  /\ NextRun(r) /\ r \in is_srun \cup Failing
  /\ todo' = todo \ {r}
  /\ run' = r
  /\ rows' = RowsOf(r)
  /\ pc' = "rows"
  /\ UNCHANGED <<program, table, is_srun, cur_site, counts, obs, tru,
                 neverReached, neverFalse, neverTrue>>

\* The next run, in ascending order: the query.
Read(r) ==
  /\ NextRun(r) /\ r \in is_srun \cup Failing
  /\ todo' = todo \ {r}
  /\ run' = r
  /\ rows' = RowsOf(r)
  /\ cur_site' = None /\ counts' = {}
  /\ pc' = "rows"
  /\ UNCHANGED <<program, table, is_srun, obs, tru, neverReached, neverFalse, neverTrue>>

\* Slip: the query has no ORDER BY.
AnyRow(row) == row \in rows

\* ORDER BY SiteID: the rows of one site come in any order.
FirstRow(row) == row \in rows /\ \A other \in rows : row.site <= other.site

SameSite(row) ==
  /\ pc = "rows" /\ FirstRow(row)
  /\ row.site = cur_site
  /\ counts' = counts \cup {row.field}
  /\ rows' = rows \ {row}
  /\ UNCHANGED <<program, table, is_srun, pc, todo, run, cur_site, obs, tru,
                 neverReached, neverFalse, neverTrue>>

\* Slip: the counts of the previous site are not cleared.
NewSiteKeepsCounts(row) ==
  /\ pc = "rows" /\ FirstRow(row)
  /\ row.site # cur_site
  /\ IF cur_site # None
     THEN handleSite(cur_site, counts)
     ELSE UNCHANGED <<obs, tru, neverReached, neverFalse, neverTrue>>
  /\ cur_site' = row.site /\ counts' = counts \cup {row.field}
  /\ rows' = rows \ {row}
  /\ UNCHANGED <<program, table, is_srun, pc, todo, run>>

\* The previous site, if any, is handed on.
NewSite(row) ==
  /\ pc = "rows" /\ FirstRow(row)
  /\ row.site # cur_site
  /\ IF cur_site # None
     THEN handleSite(cur_site, counts)
     ELSE UNCHANGED <<obs, tru, neverReached, neverFalse, neverTrue>>
  /\ cur_site' = row.site /\ counts' = {row.field}
  /\ rows' = rows \ {row}
  /\ UNCHANGED <<program, table, is_srun, pc, todo, run>>

\* read returns.  The site being gathered is not handed on.
EndOfRows ==
  /\ pc = "rows" /\ rows = {}
  /\ pc' = "runs"
  /\ UNCHANGED <<program, table, is_srun, todo, run, rows, cur_site, counts, obs, tru,
                 neverReached, neverFalse, neverTrue>>

\* The results are printed.
Finish ==
  /\ pc = "runs" /\ todo = {}
  /\ pc' = "done"
  /\ UNCHANGED <<program, table, is_srun, todo, run, rows, cur_site, counts, obs, tru,
                 neverReached, neverFalse, neverTrue>>

\* The program has ended.
Terminating == pc \in {"done", "thrown"} /\ UNCHANGED vars

Next ==
  \/ \E r \in Runs : IllFormed(r) \/ Read(r)
  \/ \E row \in rows : SameSite(row) \/ NewSite(row)
  \/ EndOfRows \/ Finish \/ Terminating

Spec == Init /\ [][Next]_vars

-----------------------------------------------------------------------------
(* Properties.                                                             *)

Locations == {LocationOf[s] : s \in Sites}

\* The type invariant.
TypeOK ==
  /\ program \in Programs
  /\ table \subseteq Samples
  /\ is_srun \subseteq Runs \ Failing
  /\ pc \in {"runs", "rows", "done", "thrown"}
  /\ todo \subseteq Runs
  /\ run \in Runs \cup {None}
  /\ rows \subseteq table
  /\ cur_site \in Sites \cup {None}
  /\ counts \subseteq Nat
  /\ obs \subseteq Interesting \X Runs
  /\ tru \subseteq Interesting \X Runs
  /\ {neverReached, neverFalse, neverTrue} \subseteq SUBSET Locations

Sampled(r) == {row.site : row \in RowsOf(r)}

FieldsOf(r, s) == {row.field : row \in {x \in RowsOf(r) : x.site = s}}

\* What is recorded of a predicate in a run is what the database says: its site
\* was sampled, and it is true exactly when all the counts of the site, and no
\* others, say so.  No site is handed on in parts or with another site's counts.
RecordedFaithfully ==
  \A x \in obs \cup tru :
    LET s == x[1][1]  p == x[1][2]  r == x[2] IN
    /\ x \in obs /\ s \in Sampled(r)
    /\ x \in tru <=> p \in Holding(s, FieldsOf(r, s))

\* In the end no sampled site is missing from obs.txt but, at most, the last
\* one of a run.
OnlyLastMissed ==
  pc = "done" /\ program = "compute_obs_tru" =>
    \A x \in Interesting, r \in Runs :
      /\ x[2] \in Predicates(x[1])
      /\ x[1] \in Sampled(r)
      /\ \E s \in Sampled(r) : x[1] < s
      => <<x, r>> \in obs

Reached == UNION {{LocationOf[s] : s \in Sampled(r)} : r \in Failing}

\* never-reached never omits a location that no failing run has reached, nor a
\* branch that was never false or never true in one.
UnreachedIsListed ==
  /\ Locations \ Reached \subseteq neverReached
  /\ \A s \in Branches :
       /\ LocationOf[s] \notin neverFalse =>
            \E t \in Branches, r \in Failing :
              LocationOf[t] = LocationOf[s] /\ 0 \in FieldsOf(r, t)
       /\ LocationOf[s] \notin neverTrue =>
            \E t \in Branches, r \in Failing :
              LocationOf[t] = LocationOf[s] /\ 1 \in FieldsOf(r, t)

\* doc/README.files, on obs.txt: "list of RunIDs where site was observed".
ObsIsComplete ==
  pc = "done" /\ program = "compute_obs_tru" =>
    \A x \in Interesting, r \in Runs :
      x[2] \in Predicates(x[1]) /\ x[1] \in Sampled(r) => <<x, r>> \in obs

================================================================================
