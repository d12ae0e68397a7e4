--------------------------- MODULE ReportReaderProofs ---------------------------
(***************************************************************************)
(* Theorems about ReportReader, for every database.                        *)
(***************************************************************************)
EXTENDS ReportReader, TLAPS

Seen == RowsOf(run) \ rows

\* What the loop knows in the middle of a run: the rows seen are those of the
\* sites up to cur_site, and counts is what they say of it.
GatherInv ==
  pc = "rows" =>
    /\ run \in Runs
    /\ program = "never-reached" => run \in Failing
    /\ rows \subseteq RowsOf(run)
    /\ cur_site = None => rows = RowsOf(run)
    /\ cur_site # None =>
         /\ \A row \in rows : cur_site <= row.site
         /\ \A row \in Seen : row.site <= cur_site
         /\ \E row \in Seen : row.site = cur_site
         /\ counts = {row.field : row \in {x \in Seen : x.site = cur_site}}

TodoInv ==
  /\ program = "never-reached" => todo \subseteq Failing
  /\ pc = "done" => todo = {}

\* What is missing from obs is still to come, or is a last site.
CompleteInv ==
  program = "compute_obs_tru" =>
    \A x \in Interesting, r \in Runs :
      x[2] \in Predicates(x[1]) /\ x[1] \in Sampled(r) =>
        \/ r \in todo
        \/ pc = "rows" /\ r = run /\ (cur_site = None \/ cur_site <= x[1])
        \/ <<x, r>> \in obs
        \/ \A s \in Sampled(r) : s <= x[1]

ReaderInv == TypeOK /\ TodoInv /\ GatherInv

-----------------------------------------------------------------------------
(* Rows and predicates.                                                    *)

\* The columns of a row of the database.
LEMMA RowType ==
  ASSUME TypeOK, NEW r, NEW row \in RowsOf(r)
  PROVE  /\ row \in table /\ row.run = r /\ r \in Runs
         /\ row.site \in Sites /\ row.site \in Nat
         /\ row.field \in Nat /\ row.field < NumFields[row.site]
BY ReaderAssumption DEF RowsOf, TypeOK

\* A site is no None.
LEMMA SiteType == ASSUME NEW s \in Sites PROVE s \in Nat /\ s # None
BY ReaderAssumption DEF None

\* handleSite asks only for predicates that the site has.
LEMMA HoldingArePredicates ==
  ASSUME NEW s \in Sites, NEW fields \in SUBSET Nat, \A f \in fields : f < NumFields[s]
  PROVE  Holding(s, fields) \subseteq Predicates(s)
<1>1. NumFields[s] \in Nat \ {0}
  BY ReaderAssumption
<1>2. CASE NumFields[s] = 2
  BY <1>2 DEF Holding, Predicates
<1>3. CASE NumFields[s] # 2
  <2>1. Predicates(s) = 0 .. 2 * NumFields[s] - 1
    BY <1>3 DEF Predicates
  <2>2. \A f \in fields : 2 * f \in Predicates(s)
    BY <1>1, <2>1
  <2>3. \A g \in 0 .. NumFields[s] - 1 : 2 * g + 1 \in Predicates(s)
    BY <1>1, <2>1
  <2>4. QED BY <1>3, <2>2, <2>3 DEF Holding
<1>4. QED BY <1>2, <1>3

\* When a row of another site comes first, all rows of cur_site have been seen.
LEMMA HandedOnWhole ==
  ASSUME TypeOK, GatherInv, pc = "rows", cur_site # None,
         NEW row, FirstRow(row), row.site # cur_site
  PROVE  /\ cur_site \in Sampled(run)
         /\ counts = FieldsOf(run, cur_site)
         /\ cur_site < row.site
         /\ \A s \in Sampled(run) : s <= cur_site \/ row.site <= s
<1>1. cur_site \in Nat /\ row.site \in Nat /\ cur_site < row.site
  <2>1. cur_site \in Sites
    BY DEF TypeOK
  <2>2. row \in RowsOf(run) /\ cur_site <= row.site
    BY DEF GatherInv, FirstRow
  <2>3. QED BY <2>1, <2>2, RowType, SiteType
<1>2. cur_site \in Sampled(run)
  BY DEF GatherInv, Sampled, Seen
<1>3. \A x \in rows : x.site \in Nat /\ row.site <= x.site
  BY RowType DEF GatherInv, FirstRow
<1>4. {x \in Seen : x.site = cur_site} = {x \in RowsOf(run) : x.site = cur_site}
  BY <1>1, <1>3 DEF Seen
<1>5. counts = FieldsOf(run, cur_site)
  BY <1>4 DEF GatherInv, FieldsOf
<1>6. \A x \in RowsOf(run) : x.site <= cur_site \/ row.site <= x.site
  BY <1>3 DEF GatherInv, Seen
<1>7. QED BY <1>1, <1>2, <1>5, <1>6 DEF Sampled

-----------------------------------------------------------------------------
(* Types, and the invariant of the loop.                                   *)

\* Whatever handleSite does, the results keep their types.
LEMMA ResultTypes ==
  ASSUME TypeOK, run \in Runs, NEW s \in Sites, NEW fields, handleSite(s, fields)
  PROVE  /\ obs' \subseteq Interesting \X Runs /\ tru' \subseteq Interesting \X Runs
         /\ {neverReached', neverFalse', neverTrue'} \subseteq SUBSET Locations
<1>1. CASE CrossOut(s, fields)
  BY <1>1 DEF CrossOut, TypeOK
<1>2. CASE Notice(s, fields)
  <2> DEFINE Added(Ps) == {<<<<s, p>>, run>> : p \in {q \in Ps : <<s, q>> \in Interesting}}
  <2>1. \A Ps : Added(Ps) \subseteq Interesting \X Runs
    <3>1. SUFFICES ASSUME NEW Ps, NEW p \in Ps, <<s, p>> \in Interesting
                   PROVE  <<<<s, p>>, run>> \in Interesting \X Runs
      OBVIOUS
    <3>2. QED BY <3>1
  <2>2. obs' = obs \cup Added(Predicates(s)) /\ tru' = tru \cup Added(Holding(s, fields))
    BY <1>2 DEF Notice
  <2> HIDE DEF Added
  <2>3. QED BY <1>2, <2>1, <2>2 DEF Notice, TypeOK
<1>3. QED BY <1>1, <1>2 DEF handleSite

LEMMA InitReader == Init => ReaderInv
<1> SUFFICES ASSUME Init PROVE ReaderInv
  OBVIOUS
<1>1. TypeOK
  BY ReaderAssumption DEF Init, TypeOK, Locations, None
<1>2. TodoInv /\ GatherInv
  BY DEF Init, TodoInv, GatherInv
<1>3. QED BY <1>1, <1>2 DEF ReaderInv

LEMMA NextTypeOK ==
  ASSUME ReaderInv, [Next]_vars
  PROVE  TypeOK'
<1> USE DEF ReaderInv, TypeOK, RowsOf
<1>1. ASSUME NEW r \in Runs, IllFormed(r) PROVE TypeOK'
  BY <1>1 DEF IllFormed
<1>2. ASSUME NEW r \in Runs, Read(r) PROVE TypeOK'
  BY <1>2 DEF Read
<1>3. ASSUME NEW row \in rows, SameSite(row) PROVE TypeOK'
  <2>1. row.field \in Nat
    BY ReaderAssumption
  <2>2. QED BY <1>3, <2>1 DEF SameSite
<1>4. ASSUME NEW row \in rows, NewSite(row) PROVE TypeOK'
  <2>1. row.field \in Nat /\ row.site \in Sites
    BY ReaderAssumption
  <2>2. /\ obs' \subseteq Interesting \X Runs /\ tru' \subseteq Interesting \X Runs
        /\ {neverReached', neverFalse', neverTrue'} \subseteq SUBSET Locations
    <3>1. CASE cur_site = None
      BY <1>4, <3>1 DEF NewSite
    <3>2. CASE cur_site # None
      <4>1. run \in Runs /\ cur_site \in Sites /\ handleSite(cur_site, counts)
        BY <1>4, <3>2 DEF NewSite, GatherInv
      <4>2. QED BY <4>1, ResultTypes
    <3>3. QED BY <3>1, <3>2
  <2>3. QED BY <1>4, <2>1, <2>2 DEF NewSite
<1>5. CASE EndOfRows \/ Finish \/ Terminating \/ UNCHANGED vars
  BY <1>5 DEF EndOfRows, Finish, Terminating, vars, readerVars
<1>6. QED BY <1>1, <1>2, <1>3, <1>4, <1>5 DEF Next

LEMMA NextTodoInv ==
  ASSUME ReaderInv, [Next]_vars
  PROVE  TodoInv'
<1> USE DEF ReaderInv, TodoInv
<1>1. ASSUME NEW r \in Runs, IllFormed(r) \/ Read(r) PROVE TodoInv'
  BY <1>1 DEF IllFormed, Read
<1>2. ASSUME NEW row \in rows, SameSite(row) \/ NewSite(row) PROVE TodoInv'
  BY <1>2 DEF SameSite, NewSite
<1>3. CASE EndOfRows \/ Finish \/ Terminating \/ UNCHANGED vars
  BY <1>3 DEF EndOfRows, Finish, Terminating, vars, readerVars
<1>4. QED BY <1>1, <1>2, <1>3 DEF Next

LEMMA NextGatherInv ==
  ASSUME ReaderInv, [Next]_vars
  PROVE  GatherInv'
<1> USE DEF ReaderInv, Seen, RowsOf
<1>1. ASSUME NEW r \in Runs, IllFormed(r) PROVE GatherInv'
  BY <1>1 DEF IllFormed, GatherInv
<1>2. ASSUME NEW r \in Runs, Read(r) PROVE GatherInv'
  BY <1>2 DEF Read, NextRun, TodoInv, GatherInv
<1>3. ASSUME NEW row \in rows, SameSite(row) PROVE GatherInv'
  <2>1. pc = "rows" /\ row.site = cur_site /\ cur_site # None /\ row \in RowsOf(run)
    <3>1. pc = "rows" /\ row.site = cur_site /\ row \in RowsOf(run)
      BY <1>3 DEF SameSite, GatherInv
    <3>2. QED BY <3>1, RowType, SiteType
  <2>2. Seen' = Seen \cup {row}
    BY <1>3, <2>1 DEF SameSite, GatherInv
  <2>3. cur_site \in Nat
    BY <2>1, SiteType DEF TypeOK
  <2>4. counts' = {x.field : x \in {y \in Seen' : y.site = cur_site}}
    BY <1>3, <2>1, <2>2 DEF SameSite, GatherInv
  <2>5. QED BY <1>3, <2>1, <2>2, <2>3, <2>4 DEF SameSite, GatherInv
<1>4. ASSUME NEW row \in rows, NewSite(row) PROVE GatherInv'
  <2>1. pc = "rows" /\ FirstRow(row) /\ row.site # cur_site /\ row \in RowsOf(run)
    BY <1>4 DEF NewSite, GatherInv
  <2>2. row.site \in Nat
    BY <2>1, RowType
  <2>3. Seen' = Seen \cup {row}
    BY <1>4, <2>1 DEF NewSite, GatherInv
  <2>4. \A x \in Seen : x.site < row.site
    <3>1. CASE cur_site = None
      BY <2>1, <3>1 DEF GatherInv
    <3>2. CASE cur_site # None
      <4>1. cur_site < row.site /\ cur_site \in Nat
        BY <2>1, <3>2, HandedOnWhole, SiteType DEF TypeOK
      <4>2. \A x \in Seen : x.site <= cur_site /\ x.site \in Nat
        BY <2>1, <3>2, RowType DEF GatherInv
      <4>3. QED BY <2>2, <4>1, <4>2
    <3>3. QED BY <3>1, <3>2
  <2>5. \A x \in Seen : x.site \in Nat
    BY RowType
  <2>6. /\ \A x \in Seen' : x.site <= row.site
        /\ {x \in Seen' : x.site = row.site} = {row}
    BY <2>2, <2>3, <2>4, <2>5
  <2>7. counts' = {x.field : x \in {y \in Seen' : y.site = cur_site'}}
    BY <1>4, <2>6 DEF NewSite
  <2>8. \A x \in rows' : cur_site' <= x.site
    BY <1>4, <2>1 DEF NewSite, FirstRow
  <2>9. /\ run' \in Runs /\ rows' \subseteq RowsOf(run)' /\ cur_site' # None
        /\ program' = "never-reached" => run' \in Failing
    BY <1>4, <2>1, <2>2 DEF NewSite, GatherInv, None
  <2>10. /\ \A x \in Seen' : x.site <= cur_site'
         /\ \E x \in Seen' : x.site = cur_site'
    BY <1>4, <2>3, <2>6 DEF NewSite
  <2>11. QED BY <2>7, <2>8, <2>9, <2>10 DEF GatherInv
<1>5. CASE EndOfRows \/ Finish \/ Terminating \/ UNCHANGED vars
  BY <1>5 DEF EndOfRows, Finish, Terminating, vars, readerVars, GatherInv
<1>6. QED BY <1>1, <1>2, <1>3, <1>4, <1>5 DEF Next

LEMMA ReaderInvariant == Spec => []ReaderInv
<1>1. ReaderInv /\ [Next]_vars => ReaderInv'
  BY NextTypeOK, NextTodoInv, NextGatherInv DEF ReaderInv
<1>2. QED BY InitReader, <1>1, PTL DEF Spec

\* The row loop and its two clients keep their types, for every database.
THEOREM ReaderTypeCorrect == Spec => []TypeOK
<1>1. ReaderInv => TypeOK
  BY DEF ReaderInv
<1>2. QED BY <1>1, ReaderInvariant, PTL

-----------------------------------------------------------------------------
(* What the two programs record.                                           *)

results == <<obs, tru, neverReached, neverFalse, neverTrue>>

\* The database does not change.
LEMMA DatabaseConstant ==
  ASSUME [Next]_vars
  PROVE  /\ program' = program
         /\ \A r : Sampled(r)' = Sampled(r)
         /\ \A r, s : FieldsOf(r, s)' = FieldsOf(r, s)
         /\ Reached' = Reached
<1>1. program' = program /\ table' = table
  BY DEF Next, IllFormed, Read, SameSite, NewSite, EndOfRows, Finish, Terminating, vars
<1>2. QED BY <1>1 DEF Sampled, FieldsOf, RowsOf, Reached

\* The results change only when a sampled site is handed on, with all its counts.
LEMMA StepOfResults ==
  ASSUME ReaderInv, [Next]_vars, ~ UNCHANGED results
  PROVE  /\ run \in Runs /\ cur_site \in Sampled(run) /\ cur_site \in Sites
         /\ handleSite(cur_site, FieldsOf(run, cur_site))
         /\ program = "never-reached" => run \in Failing
<1>1. PICK row \in rows : NewSite(row)
  BY DEF Next, IllFormed, Read, SameSite, EndOfRows, Finish, Terminating, vars, results
<1>2. pc = "rows" /\ cur_site # None /\ FirstRow(row) /\ row.site # cur_site
  BY <1>1 DEF NewSite, results
<1>3. handleSite(cur_site, counts)
  BY <1>1, <1>2 DEF NewSite
<1>4. cur_site \in Sampled(run) /\ counts = FieldsOf(run, cur_site)
  BY <1>2, HandedOnWhole DEF ReaderInv
<1>5. cur_site \in Sites
  BY <1>2 DEF ReaderInv, TypeOK
<1>6. run \in Runs /\ (program = "never-reached" => run \in Failing)
  BY <1>2 DEF ReaderInv, GatherInv
<1>7. QED BY <1>3, <1>4, <1>5, <1>6

\* What the database has of a site are fields of the site.
LEMMA FieldsInRange ==
  ASSUME TypeOK, NEW r, NEW s
  PROVE  FieldsOf(r, s) \in SUBSET Nat /\ \A f \in FieldsOf(r, s) : f < NumFields[s]
BY RowType DEF FieldsOf

LEMMA NextRecorded ==
  ASSUME ReaderInv, [Next]_vars, RecordedFaithfully
  PROVE  RecordedFaithfully'
<1>1. CASE UNCHANGED results
  BY <1>1, DatabaseConstant DEF RecordedFaithfully, results
<1>2. ASSUME ~ UNCHANGED results, Notice(cur_site, FieldsOf(run, cur_site))
      PROVE  RecordedFaithfully'
  <2> DEFINE fields == FieldsOf(run, cur_site)
             Wanted(p) == <<cur_site, p>> \in Interesting
  <2>1. cur_site \in Sampled(run) /\ cur_site \in Sites
    BY <1>2, StepOfResults
  <2>2. Holding(cur_site, fields) \subseteq Predicates(cur_site)
    BY <2>1, FieldsInRange, HoldingArePredicates DEF ReaderInv
  <2>3. SUFFICES ASSUME NEW x \in obs' \cup tru'
                 PROVE  /\ x \in obs' /\ x[1][1] \in Sampled(x[2])
                        /\ x \in tru' <=> x[1][2] \in Holding(x[1][1], FieldsOf(x[2], x[1][1]))
    <3>1. \A s, r : Holding(s, FieldsOf(r, s))' = Holding(s, FieldsOf(r, s))
      BY DatabaseConstant DEF Holding
    <3>2. QED BY <3>1, DatabaseConstant DEF RecordedFaithfully
  <2>4. CASE \E p \in Predicates(cur_site) : Wanted(p) /\ x = <<<<cur_site, p>>, run>>
    <3>1. PICK p \in Predicates(cur_site) : Wanted(p) /\ x = <<<<cur_site, p>>, run>>
      BY <2>4
    <3>2. x[1][1] = cur_site /\ x[1][2] = p /\ x[2] = run
      BY <3>1
    <3>3. x \in obs'
      BY <1>2, <3>1 DEF Notice
    <3>4. x \in tru' <=> x \in tru \/ p \in Holding(cur_site, fields)
      BY <1>2, <3>1 DEF Notice
    <3>5. x \in tru => p \in Holding(cur_site, fields)
      BY <3>2 DEF RecordedFaithfully
    <3>6. QED BY <2>1, <3>2, <3>3, <3>4, <3>5
  <2>5. CASE ~ \E p \in Predicates(cur_site) : Wanted(p) /\ x = <<<<cur_site, p>>, run>>
    <3>1. x \notin {<<<<cur_site, p>>, run>> : p \in {q \in Predicates(cur_site) : Wanted(q)}}
      BY <2>5
    <3>2. x \notin {<<<<cur_site, p>>, run>> : p \in {q \in Holding(cur_site, fields) : Wanted(q)}}
      BY <2>2, <2>5
    <3>3. (x \in obs' <=> x \in obs) /\ (x \in tru' <=> x \in tru)
      BY <1>2, <3>1, <3>2 DEF Notice
    <3>4. QED BY <2>3, <3>3 DEF RecordedFaithfully
  <2>6. QED BY <2>4, <2>5
<1>3. ASSUME ~ UNCHANGED results, CrossOut(cur_site, FieldsOf(run, cur_site))
      PROVE  RecordedFaithfully'
  BY <1>3, DatabaseConstant DEF RecordedFaithfully, CrossOut
<1>4. QED BY <1>1, <1>2, <1>3, StepOfResults DEF handleSite

\* What compute_obs_tru records of a predicate is what the database says of its
\* whole site, for every database and every choice of predicates.
THEOREM RecordsAreFaithful == Spec => []RecordedFaithfully
<1>1. Init => RecordedFaithfully
  BY DEF Init, RecordedFaithfully
<1>2. ReaderInv /\ [Next]_vars /\ RecordedFaithfully => RecordedFaithfully'
  BY NextRecorded
<1>3. QED BY <1>1, <1>2, ReaderInvariant, PTL DEF Spec

LEMMA NextUnreached ==
  ASSUME ReaderInv, [Next]_vars, UnreachedIsListed
  PROVE  UnreachedIsListed'
<1>1. CASE UNCHANGED results
  BY <1>1, DatabaseConstant DEF UnreachedIsListed, results
<1>2. ASSUME ~ UNCHANGED results, Notice(cur_site, FieldsOf(run, cur_site))
      PROVE  UnreachedIsListed'
  BY <1>2, DatabaseConstant DEF UnreachedIsListed, Notice
<1>3. ASSUME ~ UNCHANGED results, program = "never-reached",
             CrossOut(cur_site, FieldsOf(run, cur_site))
      PROVE  UnreachedIsListed'
  <2>1. run \in Failing /\ cur_site \in Sampled(run)
    BY <1>3, StepOfResults
  <2>2. LocationOf[cur_site] \in Reached
    BY <2>1 DEF Reached
  <2>3. Locations \ Reached \subseteq neverReached'
    BY <1>3, <2>2 DEF UnreachedIsListed, CrossOut
  <2>4. ASSUME NEW s \in Branches, LocationOf[s] \notin neverFalse'
        PROVE  \E t \in Branches, r \in Failing :
                 LocationOf[t] = LocationOf[s] /\ 0 \in FieldsOf(r, t)
    BY <1>3, <2>1, <2>4 DEF UnreachedIsListed, CrossOut
  <2>5. ASSUME NEW s \in Branches, LocationOf[s] \notin neverTrue'
        PROVE  \E t \in Branches, r \in Failing :
                 LocationOf[t] = LocationOf[s] /\ 1 \in FieldsOf(r, t)
    BY <1>3, <2>1, <2>5 DEF UnreachedIsListed, CrossOut
  <2>6. QED BY <2>3, <2>4, <2>5, DatabaseConstant DEF UnreachedIsListed
<1>4. QED BY <1>1, <1>2, <1>3, StepOfResults DEF handleSite

\* never-reached lists every location that no failing run has reached, and every
\* branch that never went one way in one, for every database.
THEOREM UnreachedAreListed == Spec => []UnreachedIsListed
<1>1. Init => UnreachedIsListed
  BY DEF Init, UnreachedIsListed, Locations
<1>2. ReaderInv /\ [Next]_vars /\ UnreachedIsListed => UnreachedIsListed'
  BY NextUnreached
<1>3. QED BY <1>1, <1>2, ReaderInvariant, PTL DEF Spec

-----------------------------------------------------------------------------
(* What compute_obs_tru misses.                                            *)

\* Nothing is erased from obs, and a site that is handed on is added.
LEMMA ObsGrows ==
  ASSUME ReaderInv, [Next]_vars
  PROVE  obs \subseteq obs'
<1>1. CASE UNCHANGED results
  BY <1>1 DEF results
<1>2. CASE handleSite(cur_site, FieldsOf(run, cur_site))
  BY <1>2 DEF handleSite, Notice, CrossOut
<1>3. QED BY <1>1, <1>2, StepOfResults

\* A site that has been sampled in the run being read has been seen or is to come.
LEMMA HandedOnInOrder ==
  ASSUME ReaderInv, program = "compute_obs_tru", NEW row \in rows, NewSite(row),
         NEW x \in Interesting, x[2] \in Predicates(x[1]), x[1] \in Sampled(run),
         cur_site = None \/ cur_site <= x[1]
  PROVE  <<x, run>> \in obs' \/ row.site <= x[1]
<1>1. pc = "rows" /\ FirstRow(row) /\ row.site # cur_site
  BY DEF NewSite
<1>2. PICK s \in Sites, p \in Nat : x = <<s, p>>
  <2>1. x \in Sites \X Nat
    BY ReaderAssumption
  <2>2. QED BY <2>1
<1>3. x[1] = s /\ x[2] = p /\ s \in Nat
  BY <1>2, SiteType
<1>4. CASE cur_site = None
  <2>1. rows = RowsOf(run)
    BY <1>1, <1>4 DEF ReaderInv, GatherInv
  <2>2. QED BY <2>1, <1>1 DEF Sampled, FirstRow
<1>5. CASE cur_site # None /\ cur_site = s
  <2>1. Notice(cur_site, counts)
    BY <1>5 DEF NewSite, handleSite
  <2>2. QED BY <2>1, <1>2, <1>3, <1>5 DEF Notice
<1>6. CASE cur_site # None /\ cur_site # s
  <2>1. s <= cur_site \/ row.site <= s
    BY <1>1, <1>3, <1>6, HandedOnWhole DEF ReaderInv
  <2>2. cur_site \in Nat /\ cur_site <= s
    BY <1>3, <1>6, SiteType DEF ReaderInv, TypeOK
  <2>3. QED BY <1>3, <1>6, <2>1, <2>2
<1>7. QED BY <1>4, <1>5, <1>6

LEMMA NextComplete ==
  ASSUME ReaderInv, [Next]_vars, CompleteInv
  PROVE  CompleteInv'
<1> SUFFICES ASSUME program = "compute_obs_tru",
                    NEW x \in Interesting, NEW r \in Runs,
                    x[2] \in Predicates(x[1]), x[1] \in Sampled(r),
                    \E s \in Sampled(r) : ~ s <= x[1]
             PROVE  \/ r \in todo'
                    \/ pc' = "rows" /\ r = run' /\ (cur_site' = None \/ cur_site' <= x[1])
                    \/ <<x, r>> \in obs'
  BY DatabaseConstant DEF CompleteInv
<1> USE DEF ReaderInv
<1>1. \/ r \in todo
      \/ pc = "rows" /\ r = run /\ (cur_site = None \/ cur_site <= x[1])
      \/ <<x, r>> \in obs
  BY DEF CompleteInv
<1>2. CASE <<x, r>> \in obs
  BY <1>2, ObsGrows
<1>3. ASSUME NEW q \in Runs, IllFormed(q)
      PROVE  r \in todo' \/ <<x, r>> \in obs'
  BY <1>1, <1>3 DEF IllFormed, NextRun
<1>4. ASSUME NEW q \in Runs, Read(q)
      PROVE  \/ r \in todo' \/ <<x, r>> \in obs'
             \/ pc' = "rows" /\ r = run' /\ cur_site' = None
  BY <1>1, <1>4 DEF Read, NextRun
<1>5. ASSUME NEW row \in rows, SameSite(row)
      PROVE  \/ r \in todo' \/ <<x, r>> \in obs'
             \/ pc' = "rows" /\ r = run' /\ (cur_site' = None \/ cur_site' <= x[1])
  BY <1>1, <1>5 DEF SameSite
<1>6. ASSUME NEW row \in rows, NewSite(row)
      PROVE  \/ r \in todo' \/ <<x, r>> \in obs'
             \/ pc' = "rows" /\ r = run' /\ (cur_site' = None \/ cur_site' <= x[1])
  <2>1. CASE r \in todo
    BY <1>6, <2>1 DEF NewSite
  <2>2. CASE r = run /\ (cur_site = None \/ cur_site <= x[1])
    <3>1. <<x, run>> \in obs' \/ row.site <= x[1]
      BY <1>6, <2>2, HandedOnInOrder
    <3>2. QED BY <1>6, <2>2, <3>1 DEF NewSite
  <2>3. QED BY <1>1, <1>2, <2>1, <2>2
<1>7. CASE EndOfRows
  <2>1. CASE r = run /\ (cur_site = None \/ cur_site <= x[1])
    <3>1. PICK s \in Sampled(r) : ~ s <= x[1]
      OBVIOUS
    <3>2. PICK row \in RowsOf(run) : row.site = s
      BY <2>1, <3>1 DEF Sampled
    <3>3. cur_site # None /\ row \in Seen
      BY <1>7, <3>2 DEF EndOfRows, GatherInv, Seen
    <3>4. s <= cur_site /\ cur_site \in Nat /\ s \in Nat
      BY <1>7, <3>2, <3>3, RowType, SiteType DEF EndOfRows, GatherInv, TypeOK
    <3>5. x[1] \in Nat
      BY ReaderAssumption
    <3>6. QED BY <2>1, <3>1, <3>3, <3>4, <3>5
  <2>2. QED BY <1>1, <1>2, <1>7, <2>1 DEF EndOfRows
<1>8. CASE Finish \/ Terminating \/ UNCHANGED vars
  BY <1>1, <1>8 DEF Finish, Terminating, vars, readerVars
<1>9. QED BY <1>3, <1>4, <1>5, <1>6, <1>7, <1>8 DEF Next

\* compute_obs_tru misses at most the last sampled site of a run, whatever the
\* database.
THEOREM OnlyLastIsMissed == Spec => []OnlyLastMissed
<1>1. Init => CompleteInv
  BY DEF Init, CompleteInv
<1>2. ReaderInv /\ [Next]_vars /\ CompleteInv => CompleteInv'
  BY NextComplete
<1>3. ReaderInv /\ CompleteInv => OnlyLastMissed
  <2> SUFFICES ASSUME ReaderInv, CompleteInv, pc = "done", program = "compute_obs_tru",
                      NEW x \in Interesting, NEW r \in Runs,
                      x[2] \in Predicates(x[1]), x[1] \in Sampled(r),
                      NEW s \in Sampled(r), x[1] < s
               PROVE  <<x, r>> \in obs
    BY DEF OnlyLastMissed
  <2>1. ~ s <= x[1]
    <3>1. s \in Nat
      BY RowType DEF Sampled, ReaderInv
    <3>2. x[1] \in Nat
      BY ReaderAssumption
    <3>3. QED BY <3>1, <3>2
  <2>2. QED BY <2>1 DEF ReaderInv, TodoInv, CompleteInv
<1>4. QED BY <1>1, <1>2, <1>3, ReaderInvariant, PTL DEF Spec

=================================================================================
