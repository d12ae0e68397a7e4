--------------------------- MODULE CorrectiveRanking ---------------------------
(***************************************************************************)
(* Iterative ranking of the predicates that predict failure:               *)
(* src/corrective-ranking.                                                 *)
(*                                                                         *)
(* buildView picks the best candidate, credits it with the failing runs in *)
(* which it was observed true, discounts ("dilutes") those runs from the   *)
(* other candidates and from the set of all failures, drops the candidates *)
(* that no longer correlate with failure, and repeats.  buildZooms shows   *)
(* what each focus predicate alone would take from all the others.  Three  *)
(* programs share this code and differ in how a run set is diluted:        *)
(* corrected-exact-complete, corrected-approximate-complete and            *)
(* adaptive-sampled.                                                       *)
(*                                                                         *)
(* Scores are real numbers and stay abstract: any candidate may have the   *)
(* best one.  What is computed exactly is what the assertions and the loop *)
(* depend on: run sets, their counts, and the sign of increase().          *)
(***************************************************************************)
EXTENDS Integers, FiniteSets

CONSTANTS
  Failing,    \* the runs of f.runs
  Succeeding, \* the other labelled runs
  Preds,      \* the predicates of preds.txt
  Commands,   \* the command lines: the program, whether --complex-preds is
              \* given, and the argument of --zoom
  Feedback,   \* Feedback[r]: what may be reported of a predicate in run r
  Missed      \* the runs in which sampling may miss a true predicate

\* With no failure at all buildView returns before its loop; there is then no
\* predicate that correlates with failure either.  adaptive-sampled has
\* complete data for simple predicates only.
ASSUME RankingAssumption ==
  /\ IsFiniteSet(Failing) /\ Failing # {}
  /\ IsFiniteSet(Succeeding) /\ Failing \cap Succeeding = {}
  /\ IsFiniteSet(Preds)
  /\ Commands \subseteq [program : {"exact", "approximate", "adaptive"},
                          complexPreds : BOOLEAN,
                          zoom : {"none", "winners", "all"}]
  /\ \A c \in Commands : c.program = "adaptive" => ~c.complexPreds
  /\ Feedback \in [Failing \cup Succeeding -> SUBSET {"unseen", "false", "true"}]
  /\ Missed \subseteq Failing \cup Succeeding

VARIABLES
  command,     \* the command line
  pc,          \* "view" in buildView, "zoom" in buildZooms, then "done"
  loaded,      \* loaded[p]: predicate p as read from tru.txt and obs.txt
  complete,    \* complete[p]: tru of p in ../analysis-adapt, "adaptive" only
  preds,       \* preds[p]: predicate p as buildView has diluted it
  candidates,  \* the predicates buildView has neither picked nor dropped
  allFailures, \* the failing runs not credited yet
  iteration,   \* the number of predicates ranked so far
  foci,        \* the predicates whose zoom is still to be built
  succ,        \* succ[k]: the static variable of the estimates of kind k
  credits,     \* history: credits[r]: winners failing run r was credited to,
               \* counted up to MaxCredits
  scored       \* history: the counts recall() was called on in the last step

vars == <<command, pc, loaded, complete, preds, candidates, allFailures, iteration,
          foci, succ, credits, scored>>

Program == command.program

-----------------------------------------------------------------------------
(* Run sets, run suites and predicates.                                    *)

RunSet(runs) == [bits |-> runs, count |-> Cardinality(runs)]

RunSuite(runs) ==
  [failures |-> RunSet(runs \cap Failing), successes |-> RunSet(runs \cap Succeeding)]

Runs(suite) == suite.failures.bits \cup suite.successes.bits

Population(suite) == suite.failures.count + suite.successes.count

\* increase() > 0, that is tru.failRate() > obs.failRate(), where the rate of
\* an empty population is 0.
Increases(pred) ==
  /\ pred.tru.failures.count > 0
  /\ Population(pred.obs) > 0 =>
       pred.tru.failures.count * Population(pred.obs)
         > pred.obs.failures.count * Population(pred.tru)

\* Slip: the count is not adjusted.
DiluteBitsOnly(set, winner) ==
  [bits |-> set.bits \ winner.bits, count |-> set.count]

\* RunSet::dilute of exact-complete.
DiluteExactly(set, winner) ==
  [bits |-> set.bits \ winner.bits,
   count |-> set.count - Cardinality(set.bits \cap winner.bits)]

\* Slip: the count may become negative.
DiluteBelowZero(set, winner) ==
  [set EXCEPT !.count = @ - Cardinality(set.bits \cap winner.bits)]

\* RunSet::dilute of the other two programs: the bits stay.
DiluteCount(set, winner) ==
  LET left == set.count - Cardinality(set.bits \cap winner.bits) IN
  [set EXCEPT !.count = IF left < 0 THEN 0 ELSE left]

Dilute(set, winner) ==
  IF Program = "exact" THEN DiluteExactly(set, winner) ELSE DiluteCount(set, winner)

DiluteSuite(suite, winner) ==
  [failures |-> Dilute(suite.failures, winner.failures),
   successes |-> Dilute(suite.successes, winner.successes)]

DilutePredicate(pred, winner) ==
  [tru |-> DiluteSuite(pred.tru, winner), obs |-> DiluteSuite(pred.obs, winner)]

\* Conjunction::initialize and Disjunction::initialize, from the members of
\* the run sets, whatever their counts say.
Conjunction(p, q) ==
  LET pTrue == Runs(p.tru)  pSeen == Runs(p.obs)
      qTrue == Runs(q.tru)  qSeen == Runs(q.obs) IN
  [tru |-> RunSuite(pTrue \cap qTrue),
   obs |-> RunSuite((pSeen \ pTrue) \cup (qSeen \ qTrue) \cup (pSeen \cap qSeen))]

Disjunction(p, q) ==
  LET pTrue == Runs(p.tru)  pSeen == Runs(p.obs)
      qTrue == Runs(q.tru)  qSeen == Runs(q.obs)
      true == (pSeen \cap pTrue) \cup (qSeen \cap qTrue) IN
  [tru |-> RunSuite(true),
   obs |-> RunSuite(true \cup ((pSeen \ pTrue) \cap (qSeen \ qTrue)))]

Complex(k, p, q) == IF k = "C" THEN Conjunction(p, q) ELSE Disjunction(p, q)

Kinds == {"C", "D"}
Unset == -1

Least(a, b) == IF a < b THEN a ELSE b
Most(a, b) == IF a > b THEN a ELSE b

\* The counts true and false of a predicate in the runs of one outcome.
Trues(p, outcome) == p.tru[outcome].count
Falses(p, outcome) == p.obs[outcome].count - p.tru[outcome].count

\* The counts of estimate(): a quick guess at a complex predicate, from the
\* counts of its parts, where fail is allFailures.count and s is succ.
EstimateConjunction(p, q, fail, s) ==
  LET fp == Trues(p, "failures")   fq == Trues(q, "failures")
      sp == Trues(p, "successes")  sq == Trues(q, "successes")
      fpbar == Falses(p, "failures")   fqbar == Falses(q, "failures")
      spbar == Falses(p, "successes")  sqbar == Falses(q, "successes") IN
  [trueFailures |-> Least(fp, fq),
   seenSuccesses |-> Most(s, spbar + sqbar + Least(sp, sq)),
   trueSuccesses |-> Most(0, sp + sq - s),
   seenFailures |-> Most(fpbar, fqbar) + Most(0, fp + fq + Least(fpbar, fqbar) - fail)]

\* Slip: as if one part were always true where the other is.
EstimateLikeOnePart(p, q, fail, s) ==
  [trueFailures |-> Least(fail, Most(Trues(p, "failures"), Trues(q, "failures"))),
   seenSuccesses |-> s, trueSuccesses |-> 0, seenFailures |-> 0]

EstimateDisjunction(p, q, fail, s) ==
  LET fp == Trues(p, "failures")   fq == Trues(q, "failures")
      sp == Trues(p, "successes")  sq == Trues(q, "successes")
      fpbar == Falses(p, "failures")   fqbar == Falses(q, "failures")
      spbar == Falses(p, "successes")  sqbar == Falses(q, "successes") IN
  [trueFailures |-> Least(fail, fp + fq),
   seenSuccesses |-> Least(s, sp + sq + Least(spbar, sqbar)),
   trueSuccesses |-> Most(sp, sq),
   seenFailures |-> Most(fp, fq) + Most(0, fpbar + fqbar + Least(fp, fq) - fail)]

Estimate(k, p, q, fail, s) ==
  IF k = "C" THEN EstimateConjunction(p, q, fail, s) ELSE EstimateDisjunction(p, q, fail, s)

-----------------------------------------------------------------------------
(* What can be loaded.                                                     *)

Observations ==
  {o \in [Failing \cup Succeeding -> {"unseen", "false", "true"}] :
     \A r \in DOMAIN o : o[r] \in Feedback[r]}

Observed(o) ==
  [tru |-> RunSuite({r \in DOMAIN o : o[r] = "true"}),
   obs |-> RunSuite({r \in DOMAIN o : o[r] # "unseen"})]

\* What prefilter retains: a positive lower bound on increase().  It also asks
\* for a minimum number of runs, which an instance this small cannot have.
Retained == {pred \in {Observed(o) : o \in Observations} : Increases(pred)}

\* The complete data of a sampled predicate.
CompleteSuites(pred) == {RunSuite(Runs(pred.tru) \cup runs) : runs \in SUBSET Missed}

Init ==
  /\ command \in Commands
  /\ pc = "view"
  /\ loaded \in [Preds -> Retained]
  /\ complete \in [Preds -> IF Program = "adaptive"
                            THEN UNION {CompleteSuites(loaded[p]) : p \in Preds}
                            ELSE {RunSuite({})}]
  /\ Program = "adaptive" => \A p \in Preds : complete[p] \in CompleteSuites(loaded[p])
  /\ preds = loaded
  /\ candidates = Preds
  /\ allFailures = RunSet(Failing)
  /\ iteration = 0
  /\ foci = IF command.zoom = "all" THEN Preds ELSE {}
  /\ succ = [k \in Kinds |-> Unset]
  /\ credits = [r \in Failing |-> 0]
  /\ scored = {}

-----------------------------------------------------------------------------
(* buildView.                                                              *)

MaxCredits == 2

Credit(runs) ==
  credits' = [r \in Failing |->
    IF r \in runs /\ credits[r] < MaxCredits THEN credits[r] + 1 ELSE credits[r]]

Counts(pred, failures) == <<pred.tru.failures.count, failures.count>>

\* Candidates::rescore drops each candidate whose lowerBound() is not
\* positive, and scores the others.  lowerBound() is at most increase().
Rescore(diluted, left, rest) ==
  /\ candidates' \in SUBSET {q \in rest : Increases(diluted[q])}
  /\ scored' = {Counts(diluted[q], left) : q \in candidates'}

\* Slip: the failures are not restored.
LeaveViewDiluted(left) ==
  /\ pc' = "zoom"
  /\ allFailures' = left
  /\ scored' = {}
  /\ UNCHANGED <<preds, candidates>>

\* The end of the loop.  The snapshot of allFailures is restored.
LeaveView(left) ==
  /\ pc' = "zoom"
  /\ allFailures' = RunSet(Failing)
  /\ scored' = {}
  /\ UNCHANGED <<preds, candidates>>

\* A winner takes its runs from the failures and, when any failure is left,
\* from the losers; the candidates of rest are then scored again.
TakeOut(taken, losers, rest) ==
  LET left == Dilute(allFailures, taken.failures)
      diluted == [q \in Preds |-> IF q \in losers THEN DilutePredicate(preds[q], taken)
                                                  ELSE preds[q]] IN
  /\ iteration' = iteration + 1
  /\ Credit(taken.failures.bits)
  /\ \/ left.count <= 0 /\ LeaveView(left)
     \/ /\ left.count > 0
        /\ allFailures' = left
        /\ preds' = diluted
        /\ Rescore(diluted, left, rest)
        /\ UNCHANGED pc

\* Slip: the winner stays a candidate.
PickAgain(p) ==
  /\ pc = "view" /\ p \in candidates
  /\ TakeOut(IF Program = "adaptive" THEN complete[p] ELSE preds[p].tru,
             candidates \ {p}, candidates)
  /\ foci' = IF command.zoom = "winners" THEN foci \cup {p} ELSE foci
  /\ UNCHANGED <<command, loaded, complete, succ>>

\* The best candidate wins.  Any may be the best, as scores are abstract.
Pick(p) ==
  /\ pc = "view" /\ p \in candidates
  /\ TakeOut(IF Program = "adaptive" THEN complete[p] ELSE preds[p].tru,
             candidates \ {p}, candidates \ {p})
  /\ foci' = IF command.zoom = "winners" THEN foci \cup {p} ELSE foci
  /\ UNCHANGED <<command, loaded, complete, succ>>

\* A conjunction or disjunction scores better than every candidate and wins.
\* No candidate is erased, and all are diluted.
PickComplex(p, q) ==
  /\ command.complexPreds
  /\ pc = "view" /\ p \in candidates /\ q \in candidates /\ p # q
  /\ \E k \in Kinds : LET c == Complex(k, preds[p], preds[q]) IN
       Increases(c) /\ TakeOut(c.tru, candidates, candidates)
  /\ UNCHANGED <<command, loaded, complete, foci, succ>>

\* combine makes the first estimate of a kind, which it does once it holds some
\* complex predicate (which ones it finds is abstract).  The static variable is
\* then set for good.
FirstEstimate(k) ==
  /\ command.complexPreds
  /\ pc = "view" /\ Cardinality(candidates) > 1
  /\ succ[k] = Unset
  /\ succ' = [succ EXCEPT ![k] = Cardinality(Failing \cup Succeeding) - allFailures.count]
  /\ UNCHANGED <<command, pc, loaded, complete, preds, candidates, allFailures,
                 iteration, foci, credits, scored>>

NoCandidate ==
  /\ pc = "view" /\ candidates = {}
  /\ LeaveView(allFailures)
  /\ UNCHANGED <<command, loaded, complete, iteration, foci, succ, credits>>

-----------------------------------------------------------------------------
(* buildZooms: every candidate as loaded, diluted by one focus predicate.  *)

\* buildZoom restores allFailures when it returns.
Zoom(p) ==
  LET taken == IF Program = "adaptive" THEN complete[p] ELSE loaded[p].tru
      left == Dilute(allFailures, taken.failures)
      copies == {DilutePredicate(loaded[q], taken) : q \in Preds} IN
  /\ pc = "zoom" /\ p \in foci
  /\ foci' = foci \ {p}
  /\ scored' = {Counts(copy, left) : copy \in {c \in copies : Increases(c)}}
  /\ UNCHANGED <<command, pc, loaded, complete, preds, candidates, allFailures,
                 iteration, succ, credits>>

Done ==
  /\ pc = "zoom" /\ foci = {}
  /\ pc' = "done"
  /\ scored' = {}
  /\ UNCHANGED <<command, loaded, complete, preds, candidates, allFailures,
                 iteration, foci, succ, credits>>

\* The program has returned.
Terminating == pc = "done" /\ UNCHANGED vars

Next ==
  \/ \E p \in Preds : Pick(p) \/ Zoom(p)
  \/ \E p, q \in Preds : PickComplex(p, q)
  \/ \E k \in Kinds : FirstEstimate(k)
  \/ NoCandidate \/ Done \/ Terminating

Spec == Init /\ [][Next]_vars

-----------------------------------------------------------------------------
(* Properties.                                                             *)

RunSets(runs) == [bits : SUBSET runs, count : 0 .. Cardinality(runs)]

RunSuites == [failures : RunSets(Failing), successes : RunSets(Succeeding)]

\* The type invariant.  A count that RunSet::dilute lowers never goes below
\* zero, for any program.
TypeOK ==
  /\ command \in Commands
  /\ pc \in {"view", "zoom", "done"}
  /\ loaded \in [Preds -> [tru : RunSuites, obs : RunSuites]]
  /\ complete \in [Preds -> RunSuites]
  /\ preds \in [Preds -> [tru : RunSuites, obs : RunSuites]]
  /\ candidates \subseteq Preds
  /\ allFailures \in RunSets(Failing)
  /\ iteration \in Nat
  /\ foci \subseteq Preds
  /\ succ \in [Kinds -> {Unset} \cup Nat]
  /\ credits \in [Failing -> 0 .. MaxCredits]

\* The assertions of Predicate::recall hold: whenever a predicate is scored
\* after a dilution, in buildView or in a zoom, it is still true in some
\* failing run and some failing run is left.
RecallDefined == \A c \in scored : c[1] > 0 /\ c[2] > 0

Credited == {r \in Failing : credits[r] > 0}

Uncredited(p) == loaded[p].tru.failures.bits \ Credited

\* Dilution never leaves a candidate with more failures than are still to be
\* explained, although two of the programs subtract runs that an earlier
\* winner has already taken.  corrected-exact-complete has the exact number.
NothingOvercounted ==
  pc = "view" =>
    /\ \A p \in candidates :
         /\ preds[p].tru.failures.count <= Cardinality(Uncredited(p))
         /\ Program = "exact" =>
              preds[p].tru.failures.count = Cardinality(Uncredited(p))
    /\ allFailures.count <= Cardinality(Failing \ Credited)
    /\ Program = "exact" => allFailures.count = Cardinality(Failing \ Credited)

\* corrected-exact-complete explains each failing run by one predicate at
\* most, simple or complex.
CreditedOnce == Program = "exact" => \A r \in Failing : credits[r] <= 1

\* buildView ends after at most one iteration for each predicate and each
\* failing run, although a complex winner leaves every candidate in the list.
IterationsBounded == iteration <= Cardinality(Preds) + Cardinality(Failing)

\* In corrected-exact-complete the counts of an estimate err on the side of a
\* high score, so that combine does not discard a better predicate for them,
\* although succ is that of the iteration that made the first estimate.
EstimatesConservative ==
  Program = "exact" /\ pc = "view" =>
    \A k \in Kinds, p, q \in candidates : p # q /\ succ[k] # Unset =>
      LET guess == Estimate(k, preds[p], preds[q], allFailures.count, succ[k])
          found == Complex(k, preds[p], preds[q]) IN
      /\ guess.trueFailures >= found.tru.failures.count
      /\ guess.seenSuccesses >= found.obs.successes.count
      /\ guess.trueSuccesses <= found.tru.successes.count
      /\ guess.seenFailures <= found.obs.failures.count

================================================================================
