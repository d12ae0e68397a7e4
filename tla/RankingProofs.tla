------------------------------ MODULE RankingProofs ------------------------------
(***************************************************************************)
(* Proofs about CorrectiveRanking, for any runs, predicates and command    *)
(* lines that its assumption allows.                                       *)
(***************************************************************************)
EXTENDS CorrectiveRanking, TLAPS, FiniteSetTheorems

PredTypes == [tru : RunSuites, obs : RunSuites]

\* The count of a run set is its size, as in everything that is loaded, and in
\* everything that corrected-exact-complete dilutes.
Counted(set) == set.count = Cardinality(set.bits)
CountedSuite(suite) == Counted(suite.failures) /\ Counted(suite.successes)
CountedPred(pred) == CountedSuite(pred.tru) /\ CountedSuite(pred.obs)

Exact == Program = "exact"

-----------------------------------------------------------------------------
(* Cardinalities.                                                          *)

LEMMA CardinalitySplit ==
  ASSUME NEW S, IsFiniteSet(S), NEW W
  PROVE  /\ Cardinality(S) \in Nat /\ Cardinality(S \ W) \in Nat
         /\ Cardinality(S \cap W) \in Nat
         /\ Cardinality(S \ W) + Cardinality(S \cap W) = Cardinality(S)
<1>1. IsFiniteSet(S \ W) /\ IsFiniteSet(S \cap W)
  BY FS_Subset
<1>2. (S \ W) \cup (S \cap W) = S /\ (S \ W) \cap (S \cap W) = {}
  OBVIOUS
<1>3. Cardinality((S \ W) \cup (S \cap W))
        = Cardinality(S \ W) + Cardinality(S \cap W) - Cardinality((S \ W) \cap (S \cap W))
  BY <1>1, FS_Union
<1>4. Cardinality(S) \in Nat /\ Cardinality(S \ W) \in Nat /\ Cardinality(S \cap W) \in Nat
  BY <1>1, FS_CardinalityType
<1>5. Cardinality((S \ W) \cap (S \cap W)) = 0
  BY <1>2, FS_EmptySet
<1>6. Cardinality(S) = Cardinality(S \ W) + Cardinality(S \cap W) - 0
  BY <1>2, <1>3, <1>5
<1> QED
  BY <1>4, <1>6

LEMMA CardinalityMonotone ==
  ASSUME NEW T, IsFiniteSet(T), NEW S \in SUBSET T
  PROVE  /\ IsFiniteSet(S) /\ Cardinality(S) \in Nat /\ Cardinality(T) \in Nat
         /\ Cardinality(S) <= Cardinality(T)
  BY FS_Subset, FS_CardinalityType

LEMMA CardinalityPositive ==
  ASSUME NEW S, IsFiniteSet(S), S # {}
  PROVE  Cardinality(S) \in Nat /\ Cardinality(S) > 0
  BY FS_EmptySet, FS_CardinalityType

-----------------------------------------------------------------------------
(* Run sets.                                                               *)

LEMMA RunSetTypes ==
  ASSUME NEW runs, IsFiniteSet(runs), NEW S \in SUBSET runs
  PROVE  RunSet(S) \in RunSets(runs) /\ Counted(RunSet(S)) /\ RunSet(S).bits = S
<1>1. Cardinality(S) \in 0 .. Cardinality(runs)
  BY CardinalityMonotone
<1> QED
  BY <1>1 DEF RunSet, RunSets, Counted

LEMMA RunSuiteTypes ==
  ASSUME NEW S
  PROVE  /\ RunSuite(S) \in RunSuites /\ CountedSuite(RunSuite(S))
         /\ RunSuite(S).failures.bits = S \cap Failing
         /\ RunSuite(S).successes.bits = S \cap Succeeding
<1>1. /\ RunSet(S \cap Failing) \in RunSets(Failing) /\ Counted(RunSet(S \cap Failing))
      /\ RunSet(S \cap Failing).bits = S \cap Failing
  BY RunSetTypes, RankingAssumption
<1>2. /\ RunSet(S \cap Succeeding) \in RunSets(Succeeding)
      /\ Counted(RunSet(S \cap Succeeding))
      /\ RunSet(S \cap Succeeding).bits = S \cap Succeeding
  BY RunSetTypes, RankingAssumption
<1> HIDE DEF RunSet
<1> QED
  BY <1>1, <1>2 DEF RunSuite, RunSuites, CountedSuite

\* What dilution does to a run set, in the exact program and in the others.
LEMMA DiluteTypes ==
  ASSUME NEW runs, IsFiniteSet(runs), NEW set \in RunSets(runs), NEW winner,
         Exact => Counted(set)
  PROVE  LET d == Dilute(set, winner) IN
         /\ d \in RunSets(runs)
         /\ d.count <= set.count
         /\ Exact => Counted(d) /\ d.bits = set.bits \ winner.bits
         /\ ~Exact => /\ d.bits = set.bits
                      /\ d.count = 0 \/ d.count = set.count - Cardinality(set.bits \cap winner.bits)
<1> DEFINE hit == Cardinality(set.bits \cap winner.bits)
           left == set.count - hit
<1>1. /\ set = [bits |-> set.bits, count |-> set.count]
      /\ set.bits \in SUBSET runs /\ set.count \in 0 .. Cardinality(runs)
  BY DEF RunSets
<1>2. IsFiniteSet(set.bits) /\ Cardinality(runs) \in Nat
  BY <1>1, CardinalityMonotone
<1>3. /\ Cardinality(set.bits) \in Nat /\ Cardinality(set.bits \ winner.bits) \in Nat
      /\ hit \in Nat
      /\ Cardinality(set.bits \ winner.bits) + hit = Cardinality(set.bits)
  BY <1>2, CardinalitySplit
<1> HIDE DEF hit
<1>4. CASE Exact
  <2>1. Dilute(set, winner) = [bits |-> set.bits \ winner.bits, count |-> left]
    BY <1>4 DEF Dilute, DiluteExactly, Exact, hit
  <2>2. left = Cardinality(set.bits \ winner.bits) /\ left \in 0 .. Cardinality(runs)
        /\ left <= set.count
    BY <1>1, <1>2, <1>3, <1>4 DEF Counted
  <2>3. [bits |-> set.bits \ winner.bits, count |-> left] \in RunSets(runs)
    <3>1. set.bits \ winner.bits \in SUBSET runs
      BY <1>1
    <3> HIDE DEF left
    <3> QED
      BY <2>2, <3>1 DEF RunSets
  <2> HIDE DEF left
  <2> QED
    BY <1>4, <2>1, <2>2, <2>3 DEF Counted
<1>5. CASE ~Exact
  <2>1. Dilute(set, winner) = [bits |-> set.bits, count |-> IF left < 0 THEN 0 ELSE left]
    BY <1>1, <1>5 DEF Dilute, DiluteCount, Exact, hit
  <2>2. (IF left < 0 THEN 0 ELSE left) \in 0 .. Cardinality(runs)
        /\ (IF left < 0 THEN 0 ELSE left) <= set.count
    BY <1>1, <1>2, <1>3
  <2> HIDE DEF left
  <2>3. [bits |-> set.bits, count |-> IF left < 0 THEN 0 ELSE left] \in RunSets(runs)
    BY <1>1, <2>2 DEF RunSets
  <2>4. Dilute(set, winner).count = 0 \/ Dilute(set, winner).count = left
    BY <2>1
  <2> QED
    BY <1>5, <2>1, <2>2, <2>3, <2>4 DEF left, hit
<1> QED
  BY <1>4, <1>5

\* A set that was never diluted before keeps the runs the winner does not have.
LEMMA FirstDilution ==
  ASSUME NEW runs, IsFiniteSet(runs), NEW set \in RunSets(runs), NEW winner, Counted(set)
  PROVE  Dilute(set, winner).count = Cardinality(set.bits \ winner.bits)
<1> DEFINE hit == Cardinality(set.bits \cap winner.bits)
<1>1. set = [bits |-> set.bits, count |-> set.count] /\ IsFiniteSet(set.bits)
  BY FS_Subset DEF RunSets
<1>2. /\ set.count \in Nat /\ Cardinality(set.bits \ winner.bits) \in Nat /\ hit \in Nat
      /\ Cardinality(set.bits \ winner.bits) + hit = set.count
  BY <1>1, CardinalitySplit DEF Counted
<1> HIDE DEF hit
<1>3. ~(set.count - hit < 0) /\ set.count - hit = Cardinality(set.bits \ winner.bits)
  BY <1>2
<1>4. Dilute(set, winner).count = set.count - hit
  <2>1. CASE Program = "exact"
    BY <2>1 DEF Dilute, DiluteExactly, hit
  <2>2. CASE Program # "exact"
    <3>1. Dilute(set, winner) = [set EXCEPT !.count = set.count - hit]
      BY <1>3, <2>2 DEF Dilute, DiluteCount, hit
    <3> QED
      BY <1>1, <3>1
  <2> QED
    BY <2>1, <2>2
<1> QED
  BY <1>3, <1>4

LEMMA DiluteSuiteTypes ==
  ASSUME NEW suite \in RunSuites, NEW winner, Exact => CountedSuite(suite)
  PROVE  /\ DiluteSuite(suite, winner) \in RunSuites
         /\ Exact => CountedSuite(DiluteSuite(suite, winner))
         /\ DiluteSuite(suite, winner).failures = Dilute(suite.failures, winner.failures)
         /\ DiluteSuite(suite, winner).successes = Dilute(suite.successes, winner.successes)
<1>1. suite.failures \in RunSets(Failing) /\ suite.successes \in RunSets(Succeeding)
  BY DEF RunSuites
<1>2. /\ Dilute(suite.failures, winner.failures) \in RunSets(Failing)
      /\ Exact => Counted(Dilute(suite.failures, winner.failures))
  BY <1>1, DiluteTypes, RankingAssumption DEF CountedSuite
<1>3. /\ Dilute(suite.successes, winner.successes) \in RunSets(Succeeding)
      /\ Exact => Counted(Dilute(suite.successes, winner.successes))
  BY <1>1, DiluteTypes, RankingAssumption DEF CountedSuite
<1> QED
  BY <1>2, <1>3 DEF DiluteSuite, RunSuites, CountedSuite

LEMMA DilutePredicateTypes ==
  ASSUME NEW pred \in PredTypes, NEW winner, Exact => CountedPred(pred)
  PROVE  /\ DilutePredicate(pred, winner) \in PredTypes
         /\ Exact => CountedPred(DilutePredicate(pred, winner))
         /\ DilutePredicate(pred, winner).tru = DiluteSuite(pred.tru, winner)
         /\ DilutePredicate(pred, winner).obs = DiluteSuite(pred.obs, winner)
<1>1. pred.tru \in RunSuites /\ pred.obs \in RunSuites
  BY DEF PredTypes
<1>2. /\ DiluteSuite(pred.tru, winner) \in RunSuites
      /\ Exact => CountedSuite(DiluteSuite(pred.tru, winner))
  BY <1>1, DiluteSuiteTypes DEF CountedPred
<1>3. /\ DiluteSuite(pred.obs, winner) \in RunSuites
      /\ Exact => CountedSuite(DiluteSuite(pred.obs, winner))
  BY <1>1, DiluteSuiteTypes DEF CountedPred
<1> QED
  BY <1>2, <1>3 DEF DilutePredicate, PredTypes, CountedPred

\* A complex predicate is true in failing runs of its parts only.
LEMMA ComplexTypes ==
  ASSUME NEW p \in PredTypes, NEW q \in PredTypes, NEW k \in Kinds
  PROVE  LET c == Complex(k, p, q) IN
         /\ c.tru \in RunSuites /\ c.obs \in RunSuites
         /\ CountedPred(c)
         /\ c.tru.failures.bits \subseteq p.tru.failures.bits \cup q.tru.failures.bits
<1>1. /\ p.tru.failures.bits \subseteq Failing /\ p.tru.successes.bits \subseteq Succeeding
      /\ q.tru.failures.bits \subseteq Failing /\ q.tru.successes.bits \subseteq Succeeding
  BY DEF PredTypes, RunSuites, RunSets
<1>2. \A S : /\ RunSuite(S) \in RunSuites /\ CountedSuite(RunSuite(S))
             /\ RunSuite(S).failures.bits = S \cap Failing
  BY RunSuiteTypes
<1>3. Failing \cap Succeeding = {}
  BY RankingAssumption
<1> HIDE DEF RunSuite
<1>4. CASE k = "C"
  BY <1>1, <1>2, <1>3, <1>4 DEF Complex, Conjunction, CountedPred, Runs
<1>5. CASE k = "D"
  BY <1>1, <1>2, <1>3, <1>5 DEF Complex, Disjunction, CountedPred, Runs
<1> QED
  BY <1>4, <1>5 DEF Kinds

-----------------------------------------------------------------------------
(* The invariant.                                                          *)

TypeInv ==
  /\ TypeOK
  /\ \A p \in Preds : CountedPred(loaded[p]) /\ CountedSuite(complete[p])
  /\ Exact => Counted(allFailures) /\ \A p \in Preds : CountedPred(preds[p])

\* What buildView keeps between its iterations.  Credited runs are taken out of
\* the candidates in the exact program; the others keep them, and the counts
\* are then too low rather than too high.
ViewInv ==
  /\ \A p \in candidates :
       /\ preds[p].tru.failures.bits = IF Exact THEN Uncredited(p)
                                                ELSE loaded[p].tru.failures.bits
       /\ preds[p].tru.failures.count <= Cardinality(Uncredited(p))
  /\ allFailures.bits = IF Exact THEN Failing \ Credited ELSE Failing
  /\ allFailures.count <= Cardinality(Failing \ Credited)
  /\ iteration + Cardinality(candidates) + allFailures.count
       <= Cardinality(Preds) + Cardinality(Failing)

Inv ==
  /\ TypeInv
  /\ pc = "view" => ViewInv
  /\ pc # "view" => allFailures = RunSet(Failing)
  /\ IterationsBounded /\ CreditedOnce /\ RecallDefined

\* What the parts of TypeOK say of a predicate.
LEMMA PredsTyped ==
  ASSUME TypeOK, NEW p \in Preds
  PROVE  /\ loaded[p] \in PredTypes /\ preds[p] \in PredTypes /\ complete[p] \in RunSuites
         /\ loaded[p].tru.failures.bits \in SUBSET Failing
         /\ preds[p].tru.failures \in RunSets(Failing)
         /\ complete[p].failures.bits \in SUBSET Failing
  BY DEF TypeOK, PredTypes, RunSuites, RunSets

LEMMA FailuresTyped ==
  ASSUME TypeOK
  PROVE  /\ allFailures \in RunSets(Failing) /\ allFailures.count \in Nat
         /\ Cardinality(Failing) \in Nat /\ Cardinality(Preds) \in Nat
         /\ Cardinality(candidates) \in Nat /\ Cardinality(candidates) <= Cardinality(Preds)
  BY RankingAssumption, CardinalityMonotone DEF TypeOK, RunSets

LEMMA InitInv == Init => Inv
<1> SUFFICES ASSUME Init PROVE Inv
  OBVIOUS
<1>1. ASSUME NEW p \in Preds PROVE loaded[p] \in PredTypes /\ CountedPred(loaded[p])
  <2>1. PICK o \in Observations : loaded[p] = Observed(o)
    BY DEF Init, Retained
  <2>2. \A S : RunSuite(S) \in RunSuites /\ CountedSuite(RunSuite(S))
    BY RunSuiteTypes
  <2> HIDE DEF RunSuite
  <2> QED
    BY <2>1, <2>2 DEF Observed, PredTypes, CountedPred
<1>2. ASSUME NEW p \in Preds PROVE complete[p] \in RunSuites /\ CountedSuite(complete[p])
  <2>1. PICK S : complete[p] = RunSuite(S)
    <3>1. CASE Program = "adaptive"
      BY <3>1 DEF Init, CompleteSuites
    <3>2. CASE Program # "adaptive"
      BY <3>2 DEF Init
    <3> QED
      BY <3>1, <3>2
  <2> QED
    BY <2>1, RunSuiteTypes
<1>3. /\ RunSet(Failing) \in RunSets(Failing) /\ Counted(RunSet(Failing))
      /\ RunSet(Failing).bits = Failing
  BY RunSetTypes, RankingAssumption
<1>4. /\ loaded \in [Preds -> PredTypes] /\ complete \in [Preds -> RunSuites]
  BY <1>1, <1>2 DEF Init
<1> HIDE DEF RunSet
<1>5. TypeOK
  BY <1>3, <1>4 DEF Init, TypeOK, PredTypes, MaxCredits, Kinds, Unset
<1>6. TypeInv
  BY <1>1, <1>2, <1>3, <1>5 DEF Init, TypeInv
<1>7. Credited = {} /\ \A p \in Preds : Uncredited(p) = loaded[p].tru.failures.bits
  BY DEF Init, Credited, Uncredited
<1>8. ViewInv
  <2>1. Cardinality(Failing) \in Nat /\ Cardinality(Preds) \in Nat
    BY <1>5, FailuresTyped
  <2>2. \A p \in Preds : Counted(preds[p].tru.failures)
                         /\ Cardinality(preds[p].tru.failures.bits) \in Nat
    <3>1. \A p \in Preds : IsFiniteSet(preds[p].tru.failures.bits)
      BY <1>5, PredsTyped, RankingAssumption, FS_Subset DEF RunSets
    <3> QED
      BY <1>1, <3>1, FS_CardinalityType DEF Init, CountedPred, CountedSuite
  <2> QED
    BY <1>3, <1>7, <2>1, <2>2 DEF Init, ViewInv, Counted
<1>9. IterationsBounded /\ CreditedOnce /\ RecallDefined
  <2>1. Cardinality(Failing) \in Nat /\ Cardinality(Preds) \in Nat
    BY <1>5, FailuresTyped
  <2> QED
    BY <2>1 DEF Init, IterationsBounded, CreditedOnce, RecallDefined
<1> QED
  BY <1>6, <1>8, <1>9 DEF Init, Inv

-----------------------------------------------------------------------------
(* An iteration of buildView.                                              *)

LEMMA CreditEffect ==
  ASSUME TypeOK, CreditedOnce, UNCHANGED command, NEW W \in SUBSET Failing, Credit(W),
         Exact => W \subseteq Failing \ Credited
  PROVE  /\ credits' \in [Failing -> 0 .. MaxCredits]
         /\ Credited' = Credited \cup W
         /\ CreditedOnce'
<1>1. credits \in [Failing -> 0 .. MaxCredits] /\ MaxCredits = 2
  BY DEF TypeOK, MaxCredits
<1>2. \A r \in Failing : credits'[r] = IF r \in W /\ credits[r] < 2 THEN credits[r] + 1
                                                                   ELSE credits[r]
  BY <1>1 DEF Credit
<1>3. credits' = [r \in Failing |-> credits'[r]]
  BY DEF Credit
<1>4. \A r \in Failing : credits'[r] \in 0 .. MaxCredits
  BY <1>1, <1>2
<1>5. Credited' = Credited \cup W
  BY <1>1, <1>2 DEF Credited
<1>6. CreditedOnce'
  BY <1>1, <1>2 DEF Credited, CreditedOnce, Exact, Program
<1> QED
  BY <1>3, <1>4, <1>5, <1>6

\* Taking W out leaves a lower count still at most the size of what is left.
LEMMA CountsLeft ==
  ASSUME NEW bits \in SUBSET Failing, NEW U \in SUBSET bits, NEW W, NEW n \in Nat,
         n <= Cardinality(U), NEW d \in Nat,
         d = 0 \/ d = n - Cardinality(bits \cap W)
  PROVE  d <= Cardinality(U \ W)
<1>1. IsFiniteSet(bits) /\ IsFiniteSet(U) /\ IsFiniteSet(bits \cap W)
  BY RankingAssumption, FS_Subset
<1>2. Cardinality(U \cap W) <= Cardinality(bits \cap W)
  BY <1>1, FS_Subset
<1>3. /\ Cardinality(U) \in Nat /\ Cardinality(U \ W) \in Nat /\ Cardinality(U \cap W) \in Nat
      /\ Cardinality(U \ W) + Cardinality(U \cap W) = Cardinality(U)
  BY <1>1, CardinalitySplit
<1>4. Cardinality(bits \cap W) \in Nat
  BY <1>1, FS_CardinalityType
<1> QED
  BY <1>2, <1>3, <1>4

\* What Dilute makes of the failures of a candidate, and of all failures.
LEMMA FailuresLeft ==
  ASSUME NEW set \in RunSets(Failing), NEW U \in SUBSET Failing, NEW winner,
         set.count <= Cardinality(U), Exact => Counted(set) /\ set.bits = U,
         ~Exact => U \subseteq set.bits
  PROVE  LET d == Dilute(set, winner) IN
         /\ Exact => d.bits = U \ winner.bits
         /\ ~Exact => d.bits = set.bits
         /\ d.count \in Nat
         /\ d.count <= Cardinality(U \ winner.bits)
<1> DEFINE d == Dilute(set, winner)
<1>1. /\ d \in RunSets(Failing)
      /\ Exact => Counted(d) /\ d.bits = set.bits \ winner.bits
      /\ ~Exact => /\ d.bits = set.bits
                   /\ d.count = 0 \/ d.count = set.count - Cardinality(set.bits \cap winner.bits)
  <2>1. d \in RunSets(Failing)
    BY DiluteTypes, RankingAssumption
  <2>2. Exact => Counted(d) /\ d.bits = set.bits \ winner.bits
    BY DiluteTypes, RankingAssumption
  <2>3. ~Exact => d.bits = set.bits
    BY DiluteTypes, RankingAssumption
  <2>4. ~Exact => d.count = 0 \/ d.count = set.count - Cardinality(set.bits \cap winner.bits)
    BY DiluteTypes, RankingAssumption
  <2> QED
    BY <2>1, <2>2, <2>3, <2>4
<1> HIDE DEF d
<1>2. /\ set.bits \in SUBSET Failing /\ set.count \in Nat /\ d.count \in Nat
      /\ Cardinality(U \ winner.bits) \in Nat
  <2>1. Cardinality(Failing) \in Nat /\ Cardinality(U \ winner.bits) \in Nat
    BY CardinalityMonotone, RankingAssumption
  <2> QED
    BY <1>1, <2>1 DEF RunSets
<1>3. CASE Exact
  BY <1>1, <1>2, <1>3 DEF Counted, d
<1>4. CASE ~Exact
  <2>1. d.count <= Cardinality(U \ winner.bits)
    BY <1>1, <1>2, <1>4, CountsLeft
  <2> QED
    BY <1>1, <1>2, <1>4, <2>1 DEF d
<1> QED
  BY <1>3, <1>4 DEF d

\* A winner that takes a failing run which is in the failures lowers the count.
LEMMA CountDrops ==
  ASSUME NEW set \in RunSets(Failing), NEW winner, Exact => Counted(set),
         set.bits \cap winner.bits # {}, Dilute(set, winner).count > 0
  PROVE  Dilute(set, winner).count < set.count
<1> DEFINE d == Dilute(set, winner)
<1>1. /\ Exact => Counted(d) /\ d.bits = set.bits \ winner.bits
      /\ ~Exact => d.count = 0 \/ d.count = set.count - Cardinality(set.bits \cap winner.bits)
  BY DiluteTypes, RankingAssumption
<1> HIDE DEF d
<1>2. /\ IsFiniteSet(set.bits) /\ set.count \in Nat
  <2>1. Cardinality(Failing) \in Nat
    BY RankingAssumption, FS_CardinalityType
  <2> QED
    BY <2>1, RankingAssumption, FS_Subset DEF RunSets
<1>3. Cardinality(set.bits \cap winner.bits) \in Nat /\ Cardinality(set.bits \cap winner.bits) > 0
  BY <1>2, FS_Subset, CardinalityPositive
<1>4. /\ Cardinality(set.bits) \in Nat /\ Cardinality(set.bits \ winner.bits) \in Nat
      /\ Cardinality(set.bits \ winner.bits) + Cardinality(set.bits \cap winner.bits)
           = Cardinality(set.bits)
  BY <1>2, CardinalitySplit
<1>5. CASE Exact
  <2>1. d.count = Cardinality(set.bits \ winner.bits) /\ set.count = Cardinality(set.bits)
    BY <1>1, <1>5 DEF Counted
  <2> QED
    BY <1>3, <1>4, <2>1 DEF d
<1>6. CASE ~Exact
  BY <1>1, <1>2, <1>3, <1>6 DEF d
<1> QED
  BY <1>5, <1>6 DEF d

\* One iteration.  It takes a candidate out of the list, or failing runs out of
\* the failures.
LEMMA TakeOutInv ==
  ASSUME Inv, pc = "view",
         NEW taken \in RunSuites, NEW losers \in SUBSET candidates, NEW rest \in SUBSET losers,
         Exact => taken.failures.bits \subseteq Failing \ Credited,
         \/ rest # candidates
         \/ candidates # {} /\ allFailures.bits \cap taken.failures.bits # {},
         TakeOut(taken, losers, rest),
         UNCHANGED <<command, loaded, complete, succ>>, foci' \subseteq Preds
  PROVE  Inv'
<1> DEFINE W == taken.failures.bits
           left == Dilute(allFailures, taken.failures)
           bound == Cardinality(Preds) + Cardinality(Failing)
<1> USE DEF Inv, TypeInv
<1>1. /\ TypeOK /\ ViewInv /\ W \in SUBSET Failing /\ candidates \subseteq Preds
      /\ iteration \in Nat
  BY DEF TypeOK, RunSuites, RunSets
<1>2. /\ allFailures \in RunSets(Failing) /\ allFailures.count \in Nat
      /\ bound \in Nat /\ Cardinality(candidates) \in Nat
  BY <1>1, FailuresTyped
<1>3. Credited \subseteq Failing /\ \A p \in Preds : Uncredited(p) \in SUBSET Failing
  BY <1>1, PredsTyped DEF Credited, Uncredited
<1>4. iteration' = iteration + 1 /\ Credit(W)
  BY DEF TakeOut
<1>5. /\ credits' \in [Failing -> 0 .. MaxCredits] /\ Credited' = Credited \cup W /\ CreditedOnce'
  BY <1>1, <1>4, CreditEffect
<1>6. \A p \in Preds : Uncredited(p)' = Uncredited(p) \ W
  BY <1>5 DEF Uncredited
<1>7. /\ left \in RunSets(Failing) /\ left.count \in Nat /\ left.count <= allFailures.count
      /\ Exact => Counted(left) /\ left.bits = Failing \ Credited'
      /\ ~Exact => left.bits = Failing
      /\ left.count <= Cardinality(Failing \ Credited')
  <2>1. /\ left \in RunSets(Failing) /\ left.count <= allFailures.count
        /\ Exact => Counted(left)
    BY <1>2, DiluteTypes, RankingAssumption
  <2>2. Failing \ Credited' = (Failing \ Credited) \ W
    BY <1>5
  <2>3. /\ Exact => left.bits = (Failing \ Credited) \ W
        /\ ~Exact => left.bits = allFailures.bits
        /\ left.count \in Nat /\ left.count <= Cardinality((Failing \ Credited) \ W)
    BY <1>1, <1>2, FailuresLeft DEF ViewInv
  <2> HIDE DEF left
  <2> QED
    BY <1>1, <2>1, <2>2, <2>3 DEF ViewInv
<1> HIDE DEF left, bound
<1>8. Exact' = Exact /\ Program' = Program
  BY DEF Exact, Program
<1>9. iteration + 1 <= bound
  <2>1. candidates # {}
    OBVIOUS
  <2>2. Cardinality(candidates) > 0
    BY <1>1, <2>1, RankingAssumption, FS_Subset, CardinalityPositive
  <2> QED
    BY <1>1, <1>2, <2>2 DEF ViewInv, bound
<1>10. IterationsBounded'
  BY <1>4, <1>9 DEF IterationsBounded, bound
<1>11. CASE left.count <= 0
  <2>1. /\ pc' = "zoom" /\ allFailures' = RunSet(Failing) /\ scored' = {}
        /\ UNCHANGED <<preds, candidates>>
    BY <1>7, <1>11 DEF TakeOut, LeaveView, left
  <2>2. RunSet(Failing) \in RunSets(Failing) /\ Counted(RunSet(Failing))
    BY RunSetTypes, RankingAssumption
  <2>3. TypeOK'
    BY <1>1, <1>4, <1>5, <2>1, <2>2 DEF TypeOK
  <2>4. TypeInv'
    BY <1>8, <2>1, <2>2, <2>3 DEF Counted
  <2>5. RecallDefined'
    BY <2>1 DEF RecallDefined
  <2> QED
    BY <1>5, <1>10, <2>1, <2>4, <2>5
<1>12. CASE left.count > 0
  <2> DEFINE diluted == [q \in Preds |-> IF q \in losers THEN DilutePredicate(preds[q], taken)
                                                         ELSE preds[q]]
  <2>1. /\ pc' = pc /\ allFailures' = left /\ preds' = diluted
        /\ Rescore(diluted, left, rest)
    BY <1>7, <1>12 DEF TakeOut, left
  <2>2. ASSUME NEW q \in Preds
        PROVE  /\ diluted[q] \in PredTypes
               /\ Exact => CountedPred(diluted[q])
    BY <1>1, DilutePredicateTypes, PredsTyped
  <2>3. ASSUME NEW q \in losers
        PROVE  /\ diluted[q].tru.failures.bits = IF Exact THEN Uncredited(q) \ W
                                                          ELSE loaded[q].tru.failures.bits
               /\ diluted[q].tru.failures.count <= Cardinality(Uncredited(q) \ W)
    <3>1. /\ q \in Preds /\ q \in candidates /\ preds[q] \in PredTypes
          /\ preds[q].tru.failures \in RunSets(Failing) /\ preds[q].tru \in RunSuites
      BY <1>1, PredsTyped DEF PredTypes
    <3>2. diluted[q].tru.failures = Dilute(preds[q].tru.failures, taken.failures)
      <4>1. diluted[q].tru = DiluteSuite(preds[q].tru, taken)
        BY <3>1, DilutePredicateTypes
      <4>2. DiluteSuite(preds[q].tru, taken).failures
              = Dilute(preds[q].tru.failures, taken.failures)
        BY <3>1, DiluteSuiteTypes DEF CountedPred
      <4> QED
        BY <4>1, <4>2
    <3>3. /\ preds[q].tru.failures.count <= Cardinality(Uncredited(q))
          /\ Exact => Counted(preds[q].tru.failures) /\ preds[q].tru.failures.bits = Uncredited(q)
          /\ ~Exact => preds[q].tru.failures.bits = loaded[q].tru.failures.bits
      BY <1>1, <3>1 DEF ViewInv, CountedPred, CountedSuite
    <3>4. Uncredited(q) \subseteq loaded[q].tru.failures.bits
      BY DEF Uncredited
    <3>5. Uncredited(q) \in SUBSET Failing
      BY <1>3, <3>1
    <3> HIDE DEF diluted
    <3> DEFINE set == preds[q].tru.failures
    <3>6. /\ set \in RunSets(Failing) /\ set.count <= Cardinality(Uncredited(q))
          /\ Exact => Counted(set) /\ set.bits = Uncredited(q)
          /\ ~Exact => Uncredited(q) \subseteq set.bits
      BY <3>1, <3>3, <3>4
    <3> HIDE DEF set
    <3>7. /\ Exact => Dilute(set, taken.failures).bits = Uncredited(q) \ W
          /\ ~Exact => Dilute(set, taken.failures).bits = set.bits
          /\ Dilute(set, taken.failures).count <= Cardinality(Uncredited(q) \ W)
      BY <3>5, <3>6, FailuresLeft
    <3> QED
      BY <3>2, <3>3, <3>7 DEF set
  <2>4. diluted \in [Preds -> PredTypes]
    BY <2>2
  <2> HIDE DEF diluted
  <2>5. /\ candidates' \in SUBSET {q \in rest : Increases(diluted[q])}
        /\ scored' = {Counts(diluted[q], left) : q \in candidates'}
    BY <2>1 DEF Rescore
  <2>6. TypeOK'
    BY <1>1, <1>4, <1>5, <1>7, <2>1, <2>4, <2>5 DEF TypeOK, PredTypes
  <2>7. TypeInv'
    BY <1>7, <1>8, <2>1, <2>2, <2>6
  <2>8. RecallDefined'
    <3>1. \A q \in candidates' : diluted[q].tru.failures.count > 0
      BY <2>5 DEF Increases
    <3> QED
      BY <1>12, <2>5, <3>1 DEF RecallDefined, Counts
  <2>9. iteration' + Cardinality(candidates') + left.count <= bound
    <3>1. /\ candidates' \subseteq candidates /\ IsFiniteSet(candidates)
          /\ Cardinality(candidates') \in Nat /\ Cardinality(candidates') <= Cardinality(candidates)
      <4>1. IsFiniteSet(candidates)
        BY <1>1, RankingAssumption, FS_Subset
      <4> QED
        BY <2>5, <4>1, CardinalityMonotone
    <3>2. CASE rest # candidates
      <4>1. candidates' # candidates
        BY <2>5, <3>2
      <4>2. Cardinality(candidates') # Cardinality(candidates)
        BY <3>1, <4>1, FS_Subset
      <4> QED
        BY <1>1, <1>2, <1>4, <1>7, <3>1, <4>2 DEF ViewInv, bound
    <3>3. CASE allFailures.bits \cap taken.failures.bits # {}
      <4>1. left.count < allFailures.count
        BY <1>2, <1>12, <3>3, CountDrops DEF left
      <4> QED
        BY <1>1, <1>2, <1>4, <1>7, <3>1, <4>1 DEF ViewInv, bound
    <3> QED
      BY <3>2, <3>3
  <2>10. ViewInv'
    <3>1. \A q \in candidates' :
            /\ preds'[q].tru.failures.bits = IF Exact' THEN Uncredited(q)'
                                                       ELSE loaded'[q].tru.failures.bits
            /\ preds'[q].tru.failures.count <= Cardinality(Uncredited(q)')
      BY <1>1, <1>6, <1>8, <2>1, <2>3, <2>5
    <3>2. allFailures'.bits = (IF Exact' THEN Failing \ Credited' ELSE Failing)
          /\ allFailures'.count <= Cardinality(Failing \ Credited')
      BY <1>7, <1>8, <2>1
    <3> QED
      BY <2>1, <2>9, <3>1, <3>2 DEF ViewInv, bound
  <2> QED
    BY <1>5, <1>10, <2>1, <2>7, <2>8, <2>10
<1> QED
  BY <1>7, <1>11, <1>12

LEMMA UncreditedCandidates ==
  ASSUME Inv, pc = "view", NEW p \in candidates
  PROVE  /\ p \in Preds /\ preds[p] \in PredTypes /\ preds[p].tru \in RunSuites
         /\ complete[p] \in RunSuites
         /\ Exact => preds[p].tru.failures.bits \subseteq Failing \ Credited
<1> USE DEF Inv, TypeInv
<1>1. p \in Preds
  BY DEF TypeOK
<1>2. preds[p] \in PredTypes /\ complete[p] \in RunSuites
      /\ loaded[p].tru.failures.bits \subseteq Failing
  BY <1>1, PredsTyped
<1> QED
  BY <1>1, <1>2 DEF ViewInv, Uncredited, PredTypes

LEMMA PickInv ==
  ASSUME Inv, NEW p \in Preds, Pick(p)
  PROVE  Inv'
<1> DEFINE taken == IF Program = "adaptive" THEN complete[p] ELSE preds[p].tru
<1>1. /\ pc = "view" /\ p \in candidates
      /\ TakeOut(taken, candidates \ {p}, candidates \ {p})
      /\ UNCHANGED <<command, loaded, complete, succ>>
  BY DEF Pick
<1>2. taken \in RunSuites /\ Exact => taken.failures.bits \subseteq Failing \ Credited
  BY <1>1, UncreditedCandidates DEF Exact
<1>3. foci' \subseteq Preds
  BY DEF Pick, Inv, TypeInv, TypeOK
<1>4. candidates \ {p} # candidates
  BY <1>1
<1>5. taken \in RunSuites
  BY <1>1, UncreditedCandidates
<1> HIDE DEF taken
<1> QED
  BY <1>1, <1>2, <1>3, <1>4, <1>5, TakeOutInv

LEMMA PickComplexInv ==
  ASSUME Inv, NEW p \in Preds, NEW q \in Preds, PickComplex(p, q)
  PROVE  Inv'
<1>1. /\ pc = "view" /\ p \in candidates /\ q \in candidates
      /\ UNCHANGED <<command, loaded, complete, foci, succ>>
  BY DEF PickComplex
<1>2. PICK k \in Kinds : /\ Increases(Complex(k, preds[p], preds[q]))
                         /\ TakeOut(Complex(k, preds[p], preds[q]).tru, candidates, candidates)
  BY DEF PickComplex
<1> DEFINE c == Complex(k, preds[p], preds[q])
<1>3. /\ preds[p] \in PredTypes /\ preds[q] \in PredTypes
      /\ Exact => /\ preds[p].tru.failures.bits \subseteq Failing \ Credited
                  /\ preds[q].tru.failures.bits \subseteq Failing \ Credited
  BY <1>1, UncreditedCandidates
<1>4. /\ c.tru \in RunSuites /\ CountedPred(c)
      /\ c.tru.failures.bits \subseteq preds[p].tru.failures.bits \cup preds[q].tru.failures.bits
  BY <1>3, ComplexTypes
<1> HIDE DEF c
<1>5. c.tru.failures.count > 0 /\ TakeOut(c.tru, candidates, candidates)
  BY <1>2 DEF Increases, c
<1>6. c.tru.failures.bits # {} /\ c.tru.failures.bits \subseteq Failing
  BY <1>4, <1>5, FS_EmptySet DEF CountedPred, CountedSuite, Counted, RunSuites, RunSets
<1>7. Exact => c.tru.failures.bits \subseteq Failing \ Credited
  BY <1>3, <1>4
<1>8. allFailures.bits \cap c.tru.failures.bits # {}
  BY <1>1, <1>6, <1>7 DEF Inv, ViewInv
<1>9. foci' \subseteq Preds
  BY <1>1 DEF Inv, TypeInv, TypeOK
<1> QED
  BY <1>1, <1>4, <1>5, <1>7, <1>8, <1>9, TakeOutInv

\* A zoom scores copies that are still true in a failing run which its focus
\* predicate has not taken.
LEMMA ZoomRecall ==
  ASSUME Inv, NEW p \in Preds, Zoom(p)
  PROVE  RecallDefined'
<1> DEFINE taken == IF Program = "adaptive" THEN complete[p] ELSE loaded[p].tru
           left == Dilute(allFailures, taken.failures)
           copies == {DilutePredicate(loaded[q], taken) : q \in Preds}
<1> USE DEF Inv, TypeInv
<1>1. /\ scored' = {Counts(copy, left) : copy \in {c \in copies : Increases(c)}}
      /\ allFailures = RunSet(Failing)
  BY DEF Zoom
<1>2. /\ allFailures \in RunSets(Failing) /\ Counted(allFailures) /\ allFailures.bits = Failing
  BY <1>1, RunSetTypes, RankingAssumption
<1>3. ASSUME NEW q \in Preds, DilutePredicate(loaded[q], taken).tru.failures.count > 0
      PROVE  left.count > 0
  <2> DEFINE set == loaded[q].tru.failures
             d == Dilute(set, taken.failures)
  <2>1. /\ loaded[q] \in PredTypes /\ CountedPred(loaded[q])
        /\ loaded[q].tru \in RunSuites /\ CountedSuite(loaded[q].tru)
    BY PredsTyped DEF PredTypes, CountedPred
  <2>2. set \in RunSets(Failing) /\ Counted(set) /\ set.bits \in SUBSET Failing
    BY <2>1 DEF RunSuites, RunSets, CountedSuite
  <2>3. DilutePredicate(loaded[q], taken).tru.failures = d
    <3>1. DilutePredicate(loaded[q], taken).tru = DiluteSuite(loaded[q].tru, taken)
      BY <2>1, DilutePredicateTypes
    <3>2. DiluteSuite(loaded[q].tru, taken).failures = d
      BY <2>1, DiluteSuiteTypes
    <3> QED
      BY <3>1, <3>2
  <2> HIDE DEF taken, set
  <2>4. d.count = Cardinality(set.bits \ taken.failures.bits)
    BY <2>2, FirstDilution, RankingAssumption
  <2>5. left.count = Cardinality(Failing \ taken.failures.bits)
    BY <1>2, FirstDilution, RankingAssumption
  <2>6. IsFiniteSet(Failing \ taken.failures.bits)
    BY RankingAssumption, FS_Subset
  <2>7. set.bits \ taken.failures.bits # {}
    BY <1>3, <2>3, <2>4, FS_EmptySet
  <2>8. Failing \ taken.failures.bits # {}
    BY <2>2, <2>7
  <2> QED
    BY <2>5, <2>6, <2>8, CardinalityPositive
<1> HIDE DEF taken, left
<1> QED
  BY <1>1, <1>3 DEF RecallDefined, Counts, Increases

LEMMA OtherInv ==
  ASSUME Inv, \/ NoCandidate \/ Done \/ UNCHANGED vars
              \/ \E k \in Kinds : FirstEstimate(k)
              \/ \E p \in Preds : Zoom(p)
  PROVE  Inv'
<1> USE DEF Inv, TypeInv
<1>1. RunSet(Failing) \in RunSets(Failing) /\ Counted(RunSet(Failing))
  BY RunSetTypes, RankingAssumption
<1> HIDE DEF RunSet
<1>2. CASE NoCandidate
  <2>1. /\ pc' = "zoom" /\ allFailures' = RunSet(Failing) /\ scored' = {}
        /\ UNCHANGED <<preds, candidates, command, loaded, complete, iteration, foci, succ, credits>>
    BY <1>2 DEF NoCandidate, LeaveView
  <2>2. TypeOK'
    BY <1>1, <2>1 DEF TypeOK
  <2> QED
    BY <1>1, <2>1, <2>2 DEF Counted, Exact, Program, IterationsBounded, CreditedOnce, RecallDefined
<1>3. CASE Done \/ UNCHANGED vars \/ \E p \in Preds : Zoom(p)
  <2>1. UNCHANGED <<command, loaded, complete, preds, candidates, allFailures, iteration,
                    succ, credits>>
    BY <1>3 DEF Done, vars, Zoom
  <2>2. TypeOK'
    BY <1>3, <2>1 DEF TypeOK, Done, vars, Zoom
  <2>3. pc' = "view" <=> pc = "view"
    BY <1>3 DEF Done, vars, Zoom
  <2>4. RecallDefined'
    <3>1. CASE Done \/ UNCHANGED vars
      BY <3>1 DEF Done, vars, RecallDefined
    <3>2. CASE \E p \in Preds : Zoom(p)
      BY <3>2, ZoomRecall
    <3> QED
      BY <1>3, <3>1, <3>2
  <2> QED
    BY <2>1, <2>2, <2>3, <2>4 DEF Exact, Program, IterationsBounded, CreditedOnce,
         ViewInv, Uncredited, Credited, RunSet
<1>4. CASE \E k \in Kinds : FirstEstimate(k)
  <2>1. PICK k \in Kinds : FirstEstimate(k)
    BY <1>4
  <2>2. UNCHANGED <<command, pc, loaded, complete, preds, candidates, allFailures,
                    iteration, foci, credits, scored>>
    BY <2>1 DEF FirstEstimate
  <2>3. Cardinality(Failing \cup Succeeding) - allFailures.count \in Nat
    <3>1. IsFiniteSet(Failing \cup Succeeding) /\ Failing \in SUBSET (Failing \cup Succeeding)
      BY RankingAssumption, FS_Union
    <3>2. /\ Cardinality(Failing \cup Succeeding) \in Nat /\ Cardinality(Failing) \in Nat
          /\ Cardinality(Failing) <= Cardinality(Failing \cup Succeeding)
      BY <3>1, CardinalityMonotone
    <3>3. allFailures.count \in 0 .. Cardinality(Failing)
      BY DEF TypeOK, RunSets
    <3> QED
      BY <3>2, <3>3
  <2>4. succ' \in [Kinds -> {Unset} \cup Nat]
    BY <2>1, <2>3 DEF FirstEstimate, TypeOK
  <2>5. TypeOK'
    BY <2>2, <2>4 DEF TypeOK
  <2> QED
    BY <2>2, <2>5 DEF Exact, Program, IterationsBounded, CreditedOnce,
         RecallDefined, ViewInv, Uncredited, Credited, RunSet, Counted, CountedPred, CountedSuite
<1> QED
  BY <1>2, <1>3, <1>4

LEMMA NextInv == Inv /\ [Next]_vars => Inv'
  BY PickInv, PickComplexInv, OtherInv DEF Next, Terminating

-----------------------------------------------------------------------------
(* The theorems.                                                           *)

\* Theorem: the type invariant; in particular no dilution of any of the three
\* programs makes a count negative, or larger than its set of runs may be.
THEOREM RankingTypes == Spec => []TypeOK
<1>1. Inv => TypeOK
  BY DEF Inv, TypeInv
<1> QED
  BY InitInv, NextInv, <1>1, PTL DEF Spec

\* Theorem: the assertions of Predicate::recall never fail.
THEOREM RecallIsDefined == Spec => []RecallDefined
<1>1. Inv => RecallDefined
  BY DEF Inv
<1> QED
  BY InitInv, NextInv, <1>1, PTL DEF Spec

\* Theorem: no count is more than what is left to explain, and those of
\* corrected-exact-complete are exactly that.
THEOREM NothingIsOvercounted == Spec => []NothingOvercounted
<1>1. Inv => NothingOvercounted
  <2>1. ASSUME Inv, pc = "view", Exact
        PROVE  /\ allFailures.count = Cardinality(Failing \ Credited)
               /\ \A p \in candidates :
                    preds[p].tru.failures.count = Cardinality(Uncredited(p))
    BY ZenonT(30), <2>1 DEF Inv, TypeInv, TypeOK, ViewInv, Counted, CountedPred, CountedSuite
  <2> QED
    BY <2>1 DEF Inv, ViewInv, NothingOvercounted, Exact
<1> QED
  BY InitInv, NextInv, <1>1, PTL DEF Spec

\* Theorem: corrected-exact-complete credits no failing run twice.
THEOREM CreditedAtMostOnce == Spec => []CreditedOnce
<1>1. Inv => CreditedOnce
  BY DEF Inv
<1> QED
  BY InitInv, NextInv, <1>1, PTL DEF Spec

\* Theorem: the loop of buildView ends: there are never more iterations than
\* predicates and failing runs.
THEOREM IterationsAreBounded == Spec => []IterationsBounded
<1>1. Inv => IterationsBounded
  BY DEF Inv
<1> QED
  BY InitInv, NextInv, <1>1, PTL DEF Spec

-----------------------------------------------------------------------------
(* The estimates of corrected-exact-complete.                              *)

\* A part P of what was observed of one predicate and Q of another, where Pbar
\* and Qbar are what was observed of them otherwise, all in U: the bounds for
\* the runs in P and Q, in P or Q, and in those where either is decided.
LEMMA CombinedCounts ==
  ASSUME NEW U, IsFiniteSet(U),
         NEW P \in SUBSET U, NEW Q \in SUBSET U, NEW Pbar \in SUBSET U, NEW Qbar \in SUBSET U,
         P \cap Pbar = {}, Q \cap Qbar = {}
  PROVE  LET p == Cardinality(P)        q == Cardinality(Q)
             pbar == Cardinality(Pbar)  qbar == Cardinality(Qbar)
             u == Cardinality(U)
             both == Cardinality(P \cap Q)
             some == Cardinality(P \cup Q)
             decided == Cardinality((P \cap Q) \cup (Pbar \cup Qbar)) IN
         /\ {p, q, pbar, qbar, u, both, some, decided} \subseteq Nat
         /\ both <= p /\ both <= q /\ both >= p + q - u
         /\ some <= u /\ some <= p + q /\ some >= p /\ some >= q
         /\ decided <= u
         /\ decided >= Most(pbar, qbar) + Most(0, p + q + Least(pbar, qbar) - u)
<1> DEFINE p == Cardinality(P)        q == Cardinality(Q)
           pbar == Cardinality(Pbar)  qbar == Cardinality(Qbar)
           u == Cardinality(U)
           both == Cardinality(P \cap Q)
           some == Cardinality(P \cup Q)
           decided == Cardinality((P \cap Q) \cup (Pbar \cup Qbar))
           neither == Cardinality(Pbar \cap Qbar)
           other == Cardinality(Pbar \cup Qbar)
           whole == Cardinality((P \cup Q) \cup (Pbar \cap Qbar))
<1>1. \A S \in SUBSET U : IsFiniteSet(S) /\ Cardinality(S) \in Nat /\ Cardinality(S) <= u
  BY CardinalityMonotone
<1>2. /\ IsFiniteSet(P) /\ IsFiniteSet(Q) /\ IsFiniteSet(Pbar) /\ IsFiniteSet(Qbar)
      /\ p \in Nat /\ q \in Nat /\ pbar \in Nat /\ qbar \in Nat
  BY <1>1
<1>3. /\ P \cap Q \in SUBSET U /\ P \cup Q \in SUBSET U
      /\ Pbar \cap Qbar \in SUBSET U /\ Pbar \cup Qbar \in SUBSET U
      /\ (P \cap Q) \cup (Pbar \cup Qbar) \in SUBSET U
      /\ (P \cup Q) \cup (Pbar \cap Qbar) \in SUBSET U
  OBVIOUS
<1>4. /\ both \in Nat /\ some \in Nat /\ neither \in Nat /\ other \in Nat /\ decided \in Nat
      /\ whole \in Nat /\ u \in Nat
      /\ some <= u /\ decided <= u /\ whole <= u
  BY <1>1, <1>3
<1>5. some = p + q - both /\ other = pbar + qbar - neither
  BY <1>2, FS_Union
<1>6. both <= p /\ both <= q /\ neither <= pbar /\ neither <= qbar
  BY <1>2, FS_Intersection
<1>7. decided = both + other
  <2>1. (P \cap Q) \cap (Pbar \cup Qbar) = {}
    OBVIOUS
  <2>2. decided = both + other - Cardinality((P \cap Q) \cap (Pbar \cup Qbar))
    BY <1>1, <1>3, FS_Union
  <2>3. Cardinality((P \cap Q) \cap (Pbar \cup Qbar)) = 0
    BY <2>1, FS_EmptySet
  <2> QED
    BY <1>4, <2>2, <2>3
<1>8. whole = some + neither
  <2>1. (P \cup Q) \cap (Pbar \cap Qbar) = {}
    OBVIOUS
  <2>2. whole = some + neither - Cardinality((P \cup Q) \cap (Pbar \cap Qbar))
    BY <1>1, <1>3, FS_Union
  <2>3. Cardinality((P \cup Q) \cap (Pbar \cap Qbar)) = 0
    BY <2>1, FS_EmptySet
  <2> QED
    BY <1>4, <2>2, <2>3
<1> HIDE DEF p, q, pbar, qbar, u, both, some, decided, neither, other, whole
<1>9. /\ both >= p + q - u
      /\ some <= p + q /\ some >= p /\ some >= q
  BY <1>2, <1>4, <1>5, <1>6
<1>10. decided >= Most(pbar, qbar) + Most(0, p + q + Least(pbar, qbar) - u)
  BY <1>2, <1>4, <1>5, <1>6, <1>7, <1>8 DEF Most, Least
<1> QED
  BY <1>2, <1>4, <1>6, <1>9, <1>10 DEF p, q, pbar, qbar, u, both, some, decided

\* Counts of the exact program say what the observations of a candidate are,
\* which lie within the failures that are left.
Within(pred) ==
  /\ pred.tru.failures.bits \subseteq pred.obs.failures.bits
  /\ pred.tru.successes.bits \subseteq pred.obs.successes.bits
  /\ pred.obs.failures.bits \subseteq allFailures.bits

EstimateInv ==
  /\ Exact /\ pc = "view" => \A p \in candidates : Within(preds[p])
  /\ \A k \in Kinds : succ[k] # Unset => succ[k] >= Cardinality(Succeeding)

LEMMA InitEstimate == Init => EstimateInv
<1> SUFFICES ASSUME Init PROVE EstimateInv
  OBVIOUS
<1>1. ASSUME NEW p \in Preds PROVE Within(preds[p])
  <2>1. PICK o \in Observations : preds[p] = Observed(o)
    BY DEF Init, Retained
  <2>2. allFailures.bits = Failing
    BY DEF Init, RunSet
  <2>3. \A S : /\ RunSuite(S).failures.bits = S \cap Failing
               /\ RunSuite(S).successes.bits = S \cap Succeeding
    BY RunSuiteTypes
  <2> HIDE DEF RunSuite
  <2> QED
    BY <2>1, <2>2, <2>3 DEF Within, Observed
<1> QED
  BY <1>1 DEF Init, EstimateInv, Unset

LEMMA TakeOutEstimate ==
  ASSUME Inv, EstimateInv, pc = "view",
         NEW taken \in RunSuites, NEW losers \in SUBSET candidates, NEW rest \in SUBSET losers,
         TakeOut(taken, losers, rest), UNCHANGED <<command, succ>>
  PROVE  EstimateInv'
<1> DEFINE left == Dilute(allFailures, taken.failures)
           diluted == [q \in Preds |-> IF q \in losers THEN DilutePredicate(preds[q], taken)
                                                       ELSE preds[q]]
<1> SUFFICES ASSUME Exact, pc' = "view" PROVE \A q \in candidates' : Within(preds[q])'
  BY DEF EstimateInv, Exact, Program
<1>1. /\ allFailures' = left /\ preds' = diluted /\ candidates' \subseteq losers
      /\ losers \subseteq Preds /\ losers \subseteq candidates
  BY DEF TakeOut, LeaveView, Rescore, Inv, TypeInv, TypeOK
<1>2. left.bits = allFailures.bits \ taken.failures.bits
  BY DEF Dilute, DiluteExactly, Exact
<1>3. ASSUME NEW q \in losers
      PROVE  /\ diluted[q].tru.failures.bits = preds[q].tru.failures.bits \ taken.failures.bits
             /\ diluted[q].obs.failures.bits = preds[q].obs.failures.bits \ taken.failures.bits
             /\ diluted[q].tru.successes.bits = preds[q].tru.successes.bits \ taken.successes.bits
             /\ diluted[q].obs.successes.bits = preds[q].obs.successes.bits \ taken.successes.bits
  BY <1>1 DEF DilutePredicate, DiluteSuite, Dilute, DiluteExactly, Exact
<1>4. \A q \in losers : Within(preds[q])
  BY <1>1 DEF EstimateInv
<1> HIDE DEF left, diluted
<1> QED
  BY <1>1, <1>2, <1>3, <1>4 DEF Within

LEMMA NextEstimate == Inv /\ EstimateInv /\ [Next]_vars => EstimateInv'
<1> SUFFICES ASSUME Inv, EstimateInv, [Next]_vars PROVE EstimateInv'
  OBVIOUS
<1>1. ASSUME NEW p \in Preds, Pick(p) PROVE EstimateInv'
  <2> DEFINE taken == IF Program = "adaptive" THEN complete[p] ELSE preds[p].tru
  <2>1. /\ pc = "view" /\ p \in candidates
        /\ TakeOut(taken, candidates \ {p}, candidates \ {p})
        /\ UNCHANGED <<command, succ>>
    BY <1>1 DEF Pick
  <2>2. taken \in RunSuites
    BY <2>1, UncreditedCandidates
  <2> HIDE DEF taken
  <2> QED
    BY <2>1, <2>2, TakeOutEstimate
<1>2. ASSUME NEW p \in Preds, NEW q \in Preds, PickComplex(p, q) PROVE EstimateInv'
  <2>1. /\ pc = "view" /\ p \in candidates /\ q \in candidates /\ UNCHANGED <<command, succ>>
    BY <1>2 DEF PickComplex
  <2>2. PICK k \in Kinds : TakeOut(Complex(k, preds[p], preds[q]).tru, candidates, candidates)
    BY <1>2 DEF PickComplex
  <2>3. Complex(k, preds[p], preds[q]).tru \in RunSuites
    BY <2>1, UncreditedCandidates, ComplexTypes
  <2> QED
    BY <2>1, <2>2, <2>3, TakeOutEstimate
<1>3. CASE NoCandidate \/ Done \/ \E p \in Preds : Zoom(p)
  BY <1>3 DEF NoCandidate, LeaveView, Done, Zoom, EstimateInv
<1>4. CASE UNCHANGED vars
  BY <1>4 DEF vars, EstimateInv, Within, Exact, Program
<1>5. ASSUME NEW k \in Kinds, FirstEstimate(k) PROVE EstimateInv'
  <2>1. /\ UNCHANGED <<command, pc, preds, candidates, allFailures>>
        /\ succ' = [succ EXCEPT ![k] = Cardinality(Failing \cup Succeeding) - allFailures.count]
    BY <1>5 DEF FirstEstimate
  <2>2. Cardinality(Failing \cup Succeeding) - allFailures.count >= Cardinality(Succeeding)
    <3>1. /\ Cardinality(Failing) \in Nat /\ Cardinality(Succeeding) \in Nat
          /\ Cardinality(Failing \cap Succeeding) = 0
      BY RankingAssumption, FS_CardinalityType, FS_EmptySet
    <3>2. Cardinality(Failing \cup Succeeding) = Cardinality(Failing) + Cardinality(Succeeding)
            - Cardinality(Failing \cap Succeeding)
      BY RankingAssumption, FS_Union
    <3>3. allFailures.count \in 0 .. Cardinality(Failing)
      BY DEF Inv, TypeInv, TypeOK, RunSets
    <3> QED
      BY <3>1, <3>2, <3>3
  <2>3. \A j \in Kinds : succ'[j] # Unset => succ'[j] >= Cardinality(Succeeding)
    BY <2>1, <2>2 DEF EstimateInv, Inv, TypeInv, TypeOK
  <2> QED
    BY <2>1, <2>3 DEF EstimateInv, Within, Exact, Program
<1> QED
  BY <1>1, <1>2, <1>3, <1>4, <1>5 DEF Next, Terminating

\* The runs of an outcome in which a candidate was observed false.
False(pred, outcome) == pred.obs[outcome].bits \ pred.tru[outcome].bits

LEMMA CandidateCounts ==
  ASSUME Inv, EstimateInv, Exact, pc = "view", NEW p \in candidates,
         NEW outcome \in {"failures", "successes"}
  PROVE  LET U == IF outcome = "failures" THEN allFailures.bits ELSE Succeeding IN
         /\ preds[p] \in PredTypes /\ IsFiniteSet(U)
         /\ preds[p].tru[outcome].bits \in SUBSET U
         /\ False(preds[p], outcome) \in SUBSET U
         /\ preds[p].tru[outcome].bits \subseteq preds[p].obs[outcome].bits
         /\ Trues(preds[p], outcome) = Cardinality(preds[p].tru[outcome].bits)
         /\ Falses(preds[p], outcome) = Cardinality(False(preds[p], outcome))
<1> DEFINE U == IF outcome = "failures" THEN allFailures.bits ELSE Succeeding
           true == preds[p].tru[outcome]
           seen == preds[p].obs[outcome]
<1>1. p \in Preds /\ preds[p] \in PredTypes /\ CountedPred(preds[p]) /\ Within(preds[p])
  BY UncreditedCandidates DEF EstimateInv, Inv, TypeInv
<1>2. /\ Counted(true) /\ Counted(seen)
      /\ true.bits \subseteq seen.bits /\ seen.bits \in SUBSET U
  BY <1>1 DEF CountedPred, CountedSuite, Within, PredTypes, RunSuites, RunSets
<1>3. IsFiniteSet(U)
  <2>1. allFailures.bits \in SUBSET Failing
    BY DEF Inv, TypeInv, TypeOK, RunSets
  <2> QED
    BY <2>1, RankingAssumption, FS_Subset
<1> HIDE DEF true, seen, U
<1>4. IsFiniteSet(seen.bits)
  BY <1>2, <1>3, FS_Subset
<1>5. /\ Cardinality(seen.bits) \in Nat /\ Cardinality(seen.bits \cap true.bits) \in Nat
      /\ Cardinality(seen.bits \ true.bits) \in Nat
      /\ Cardinality(seen.bits \ true.bits) + Cardinality(seen.bits \cap true.bits)
           = Cardinality(seen.bits)
  BY <1>4, CardinalitySplit
<1>6. seen.bits \cap true.bits = true.bits
  BY <1>2
<1>7. Cardinality(seen.bits \ true.bits) = seen.count - true.count
  <2>1. Cardinality(seen.bits \cap true.bits) = Cardinality(true.bits)
    BY <1>6
  <2>2. seen.count = Cardinality(seen.bits) /\ true.count = Cardinality(true.bits)
    BY <1>2 DEF Counted
  <2> QED
    BY <1>5, <2>1, <2>2
<1>8. true.bits \in SUBSET U /\ seen.bits \ true.bits \in SUBSET U
  BY <1>2
<1> QED
  BY <1>1, <1>2, <1>3, <1>7, <1>8 DEF true, seen, U, False, Trues, Falses, Counted

LEMMA ComplexBits ==
  ASSUME Inv, EstimateInv, Exact, pc = "view", NEW p \in candidates, NEW q \in candidates,
         NEW outcome \in {"failures", "successes"}
  PROVE  LET P == preds[p].tru[outcome].bits    Q == preds[q].tru[outcome].bits
             Pbar == False(preds[p], outcome)   Qbar == False(preds[q], outcome)
             c == Conjunction(preds[p], preds[q])
             d == Disjunction(preds[p], preds[q]) IN
         /\ c.tru[outcome].count = Cardinality(P \cap Q)
         /\ c.obs[outcome].count = Cardinality((P \cap Q) \cup (Pbar \cup Qbar))
         /\ d.tru[outcome].count = Cardinality(P \cup Q)
         /\ d.obs[outcome].count = Cardinality((Pbar \cap Qbar) \cup (P \cup Q))
<1>1. ASSUME NEW S PROVE /\ RunSuite(S).failures.count = Cardinality(S \cap Failing)
                         /\ RunSuite(S).successes.count = Cardinality(S \cap Succeeding)
  BY DEF RunSuite, RunSet
<1> DEFINE pt == Runs(preds[p].tru)  po == Runs(preds[p].obs)
           qt == Runs(preds[q].tru)  qo == Runs(preds[q].obs)
           Side == IF outcome = "failures" THEN Failing ELSE Succeeding
           P == preds[p].tru[outcome].bits    Q == preds[q].tru[outcome].bits
           O == preds[p].obs[outcome].bits    N == preds[q].obs[outcome].bits
<1>2. /\ pt \cap Side = P /\ po \cap Side = O /\ qt \cap Side = Q /\ qo \cap Side = N
  <2>1. ASSUME NEW r \in candidates
        PROVE  /\ Runs(preds[r].tru) \cap Side = preds[r].tru[outcome].bits
               /\ Runs(preds[r].obs) \cap Side = preds[r].obs[outcome].bits
    <3>1. preds[r] \in PredTypes
      BY CandidateCounts
    <3>2. /\ preds[r].tru.failures.bits \subseteq Failing
          /\ preds[r].obs.failures.bits \subseteq Failing
          /\ preds[r].tru.successes.bits \subseteq Succeeding
          /\ preds[r].obs.successes.bits \subseteq Succeeding
      BY <3>1 DEF PredTypes, RunSuites, RunSets
    <3> QED
      BY <3>2, RankingAssumption DEF Runs
  <2> QED
    BY <2>1
<1>3. P \subseteq O /\ Q \subseteq N
  BY CandidateCounts
<1> HIDE DEF pt, po, qt, qo
<1>4. /\ (pt \cap qt) \cap Side = P \cap Q
      /\ ((po \ pt) \cup (qo \ qt) \cup (po \cap qo)) \cap Side
           = (P \cap Q) \cup ((O \ P) \cup (N \ Q))
      /\ ((po \cap pt) \cup (qo \cap qt)) \cap Side = P \cup Q
      /\ (((po \cap pt) \cup (qo \cap qt)) \cup ((po \ pt) \cap (qo \ qt))) \cap Side
           = ((O \ P) \cap (N \ Q)) \cup (P \cup Q)
  <2> HIDE DEF P, Q, O, N, Side
  <2> QED
    BY <1>2, <1>3
<1>5. /\ Conjunction(preds[p], preds[q]).tru = RunSuite(pt \cap qt)
      /\ Conjunction(preds[p], preds[q]).obs
           = RunSuite((po \ pt) \cup (qo \ qt) \cup (po \cap qo))
      /\ Disjunction(preds[p], preds[q]).tru = RunSuite((po \cap pt) \cup (qo \cap qt))
      /\ Disjunction(preds[p], preds[q]).obs
           = RunSuite(((po \cap pt) \cup (qo \cap qt)) \cup ((po \ pt) \cap (qo \ qt)))
  BY DEF Conjunction, Disjunction, pt, po, qt, qo
<1>6. ASSUME NEW S PROVE RunSuite(S)[outcome].count = Cardinality(S \cap Side)
  BY <1>1
<1> HIDE DEF P, Q, O, N, Side, RunSuite
<1> QED
  BY <1>4, <1>5, <1>6 DEF P, Q, O, N, False

LEMMA EstimatesHold == Inv /\ EstimateInv => EstimatesConservative
<1> SUFFICES ASSUME Inv, EstimateInv, Exact, pc = "view",
                    NEW k \in Kinds, NEW p \in candidates, NEW q \in candidates, succ[k] # Unset
             PROVE  LET guess == Estimate(k, preds[p], preds[q], allFailures.count, succ[k])
                        found == Complex(k, preds[p], preds[q]) IN
                    /\ guess.trueFailures >= found.tru.failures.count
                    /\ guess.seenSuccesses >= found.obs.successes.count
                    /\ guess.trueSuccesses <= found.tru.successes.count
                    /\ guess.seenFailures <= found.obs.failures.count
  BY DEF EstimatesConservative, Exact
<1> DEFINE fail == allFailures.count
           s == succ[k]
           fp == Trues(preds[p], "failures")      fq == Trues(preds[q], "failures")
           sp == Trues(preds[p], "successes")     sq == Trues(preds[q], "successes")
           fpbar == Falses(preds[p], "failures")  fqbar == Falses(preds[q], "failures")
           spbar == Falses(preds[p], "successes") sqbar == Falses(preds[q], "successes")
           good == Cardinality(Succeeding)
           c == Conjunction(preds[p], preds[q])
           d == Disjunction(preds[p], preds[q])
<1>1. /\ fail = Cardinality(allFailures.bits)
      /\ s \in Int /\ s >= good
  BY DEF Inv, TypeInv, TypeOK, Counted, EstimateInv, Unset
<1>2. /\ {fp, fq, fpbar, fqbar, fail, c.tru.failures.count, c.obs.failures.count,
          d.tru.failures.count, d.obs.failures.count} \subseteq Nat
      /\ c.tru.failures.count <= fp /\ c.tru.failures.count <= fq
      /\ d.tru.failures.count <= fail /\ d.tru.failures.count <= fp + fq
      /\ c.obs.failures.count >= Most(fpbar, fqbar) + Most(0, fp + fq + Least(fpbar, fqbar) - fail)
      /\ d.obs.failures.count >= Most(fp, fq) + Most(0, fpbar + fqbar + Least(fp, fq) - fail)
  <2> DEFINE P == preds[p].tru["failures"].bits     Q == preds[q].tru["failures"].bits
             Pbar == False(preds[p], "failures")    Qbar == False(preds[q], "failures")
             U == allFailures.bits
  <2>1. /\ IsFiniteSet(U) /\ P \in SUBSET U /\ Q \in SUBSET U
        /\ Pbar \in SUBSET U /\ Qbar \in SUBSET U
        /\ fp = Cardinality(P) /\ fq = Cardinality(Q)
        /\ fpbar = Cardinality(Pbar) /\ fqbar = Cardinality(Qbar)
    BY CandidateCounts
  <2>2. P \cap Pbar = {} /\ Q \cap Qbar = {}
    BY DEF False
  <2>3. /\ c.tru["failures"].count = Cardinality(P \cap Q)
        /\ c.obs["failures"].count = Cardinality((P \cap Q) \cup (Pbar \cup Qbar))
        /\ d.tru["failures"].count = Cardinality(P \cup Q)
        /\ d.obs["failures"].count = Cardinality((Pbar \cap Qbar) \cup (P \cup Q))
    BY ComplexBits
  <2> HIDE DEF P, Q, Pbar, Qbar, U, fp, fq, fpbar, fqbar, c, d
  <2>4. /\ {Cardinality(P), Cardinality(Q), Cardinality(Pbar), Cardinality(Qbar),
            Cardinality(U), Cardinality(P \cap Q), Cardinality(P \cup Q),
            Cardinality((P \cap Q) \cup (Pbar \cup Qbar))} \subseteq Nat
        /\ Cardinality(P \cap Q) <= Cardinality(P) /\ Cardinality(P \cap Q) <= Cardinality(Q)
        /\ Cardinality(P \cup Q) <= Cardinality(U)
        /\ Cardinality(P \cup Q) <= Cardinality(P) + Cardinality(Q)
        /\ Cardinality((P \cap Q) \cup (Pbar \cup Qbar))
             >= Most(Cardinality(Pbar), Cardinality(Qbar))
                + Most(0, Cardinality(P) + Cardinality(Q)
                          + Least(Cardinality(Pbar), Cardinality(Qbar)) - Cardinality(U))
    <3>1. {Cardinality(P), Cardinality(Q), Cardinality(Pbar), Cardinality(Qbar),
           Cardinality(U), Cardinality(P \cap Q), Cardinality(P \cup Q),
           Cardinality((P \cap Q) \cup (Pbar \cup Qbar))} \subseteq Nat
      <4>1. \A S \in SUBSET U : Cardinality(S) \in Nat
        BY <2>1, CardinalityMonotone
      <4> QED
        BY <2>1, <4>1
    <3>2. /\ Cardinality(P \cap Q) <= Cardinality(P) /\ Cardinality(P \cap Q) <= Cardinality(Q)
          /\ Cardinality(P \cup Q) <= Cardinality(U)
          /\ Cardinality(P \cup Q) <= Cardinality(P) + Cardinality(Q)
      BY <2>1, <2>2, CombinedCounts
    <3>3. Cardinality((P \cap Q) \cup (Pbar \cup Qbar))
             >= Most(Cardinality(Pbar), Cardinality(Qbar))
                + Most(0, Cardinality(P) + Cardinality(Q)
                          + Least(Cardinality(Pbar), Cardinality(Qbar)) - Cardinality(U))
      BY <2>1, <2>2, CombinedCounts
    <3> QED
      BY <3>1, <3>2, <3>3
  <2>5. /\ Cardinality((Pbar \cap Qbar) \cup (P \cup Q)) \in Nat
        /\ Cardinality((Pbar \cap Qbar) \cup (P \cup Q))
             >= Most(Cardinality(P), Cardinality(Q))
                + Most(0, Cardinality(Pbar) + Cardinality(Qbar)
                          + Least(Cardinality(P), Cardinality(Q)) - Cardinality(U))
    <3>1. Pbar \cap P = {} /\ Qbar \cap Q = {}
      BY <2>2
    <3> QED
      BY <2>1, <3>1, CombinedCounts
  <2> QED
    BY <1>1, <2>1, <2>3, <2>4, <2>5 DEF U
<1>3. /\ {sp, sq, spbar, sqbar, good, c.tru.successes.count, c.obs.successes.count,
          d.tru.successes.count, d.obs.successes.count} \subseteq Nat
      /\ c.obs.successes.count <= good /\ c.tru.successes.count >= sp + sq - good
      /\ d.tru.successes.count >= sp /\ d.tru.successes.count >= sq
      /\ d.obs.successes.count <= good
      /\ d.obs.successes.count <= sp + sq + spbar /\ d.obs.successes.count <= sp + sq + sqbar
  <2> DEFINE P == preds[p].tru["successes"].bits     Q == preds[q].tru["successes"].bits
             Pbar == False(preds[p], "successes")    Qbar == False(preds[q], "successes")
             U == Succeeding
  <2>1. /\ IsFiniteSet(U) /\ P \in SUBSET U /\ Q \in SUBSET U
        /\ Pbar \in SUBSET U /\ Qbar \in SUBSET U
        /\ sp = Cardinality(P) /\ sq = Cardinality(Q)
        /\ spbar = Cardinality(Pbar) /\ sqbar = Cardinality(Qbar)
    BY CandidateCounts
  <2>2. P \cap Pbar = {} /\ Q \cap Qbar = {}
    BY DEF False
  <2>3. /\ c.tru["successes"].count = Cardinality(P \cap Q)
        /\ c.obs["successes"].count = Cardinality((P \cap Q) \cup (Pbar \cup Qbar))
        /\ d.tru["successes"].count = Cardinality(P \cup Q)
        /\ d.obs["successes"].count = Cardinality((Pbar \cap Qbar) \cup (P \cup Q))
    BY ComplexBits
  <2> HIDE DEF P, Q, Pbar, Qbar, U, sp, sq, spbar, sqbar, c, d
  <2>4. /\ {Cardinality(P), Cardinality(Q), Cardinality(Pbar), Cardinality(Qbar),
            Cardinality(U), Cardinality(P \cap Q), Cardinality(P \cup Q),
            Cardinality((P \cap Q) \cup (Pbar \cup Qbar))} \subseteq Nat
        /\ Cardinality(P \cap Q) >= Cardinality(P) + Cardinality(Q) - Cardinality(U)
        /\ Cardinality(P \cup Q) >= Cardinality(P) /\ Cardinality(P \cup Q) >= Cardinality(Q)
        /\ Cardinality(P \cup Q) <= Cardinality(P) + Cardinality(Q)
        /\ Cardinality((P \cap Q) \cup (Pbar \cup Qbar)) <= Cardinality(U)
    <3>1. {Cardinality(P), Cardinality(Q), Cardinality(Pbar), Cardinality(Qbar),
           Cardinality(U), Cardinality(P \cap Q), Cardinality(P \cup Q),
           Cardinality((P \cap Q) \cup (Pbar \cup Qbar))} \subseteq Nat
      <4>1. \A S \in SUBSET U : Cardinality(S) \in Nat
        BY <2>1, CardinalityMonotone
      <4> QED
        BY <2>1, <4>1
    <3>2. /\ Cardinality(P \cap Q) >= Cardinality(P) + Cardinality(Q) - Cardinality(U)
          /\ Cardinality(P \cup Q) >= Cardinality(P) /\ Cardinality(P \cup Q) >= Cardinality(Q)
          /\ Cardinality(P \cup Q) <= Cardinality(P) + Cardinality(Q)
      BY <2>1, <2>2, CombinedCounts
    <3>3. Cardinality((P \cap Q) \cup (Pbar \cup Qbar)) <= Cardinality(U)
      BY <2>1, <2>2, CombinedCounts
    <3> QED
      BY <3>1, <3>2, <3>3
  <2>5. /\ Cardinality((Pbar \cap Qbar) \cup (P \cup Q)) \in Nat
        /\ Cardinality((Pbar \cap Qbar) \cup (P \cup Q)) <= Cardinality(U)
        /\ Cardinality(Pbar \cap Qbar) \in Nat
        /\ Cardinality(Pbar \cap Qbar) <= Cardinality(Pbar)
        /\ Cardinality(Pbar \cap Qbar) <= Cardinality(Qbar)
    <3>1. Pbar \cap P = {} /\ Qbar \cap Q = {}
      BY <2>2
    <3> QED
      BY <2>1, <3>1, CombinedCounts
  <2>6. Cardinality((Pbar \cap Qbar) \cup (P \cup Q))
          <= Cardinality(Pbar \cap Qbar) + Cardinality(P \cup Q)
    <3>1. /\ IsFiniteSet(Pbar \cap Qbar) /\ IsFiniteSet(P \cup Q)
          /\ IsFiniteSet((Pbar \cap Qbar) \cap (P \cup Q))
      BY <2>1, FS_Subset
    <3>2. /\ Cardinality((Pbar \cap Qbar) \cup (P \cup Q))
               = Cardinality(Pbar \cap Qbar) + Cardinality(P \cup Q)
                 - Cardinality((Pbar \cap Qbar) \cap (P \cup Q))
          /\ Cardinality((Pbar \cap Qbar) \cap (P \cup Q)) \in Nat
      BY <3>1, FS_Union, FS_CardinalityType
    <3> QED
      BY <2>4, <2>5, <3>2
  <2> QED
    BY <2>1, <2>3, <2>4, <2>5, <2>6 DEF U
<1> HIDE DEF fp, fq, sp, sq, fpbar, fqbar, spbar, sqbar, fail, s, good, c, d
<1>4. CASE k = "C"
  <2>1. /\ Complex(k, preds[p], preds[q]) = c
        /\ Estimate(k, preds[p], preds[q], fail, s)
             = [trueFailures |-> Least(fp, fq),
                seenSuccesses |-> Most(s, spbar + sqbar + Least(sp, sq)),
                trueSuccesses |-> Most(0, sp + sq - s),
                seenFailures |-> Most(fpbar, fqbar)
                                   + Most(0, fp + fq + Least(fpbar, fqbar) - fail)]
    BY <1>4 DEF Complex, Estimate, EstimateConjunction, c, fp, fq, sp, sq, fpbar, fqbar,
                spbar, sqbar
  <2>2. /\ Least(fp, fq) >= c.tru.failures.count
        /\ Most(s, spbar + sqbar + Least(sp, sq)) >= c.obs.successes.count
        /\ Most(0, sp + sq - s) <= c.tru.successes.count
    BY <1>1, <1>2, <1>3 DEF Least, Most
  <2> QED
    BY <1>2, <2>1, <2>2 DEF fail, s
<1>5. CASE k = "D"
  <2>1. /\ Complex(k, preds[p], preds[q]) = d
        /\ Estimate(k, preds[p], preds[q], fail, s)
             = [trueFailures |-> Least(fail, fp + fq),
                seenSuccesses |-> Least(s, sp + sq + Least(spbar, sqbar)),
                trueSuccesses |-> Most(sp, sq),
                seenFailures |-> Most(fp, fq)
                                   + Most(0, fpbar + fqbar + Least(fp, fq) - fail)]
    BY <1>5 DEF Complex, Estimate, EstimateDisjunction, d, fp, fq, sp, sq, fpbar, fqbar,
                spbar, sqbar
  <2>2. /\ Least(fail, fp + fq) >= d.tru.failures.count
        /\ Least(s, sp + sq + Least(spbar, sqbar)) >= d.obs.successes.count
        /\ Most(sp, sq) <= d.tru.successes.count
    BY <1>1, <1>2, <1>3 DEF Least, Most
  <2> QED
    BY <1>2, <2>1, <2>2 DEF fail, s
<1> QED
  BY <1>4, <1>5 DEF Kinds, fail, s

\* Theorem: in corrected-exact-complete the counts of an estimate are never
\* worse than those of the complex predicate it stands for, whichever iteration
\* has set the static number of successes.
THEOREM EstimatesAreConservative == Spec => []EstimatesConservative
  BY InitInv, NextInv, InitEstimate, NextEstimate, EstimatesHold, PTL DEF Spec

================================================================================
