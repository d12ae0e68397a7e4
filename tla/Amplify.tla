--------------------------------- MODULE Amplify ---------------------------------
(***************************************************************************)
(* src/src/amplify: what a run has been seen to do, closed under           *)
(* implications between predicates.                                        *)
(*                                                                         *)
(* Tool "amplify" does it for truth: a predicate implied by a true one is  *)
(* true.  Tool "amplify_truth_probs" does it for probabilities of truth: a *)
(* predicate is at least as likely as each one that implies it, and what   *)
(* holds for an implication holds for its contrapositive.  Both work off a *)
(* list of predicates whose implicands are to be looked at; one queue and  *)
(* one stack, here in any order.                                           *)
(***************************************************************************)
EXTENDS Integers

CONSTANTS
  Tools,        \* the tools to consider
  NumRuns,      \* runs 1 .. NumRuns are read
  Sites,        \* the sites that files mention
  Known,        \* those in the sites files
  Implications, \* pairs of predicates of the program, left and right
  Observations, \* the sets of predicates that a run may have observed true
  Asked,        \* the predicates of the preds file, and their complements
  One           \* probabilities are 0 .. One, for 0 .. 1

\* Predicates 0, 1, 2 of a site are <, =, > for "amplify"; for the other tool
\* the predicates 0 .. 5 of a site are <, >=, =, #, >, <=.
Ids == 0 .. 5
Predicates == [site : Sites, id : Ids]
CorePredicates == [site : Sites, id : 0 .. 2]

ASSUME AmplifyAssumption ==
  /\ Tools \subseteq {"amplify", "amplify_truth_probs"}
  /\ NumRuns \in Nat \ {0} /\ One \in Nat \ {0}
  /\ Known \subseteq Sites
  /\ Implications \subseteq CorePredicates \X CorePredicates
  /\ \A o \in Observations : o \subseteq [site : Known, id : 0 .. 2]
  /\ Asked \subseteq [site : Known, id : Ids]

VARIABLES
  tool,
  run,      \* the run that is read, or comes next
  pc,       \* read, work, done or failed
  start,    \* the values before amplification
  vals,     \* vals[p]: how true p is
  worklist, \* the predicates whose implicands are to be looked at
  given,    \* the probabilities of the predicates asked for
  out,      \* the output for the last run
  log       \* its log, of tool "amplify"

vars == <<tool, run, pc, start, vals, worklist, given, out, log>>

Nothing == [p \in Predicates |-> 0]
NoOutput == [p \in {} |-> 0]

Init ==
  /\ tool \in Tools
  /\ run = 1 /\ pc = "read"
  /\ start = Nothing /\ vals = Nothing /\ worklist = {}
  /\ given = NoOutput /\ out = NoOutput /\ log = {}

-----------------------------------------------------------------------------
(* The implications.                                                       *)

\* core_to_synth_pred
Synth(p) == [p EXCEPT !.id = 2 * @]

\* complement
Complement(p) == [p EXCEPT !.id = IF @ % 2 = 0 THEN @ + 1 ELSE @ - 1]

\* Slip: without invert_implication.
AddOneWay ==
  {<<Synth(i[1]), Synth(i[2])>> : i \in Implications}

\* impliesSynthRelationImpl#add
SynthRelation ==
  {<<Synth(i[1]), Synth(i[2])>> : i \in Implications}
    \cup {<<Complement(Synth(i[2])), Complement(Synth(i[1]))>> : i \in Implications}

Relation == IF tool = "amplify" THEN Implications ELSE SynthRelation

Implicands(p) == {q \in Predicates : <<p, q>> \in Relation}

-----------------------------------------------------------------------------
(* A run.                                                                  *)

\* core_to_synth_array: a complement is true if another of the three is.
SynthObserved(o, p) ==
  IF p.id % 2 = 0 THEN \E c \in o : Synth(c) = p
                  ELSE \E c \in o : c.site = p.site /\ Synth(c) # Complement(p)

\* The lines for a run in the two files of probabilities.
Probabilities == IF tool = "amplify" THEN {NoOutput} ELSE [Asked -> 0 .. One]

\* What is read of a run: its observations, then the probabilities over them.
Start(o, probs) ==
  [p \in Predicates |->
     CASE tool = "amplify"  -> IF p \in o THEN One ELSE 0
       [] p \in DOMAIN probs -> probs[p]
       [] OTHER             -> IF SynthObserved(o, p) THEN One ELSE 0]

Read ==
  /\ pc = "read"
  /\ \E o \in Observations : \E probs \in Probabilities :
       /\ given' = probs
       /\ start' = Start(o, probs)
  /\ vals' = start' /\ worklist' = {p \in Predicates : start'[p] > 0}
  /\ out' = NoOutput /\ log' = {}
  /\ pc' = "work"
  /\ UNCHANGED <<tool, run>>

\* The file of the run has a line of another scheme: ParseFailure "non
\* scalar-pair".
ReadMalformed ==
  /\ pc = "read"
  /\ pc' = "failed"
  /\ out' = NoOutput /\ log' = {}
  /\ UNCHANGED <<tool, run, start, vals, worklist, given>>

\* Slip: equal values are passed on again.
RaisedAgain(item) == {q \in Implicands(item) : vals[q] <= vals[item]}

Raised(item) == {q \in Implicands(item) : vals[q] < vals[item]}

\* Slip: a predicate that had a value is raised, but not looked at again.
WorkNewOnly(item) ==
  /\ pc = "work" /\ item \in worklist
  /\ vals' = [p \in Predicates |-> IF p \in Raised(item) THEN vals[item] ELSE vals[p]]
  /\ worklist' = (worklist \ {item}) \cup {p \in Raised(item) : vals[p] = 0}
  /\ UNCHANGED <<tool, run, pc, start, given, out, log>>

\* analyze and assign_implicand
Work(item) ==
  /\ pc = "work" /\ item \in worklist
  /\ vals' = [p \in Predicates |-> IF p \in Raised(item) THEN vals[item] ELSE vals[p]]
  /\ worklist' = (worklist \ {item}) \cup Raised(item)
  /\ UNCHANGED <<tool, run, pc, start, given, out, log>>

\* areChanged
Changed == {p \in Predicates : vals[p] # start[p]}

\* addPredicate raises Not_found for a unit that the sites files do not have.
Unknown == tool = "amplify" /\ \E p \in Changed : p.site \notin Known

\* Slip: the values before amplification are written.
PrintedStart == IF tool = "amplify" THEN start ELSE given

\* printSortedEntries, or calcTruthProb for each predicate asked for.
Printed ==
  IF tool = "amplify" THEN vals
  ELSE [p \in Asked |-> IF given[p] = One THEN One ELSE vals[p]]

Write ==
  /\ pc = "work" /\ worklist = {} /\ ~Unknown
  /\ out' = Printed
  /\ log' = IF tool = "amplify" THEN Changed ELSE {}
  /\ run' = run + 1
  /\ pc' = IF run = NumRuns THEN "done" ELSE "read"
  /\ UNCHANGED <<tool, start, vals, worklist, given>>

Fail ==
  /\ pc = "work" /\ worklist = {} /\ Unknown
  /\ pc' = "failed"
  /\ UNCHANGED <<tool, run, start, vals, worklist, given, out, log>>

Next ==
  Read \/ ReadMalformed \/ (\E p \in Predicates : Work(p)) \/ Write \/ Fail

Spec == Init /\ [][Next]_vars

FairSpec == Spec /\ WF_vars(Next)

-----------------------------------------------------------------------------
(* Properties.                                                             *)

TypeOK ==
  /\ tool \in Tools
  /\ run \in 1 .. NumRuns + 1
  /\ pc \in {"read", "work", "done", "failed"}
  /\ start \in [Predicates -> 0 .. One] /\ vals \in [Predicates -> 0 .. One]
  /\ worklist \subseteq Predicates
  /\ given \in [Asked -> 0 .. One] \cup {NoOutput}
  /\ log \subseteq Predicates

\* The implications do not lead out of S.
IsClosed(S) == \A i \in Relation : i[1] \in S => i[2] \in S

AtLeast(v, t) == {p \in Predicates : v[p] >= t}

\* When the worklist is empty, the predicates with a value of at least t are,
\* for each t, the least set with those that had it before and without a way
\* out: nothing is raised without a chain of implications, and nothing that
\* such a chain leads to has been missed, in cycles as well.
LeastClosed ==
  pc = "work" /\ worklist = {} => \A t \in 1 .. One :
    /\ AtLeast(start, t) \subseteq AtLeast(vals, t)
    /\ IsClosed(AtLeast(vals, t))
    /\ \A S \in SUBSET AtLeast(vals, t) :
         AtLeast(start, t) \subseteq S /\ IsClosed(S) => AtLeast(vals, t) \subseteq S

\* Truth probabilities respect each implication of the program and its
\* contrapositive, as far as its four predicates are concerned.
Contraposed ==
  tool = "amplify_truth_probs" /\ pc = "work" /\ worklist = {} =>
    \A i \in Implications :
      LET l == Synth(i[1])  r == Synth(i[2]) IN
      /\ vals[l] <= vals[r]
      /\ vals[Complement(r)] <= vals[Complement(l)]

\* The written file lowers nothing that was given, and respects the
\* implications; what it has in addition is logged, and only that.
WrittenAmplified ==
  out # NoOutput =>
    /\ \A p \in DOMAIN out : out[p] >= start[p]
    /\ \A p, q \in DOMAIN out : <<p, q>> \in Relation => out[p] <= out[q]
    /\ tool = "amplify" => log = {p \in Predicates : out[p] > start[p]}

\* The tools come to an end, also when implications form a cycle.
AmplifyEnds == <>(pc \in {"done", "failed"})

=================================================================================
