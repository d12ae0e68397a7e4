------------------------------ MODULE AmplifyProofs ------------------------------
(***************************************************************************)
(* Proofs about Amplify, for any relation of implications, any numbers of  *)
(* runs and sites, and any order in which the worklist is taken.           *)
(***************************************************************************)
EXTENDS Amplify, TLAPS

\* What amplification keeps while it is at work: values do not fall; whoever
\* is not on the worklist has passed on its value; and a set without a way out
\* that held the predicates of some value at the start still holds them.
NotLowered == \A p \in Predicates : start[p] <= vals[p]

PassedOn ==
  \A p \in Predicates : vals[p] > 0 /\ p \notin worklist =>
    \A q \in Implicands(p) : vals[p] <= vals[q]

Contained ==
  \A t \in 1 .. One : \A S \in SUBSET Predicates :
    IsClosed(S) /\ AtLeast(start, t) \subseteq S => AtLeast(vals, t) \subseteq S

\* A run that is read or at work is one to be done, and what it was given is
\* where it starts.
AtRun ==
  /\ pc \in {"read", "work"} => run <= NumRuns
  /\ pc = "work" /\ tool = "amplify_truth_probs" =>
       given \in [Asked -> 0 .. One] /\ \A p \in Asked : start[p] = given[p]

Inv == TypeOK /\ NotLowered /\ PassedOn /\ Contained /\ AtRun

-----------------------------------------------------------------------------

\* core_to_synth_pred and complement give predicates.
LEMMA SynthTypes ==
  ASSUME NEW p \in CorePredicates
  PROVE  Synth(p) \in Predicates /\ Complement(Synth(p)) \in Predicates
<1>1. 2 * p.id \in {0, 2, 4} /\ p.site \in Sites
  BY DEF CorePredicates
<1>2. Synth(p) \in Predicates /\ Synth(p).id \in {0, 2, 4}
  BY <1>1 DEF Synth, CorePredicates, Predicates, Ids
<1>3. \A i \in {0, 2, 4} : i % 2 = 0 /\ i + 1 \in Ids
  BY DEF Ids
<1> QED
  BY <1>2, <1>3 DEF Complement, Predicates

\* The implications are between predicates, for either tool.
LEMMA RelationTypes == Relation \subseteq Predicates \X Predicates
<1>1. Implications \subseteq Predicates \X Predicates
  BY AmplifyAssumption DEF CorePredicates, Predicates, Ids
<1>2. \A i \in Implications : i[1] \in CorePredicates /\ i[2] \in CorePredicates
  BY AmplifyAssumption
<1>3. SynthRelation \subseteq Predicates \X Predicates
  BY <1>2, SynthTypes DEF SynthRelation
<1> QED
  BY <1>1, <1>3 DEF Relation

\* Whatever a run has observed, it starts with values in range.
LEMMA StartTypes ==
  ASSUME NEW o \in Observations, NEW probs \in Probabilities
  PROVE  Start(o, probs) \in [Predicates -> 0 .. One]
<1>1. One \in Nat /\ 0 \in 0 .. One /\ One \in 0 .. One
  BY AmplifyAssumption
<1>2. \A p \in DOMAIN probs : probs[p] \in 0 .. One
  BY DEF Probabilities, NoOutput
<1> QED
  BY <1>1, <1>2 DEF Start

-----------------------------------------------------------------------------

LEMMA InitInv == Init => Inv
<1> SUFFICES ASSUME Init PROVE Inv
  OBVIOUS
<1>1. Nothing \in [Predicates -> 0 .. One] /\ \A p \in Predicates : Nothing[p] = 0
  BY AmplifyAssumption DEF Nothing
<1>2. TypeOK
  BY <1>1, AmplifyAssumption DEF Init, TypeOK
<1>3. NotLowered /\ PassedOn
  BY <1>1 DEF Init, NotLowered, PassedOn
<1>4. Contained
  BY <1>1 DEF Init, Contained
<1>5. AtRun
  BY AmplifyAssumption DEF Init, AtRun
<1> QED
  BY <1>2, <1>3, <1>4, <1>5 DEF Inv

LEMMA ReadInv == Inv /\ Read => Inv'
<1> SUFFICES ASSUME Inv, Read PROVE Inv'
  OBVIOUS
<1>1. PICK o \in Observations, probs \in Probabilities :
        given' = probs /\ start' = Start(o, probs)
  BY DEF Read
<1>2. start' \in [Predicates -> 0 .. One] /\ vals' = start' /\ tool' = tool
  BY <1>1, StartTypes DEF Read
<1>3. given' \in [Asked -> 0 .. One] \cup {NoOutput}
  BY <1>1 DEF Probabilities
<1>4. TypeOK'
  BY <1>2, <1>3 DEF Read, Inv, TypeOK
<1>5. NotLowered'
  BY <1>2 DEF NotLowered
<1>6. PassedOn'
  BY <1>2 DEF Read, PassedOn
<1>7. Contained'
  BY <1>2 DEF Contained
<1>8. ASSUME tool = "amplify_truth_probs", NEW p \in Asked
      PROVE  given' \in [Asked -> 0 .. One] /\ start'[p] = given'[p]
  <2>1. probs \in [Asked -> 0 .. One] /\ p \in Predicates
    BY <1>8, AmplifyAssumption DEF Probabilities, Predicates
  <2> QED
    BY <1>1, <1>8, <2>1 DEF Start
<1>9. AtRun'
  <2>1. CASE tool = "amplify_truth_probs"
    BY <1>1, <1>2, <1>8, <2>1 DEF Probabilities, Read, Inv, AtRun
  <2>2. CASE tool # "amplify_truth_probs"
    BY <1>2, <2>2 DEF Read, Inv, AtRun
  <2> QED
    BY <2>1, <2>2
<1> QED
  BY <1>4, <1>5, <1>6, <1>7, <1>9 DEF Inv

\* A step of the worklist.
LEMMA WorkInv ==
  ASSUME Inv, NEW item \in Predicates, Work(item)
  PROVE  Inv'
<1> USE DEF Inv
<1>1. /\ vals \in [Predicates -> 0 .. One] /\ start \in [Predicates -> 0 .. One]
      /\ One \in Nat /\ item \in worklist
      /\ start' = start /\ tool' = tool
      /\ vals' \in [Predicates -> 0 .. One]
  BY AmplifyAssumption DEF TypeOK, Work
<1>2. ASSUME NEW p \in Predicates
      PROVE  /\ p \in Raised(item) => vals'[p] = vals[item] /\ vals[p] < vals[item]
             /\ p \notin Raised(item) => vals'[p] = vals[p]
             /\ vals[p] <= vals'[p]
  BY <1>1 DEF Work, Raised
<1>3. /\ Raised(item) \subseteq Predicates
      /\ worklist' = (worklist \ {item}) \cup Raised(item)
      /\ \A p : Implicands(p)' = Implicands(p)
  BY <1>1 DEF Work, Raised, Implicands, Relation
<1>4. TypeOK'
  BY <1>1, <1>3 DEF TypeOK, Work
<1>5. NotLowered'
  BY <1>1, <1>2 DEF NotLowered
<1>6. ASSUME NEW p \in Predicates, vals'[p] > 0, p \notin worklist',
             NEW q \in Implicands(p)
      PROVE  vals'[p] <= vals'[q]
  <2>1. q \in Predicates /\ p \notin Raised(item) /\ vals'[p] = vals[p]
    BY <1>2, <1>3, <1>6 DEF Implicands
  <2>2. CASE p = item
    BY <1>1, <1>2, <2>1, <2>2 DEF Raised
  <2>3. CASE p # item
    <3>1. vals[p] <= vals[q]
      BY <1>3, <1>6, <2>1, <2>3 DEF PassedOn
    <3> QED
      BY <1>1, <1>2, <2>1, <3>1
  <2> QED
    BY <2>2, <2>3
<1>7. PassedOn'
  BY <1>3, <1>6 DEF PassedOn
<1>8. ASSUME NEW t \in 1 .. One, NEW S \in SUBSET Predicates,
             IsClosed(S), AtLeast(start, t) \subseteq S,
             NEW p \in Predicates, vals'[p] >= t
      PROVE  p \in S
  <2>1. \A x \in Predicates : vals[x] >= t => x \in S
    BY <1>8 DEF Contained, AtLeast
  <2>2. CASE p \in Raised(item)
    <3>1. item \in S
      BY <1>1, <1>2, <1>8, <2>1, <2>2
    <3>2. <<item, p>> \in Relation
      BY <2>2 DEF Raised, Implicands
    <3> QED
      BY <1>8, <3>1, <3>2 DEF IsClosed
  <2>3. CASE p \notin Raised(item)
    BY <1>2, <1>8, <2>1, <2>3
  <2> QED
    BY <2>2, <2>3
<1>9. Contained'
  BY <1>1, <1>8 DEF Contained, AtLeast, IsClosed, Relation
<1>10. AtRun'
  BY DEF Work, AtRun
<1> QED
  BY <1>4, <1>5, <1>7, <1>9, <1>10

LEMMA NextInv == Inv /\ [Next]_vars => Inv'
<1> SUFFICES ASSUME Inv, [Next]_vars PROVE Inv'
  OBVIOUS
<1>1. CASE Read
  BY <1>1, ReadInv
<1>2. CASE \E p \in Predicates : Work(p)
  BY <1>2, WorkInv
<1>3. ASSUME TypeOK', AtRun', UNCHANGED <<tool, start, vals, worklist>>
      PROVE  Inv'
  BY <1>3 DEF Inv, NotLowered, PassedOn, Contained, Implicands, Relation, IsClosed, AtLeast
<1>4. CASE ReadMalformed
  BY <1>3, <1>4 DEF ReadMalformed, Inv, TypeOK, AtRun
<1>5. CASE Write
  <2>1. Changed \subseteq Predicates /\ run \in 1 .. NumRuns
    BY <1>5 DEF Changed, Write, Inv, AtRun, TypeOK
  <2>2. TypeOK' /\ AtRun'
    BY <1>5, <2>1, AmplifyAssumption DEF Write, Inv, TypeOK, AtRun
  <2> QED
    BY <1>3, <1>5, <2>2 DEF Write
<1>6. CASE Fail
  BY <1>3, <1>6 DEF Fail, Inv, TypeOK, AtRun
<1>7. CASE UNCHANGED vars
  BY <1>3, <1>7 DEF vars, Inv, TypeOK, AtRun
<1> QED
  BY <1>1, <1>2, <1>4, <1>5, <1>6, <1>7 DEF Next

\* Theorem: the type invariant, for every instance.
THEOREM AmplifyTypes == Spec => []TypeOK
<1> QED
  BY InitInv, NextInv, PTL DEF Spec, Inv

-----------------------------------------------------------------------------

\* When the worklist is empty, values respect the implications.
LEMMA Respected ==
  ASSUME Inv, worklist = {}, NEW p \in Predicates, NEW q \in Predicates,
         <<p, q>> \in Relation
  PROVE  vals[p] <= vals[q]
<1>1. vals[p] \in Nat /\ vals[q] \in Nat
  BY AmplifyAssumption DEF Inv, TypeOK
<1>2. CASE vals[p] > 0
  BY <1>2 DEF Inv, PassedOn, Implicands
<1>3. CASE vals[p] = 0
  BY <1>1, <1>3
<1> QED
  BY <1>1, <1>2, <1>3

LEMMA InvLeastClosed == Inv => LeastClosed
<1> SUFFICES ASSUME Inv, worklist = {}, NEW t \in 1 .. One
             PROVE  /\ AtLeast(start, t) \subseteq AtLeast(vals, t)
                    /\ IsClosed(AtLeast(vals, t))
                    /\ \A S \in SUBSET AtLeast(vals, t) :
                         AtLeast(start, t) \subseteq S /\ IsClosed(S)
                           => AtLeast(vals, t) \subseteq S
  BY DEF LeastClosed
<1>1. \A p \in Predicates : vals[p] \in Nat /\ start[p] \in Nat
  BY AmplifyAssumption DEF Inv, TypeOK
<1>2. AtLeast(start, t) \subseteq AtLeast(vals, t)
  BY <1>1 DEF Inv, NotLowered, AtLeast
<1>3. ASSUME NEW i \in Relation, i[1] \in AtLeast(vals, t)
      PROVE  i[2] \in AtLeast(vals, t)
  <2>1. i = <<i[1], i[2]>> /\ i[1] \in Predicates /\ i[2] \in Predicates
    BY RelationTypes
  <2>2. vals[i[1]] <= vals[i[2]] /\ vals[i[1]] >= t
    BY <1>3, <2>1, Respected DEF AtLeast
  <2> QED
    BY <1>1, <2>1, <2>2 DEF AtLeast
<1>4. IsClosed(AtLeast(vals, t))
  BY <1>3 DEF IsClosed
<1>5. AtLeast(vals, t) \in SUBSET Predicates
  BY DEF AtLeast
<1> QED
  BY <1>2, <1>4, <1>5 DEF Inv, Contained

\* Theorem: amplification computes the least values that respect the
\* implications.
THEOREM AmplifyLeastClosed == Spec => []LeastClosed
<1> QED
  BY InitInv, NextInv, InvLeastClosed, PTL DEF Spec

LEMMA InvContraposed == Inv => Contraposed
<1> SUFFICES ASSUME Inv, tool = "amplify_truth_probs", worklist = {}, NEW i \in Implications
             PROVE  /\ vals[Synth(i[1])] <= vals[Synth(i[2])]
                    /\ vals[Complement(Synth(i[2]))] <= vals[Complement(Synth(i[1]))]
  BY DEF Contraposed
<1>1. /\ <<Synth(i[1]), Synth(i[2])>> \in Relation
      /\ <<Complement(Synth(i[2])), Complement(Synth(i[1]))>> \in Relation
  BY DEF Relation, SynthRelation
<1>2. i[1] \in CorePredicates /\ i[2] \in CorePredicates
  BY AmplifyAssumption
<1> QED
  BY <1>1, <1>2, SynthTypes, Respected

\* Theorem: implications hold of the probabilities in both directions.
THEOREM AmplifyContraposed == Spec => []Contraposed
<1> QED
  BY InitInv, NextInv, InvContraposed, PTL DEF Spec

\* What is written are the values, of all predicates or of those asked for.
LEMMA PrintedValues ==
  ASSUME Inv, pc = "work"
  PROVE  DOMAIN Printed \subseteq Predicates /\ \A p \in DOMAIN Printed : Printed[p] = vals[p]
<1>1. vals \in [Predicates -> 0 .. One] /\ One \in Nat
  BY AmplifyAssumption DEF Inv, TypeOK
<1>2. CASE tool = "amplify"
  BY <1>1, <1>2 DEF Printed
<1>3. CASE tool = "amplify_truth_probs"
  <2>1. Asked \subseteq Predicates
    BY AmplifyAssumption DEF Predicates
  <2>2. ASSUME NEW p \in Asked, given[p] = One PROVE vals[p] = One
    <3>1. p \in Predicates /\ start[p] = One
      BY <1>3, <2>1, <2>2 DEF Inv, AtRun
    <3>2. One <= vals[p] /\ vals[p] \in 0 .. One
      BY <1>1, <3>1 DEF Inv, NotLowered
    <3> QED
      BY <1>1, <3>2
  <2> QED
    BY <1>3, <2>1, <2>2 DEF Printed
<1> QED
  BY <1>2, <1>3, AmplifyAssumption DEF Inv, TypeOK

LEMMA WriteAmplified == Inv /\ Write => WrittenAmplified'
<1> SUFFICES ASSUME Inv, Write
             PROVE  /\ \A p \in DOMAIN Printed : Printed[p] >= start[p]
                    /\ \A p, q \in DOMAIN Printed :
                         <<p, q>> \in Relation => Printed[p] <= Printed[q]
                    /\ tool = "amplify" => Changed = {p \in Predicates : Printed[p] > start[p]}
  BY DEF Write, WrittenAmplified, Relation
<1>1. DOMAIN Printed \subseteq Predicates /\ \A p \in DOMAIN Printed : Printed[p] = vals[p]
  BY PrintedValues DEF Write
<1>2. \A p \in Predicates : vals[p] \in Nat /\ start[p] \in Nat /\ start[p] <= vals[p]
  BY AmplifyAssumption DEF Inv, TypeOK, NotLowered
<1>3. \A p \in DOMAIN Printed : Printed[p] >= start[p]
  BY <1>1, <1>2
<1>4. ASSUME NEW p \in DOMAIN Printed, NEW q \in DOMAIN Printed, <<p, q>> \in Relation
      PROVE  Printed[p] <= Printed[q]
  BY <1>1, <1>4, Respected DEF Write
<1>5. ASSUME tool = "amplify"
      PROVE  Changed = {p \in Predicates : Printed[p] > start[p]}
  <2>1. Printed = vals
    BY <1>5 DEF Printed
  <2> QED
    BY <1>2, <2>1 DEF Changed
<1> QED
  BY <1>3, <1>4, <1>5

\* Theorem: what is written has lost nothing, and respects the implications.
THEOREM AmplifyWritten == Spec => []WrittenAmplified
<1>1. Init => WrittenAmplified
  BY DEF Init, WrittenAmplified
<1>2. ASSUME Inv, WrittenAmplified, [Next]_vars
      PROVE  WrittenAmplified'
  <2>1. CASE out' = NoOutput
    BY <2>1 DEF WrittenAmplified
  <2>2. CASE Write
    BY <1>2, <2>2, WriteAmplified
  <2>3. CASE \E p \in Predicates : Work(p)
    BY <1>2, <2>3 DEF Work, WrittenAmplified, Relation
  <2>4. CASE Fail \/ UNCHANGED vars
    BY <1>2, <2>4 DEF Fail, vars, WrittenAmplified, Relation
  <2> QED
    BY <1>2, <2>1, <2>2, <2>3, <2>4 DEF Next, Read, ReadMalformed
<1> QED
  BY InitInv, NextInv, <1>1, <1>2, PTL DEF Spec

==================================================================================
