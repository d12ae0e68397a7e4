---------------------------- MODULE HarnessProofs ----------------------------
(***************************************************************************)
(* Proofs about the run harness, for every number of runs, jobs and        *)
(* invocations.  The invariants are proved in layers: types and the        *)
(* parent's bookkeeping under all faults, the state of the run directories *)
(* when no parent dies before its children, the catalog when nothing       *)
(* crashes either.                                                         *)
(***************************************************************************)
EXTENDS Harness, FiniteSetTheorems, TLAPS

LEMMA RunsFinite == IsFiniteSet(Runs) /\ \A S \in SUBSET Runs : IsFiniteSet(S)
<1>1. IsFiniteSet(Runs)
  BY HarnessAssumption, FS_Interval DEF Runs
<1>2. QED
  BY <1>1, FS_Subset

-----------------------------------------------------------------------------
(* Types.                                                                  *)

LEMMA InitTypeOK == Init => TypeOK
<1> SUFFICES ASSUME Init
             PROVE  TypeOK
  OBVIOUS
<1>1. /\ inv \in 0 .. MaxInvocations /\ pc \in Idle \cup Busy
      /\ pc = "idle" <=> inv = 0
      /\ task \in 0 .. NumRuns /\ goal \in 0 .. NumRuns
      /\ children \in 0 .. Jobs
  BY HarnessAssumption DEF Init, Idle
<1>2. child \in [Invocations -> [Runs -> {"none"} \cup Live \cup Zombie \cup Past]]
  BY DEF Init
<1>3. /\ exists \in [Runs -> BOOLEAN] /\ stamp \in [Runs -> BOOLEAN]
      /\ label \in [Runs -> {"none", "empty", "whole"}]
      /\ inside \in [Runs -> SUBSET Invocations] /\ data \in [Runs -> SUBSET Invocations]
      /\ holders \in [Runs -> SUBSET Invocations] /\ basis \in [Runs -> SUBSET Invocations]
  BY DEF Init
<1>4. error \in BOOLEAN /\ updated \in BOOLEAN /\ shutdown \in BOOLEAN
  BY DEF Init
<1>5. catalog \in {Missing, Blank} \cup 0 .. NumRuns
  BY DEF Init
<1> QED
  BY <1>1, <1>2, <1>3, <1>4, <1>5 DEF TypeOK

LEMMA ParentTypeOK ==
  ASSUME TypeOK, pc = "slot" => task < goal, ParentStep
  PROVE  TypeOK'
<1> USE HarnessAssumption DEF TypeOK, Idle, Busy, dirVars
<1>1. CASE SeeShutdown
  BY <1>1 DEF SeeShutdown
<1>2. CASE SkipTask
  <2>1. task' \in 0 .. NumRuns
    BY <1>2 DEF SkipTask
  <2> QED
    BY <1>2, <2>1 DEF SkipTask
<1>3. CASE TakeTask
  BY <1>3 DEF TakeTask
<1>4. CASE EndOfTasks
  BY <1>4 DEF EndOfTasks
<1>5. ASSUME NEW r \in Runs, Reap(r)
      PROVE  TypeOK'
  <2>1. children' \in 0 .. Jobs
    BY <1>5 DEF Reap, Waiting, SlotFree
  <2>2. child' \in [Invocations -> [Runs -> {"none"} \cup Live \cup Zombie \cup Past]]
    BY <1>5 DEF Reap, Buried, Past
  <2>3. error' \in BOOLEAN
    BY <1>5 DEF Reap
  <2> QED
    BY <1>5, <2>1, <2>2, <2>3 DEF Reap
<1>6. CASE GiveUp
  BY <1>6 DEF GiveUp
<1>7. CASE Fork
  <2>1. children' \in 0 .. Jobs
    BY <1>7 DEF Fork, SlotFree
  <2>2. child' \in [Invocations -> [Runs -> {"none"} \cup Live \cup Zombie \cup Past]]
    BY <1>7 DEF Fork, Live
  <2>3. task' \in 0 .. NumRuns
    BY <1>7 DEF Fork
  <2> QED
    BY <1>7, <2>1, <2>2, <2>3 DEF Fork
<1>8. CASE Finish
  BY <1>8 DEF Finish
<1>9. CASE OpenCatalog
  BY <1>9 DEF OpenCatalog
<1>10. CASE PrintCatalog
  BY <1>10 DEF PrintCatalog
<1> QED
  BY <1>1, <1>2, <1>3, <1>4, <1>5, <1>6, <1>7, <1>8, <1>9, <1>10 DEF ParentStep

LEMMA ChildTypeOK ==
  ASSUME TypeOK, NEW i \in Invocations, NEW r \in Runs, ChildStep(i, r)
  PROVE  TypeOK'
<1> USE DEF TypeOK, Live, Zombie, Past, parentVars, At
<1>1. CASE ClearDir(i, r)
  BY <1>1 DEF ClearDir
<1>2. CASE RemoveDir(i, r)
  BY <1>2 DEF RemoveDir
<1>3. CASE MakeDir(i, r)
  BY <1>3 DEF MakeDir
<1>4. CASE RunOnce(i, r)
  BY <1>4 DEF RunOnce
<1>5. CASE RunOnceFails(i, r)
  BY <1>5 DEF RunOnceFails
<1>6. CASE WriteStamp(i, r)
  BY <1>6 DEF WriteStamp
<1>7. CASE OpenLabel(i, r)
  BY <1>7 DEF OpenLabel
<1>8. CASE LabelOnce(i, r)
  BY <1>8 DEF LabelOnce
<1>9. CASE LabelOnceFails(i, r)
  BY <1>9 DEF LabelOnceFails
<1> QED
  BY <1>1, <1>2, <1>3, <1>4, <1>5, <1>6, <1>7, <1>8, <1>9 DEF ChildStep

LEMMA EnvironmentTypeOK ==
  ASSUME TypeOK,
         \/ \E n \in 1 .. NumRuns, s \in Runs : Start(s, n)
         \/ ToggleShutdown \/ Crash \/ ParentDies
  PROVE  TypeOK'
<1> USE HarnessAssumption
    DEF TypeOK, Idle, Busy, dirVars, parentVars
<1>1. ASSUME NEW n \in 1 .. NumRuns, NEW s \in Runs, Start(s, n)
      PROVE  TypeOK'
  <2>1. /\ inv' \in 0 .. MaxInvocations /\ inv' # 0
        /\ task' \in 0 .. NumRuns /\ goal' \in 0 .. NumRuns
        /\ children' \in 0 .. Jobs
    BY <1>1 DEF Start, Runs
  <2> QED
    BY <1>1, <2>1 DEF Start
<1>2. CASE ToggleShutdown
  BY <1>2 DEF ToggleShutdown
<1>3. CASE Crash
  BY <1>3 DEF Crash, Past
<1>4. CASE ParentDies
  BY <1>4 DEF ParentDies
<1> QED
  BY <1>1, <1>2, <1>3, <1>4

-----------------------------------------------------------------------------
(* The parent's bookkeeping.                                               *)

LEMMA InitParentInv == Init => ParentInv
BY HarnessAssumption DEF Init, ParentInv, ChildrenCounted, NotYetForked, FailuresSeen, LoopState,
       SuccessHidesNoFailure, Busy

\* While a parent runs, its invocation is one of those the model numbers.
LEMMA BusyInvocation ==
  ASSUME TypeOK, pc \in Busy \cup {"exit0"}
  PROVE  inv \in Invocations
BY HarnessAssumption DEF TypeOK, Busy, Invocations

\* When the parent has a slot, the task at hand is a run without a child.
LEMMA TaskAtHand ==
  ASSUME TypeOK, ParentInv, pc = "slot"
  PROVE  /\ inv \in Invocations /\ task \in Runs
         /\ child[inv][task] = "none"
<1>1. inv \in Invocations
  BY BusyInvocation DEF Busy
<1>2. task \in Nat /\ goal \in Nat /\ goal <= NumRuns /\ task < goal
  BY HarnessAssumption DEF TypeOK, ParentInv, LoopState
<1>3. task \in Runs
  BY <1>2, HarnessAssumption DEF Runs
<1>4. NotYetForked
  BY DEF ParentInv
<1> QED
  BY <1>1, <1>2, <1>3, <1>4 DEF NotYetForked, Busy

\* Forking adds one child to wait for, and reaping removes one.
LEMMA ForkCounts ==
  ASSUME TypeOK, ParentInv, Fork
  PROVE  ChildrenCounted'
<1>1. inv \in Invocations /\ task \in Runs /\ child[inv][task] = "none"
  BY TaskAtHand DEF Fork
<1>2. task \notin Unreaped
  BY <1>1 DEF Unreaped, Live, Zombie
<1>3. Unreaped' = Unreaped \cup {task}
  BY <1>1 DEF Fork, Unreaped, TypeOK, Live, Zombie
<1>4. IsFiniteSet(Unreaped)
  BY RunsFinite DEF Unreaped
<1>5. Cardinality(Unreaped') = Cardinality(Unreaped) + 1
  BY <1>2, <1>3, <1>4, FS_AddElement
<1>6. children = Cardinality(Unreaped)
  BY DEF Fork, ParentInv, ChildrenCounted, Busy
<1>7. children' = children + 1 /\ children' <= Jobs
  BY HarnessAssumption DEF Fork, SlotFree, TypeOK
<1> QED
  BY <1>5, <1>6, <1>7 DEF ChildrenCounted

LEMMA ReapCounts ==
  ASSUME TypeOK, ParentInv, NEW r \in Runs, Reap(r)
  PROVE  ChildrenCounted'
<1>1. inv \in Invocations
  BY BusyInvocation DEF Reap, Waiting, Busy
<1>2. r \in Unreaped /\ Unreaped' = Unreaped \ {r}
  BY <1>1 DEF Reap, Buried, Unreaped, TypeOK, Live, Zombie
<1>3. IsFiniteSet(Unreaped)
  BY RunsFinite DEF Unreaped
<1>4. Cardinality(Unreaped') = Cardinality(Unreaped) - 1
  BY <1>2, <1>3, FS_RemoveElement
<1>5. children = Cardinality(Unreaped)
  BY DEF Reap, Waiting, ParentInv, ChildrenCounted, Busy
<1>6. children' = children - 1 /\ children' <= Jobs
  BY HarnessAssumption DEF Reap, TypeOK
<1> QED
  BY <1>4, <1>5, <1>6 DEF ChildrenCounted

\* When the count is 0 there is really nobody to wait for.
LEMMA NobodyLeft ==
  ASSUME TypeOK, ParentInv, pc \in Busy, children = 0
  PROVE  Unreaped = {}
<1>1. IsFiniteSet(Unreaped)
  BY RunsFinite DEF Unreaped
<1>2. Cardinality(Unreaped) = 0
  BY DEF ParentInv, ChildrenCounted
<1> QED
  BY <1>1, <1>2, FS_EmptySet

\* With no child left to wait for and no error, every child ended well.
LEMMA NoChildLeft ==
  ASSUME TypeOK, ParentInv, pc \in Busy, children = 0, ~error
  PROVE  \A r \in Runs : child[inv][r] \in {"none", "reaped ok"}
<1>1. inv \in Invocations
  BY BusyInvocation
<1>2. \A r \in Runs : child[inv][r] \in {"none"} \cup Live \cup Zombie \cup Past
  BY <1>1 DEF TypeOK
<1>3. \A r \in Runs : child[inv][r] \notin Live \cup Zombie
  BY NobodyLeft DEF Unreaped
<1>4. \A r \in Runs : child[inv][r] # "gone" /\ child[inv][r] # "reaped bad"
  BY DEF ParentInv, FailuresSeen
<1> QED
  BY <1>2, <1>3, <1>4 DEF Past

LEMMA ParentParentInv ==
  ASSUME TypeOK, ParentInv, ParentStep
  PROVE  ParentInv'
<1> USE DEF ParentInv
<1>1. ASSUME SeeShutdown \/ SkipTask \/ TakeTask \/ EndOfTasks \/ GiveUp
      PROVE  ParentInv'
  <2>1. /\ UNCHANGED <<inv, child, children>>
        /\ pc \in Busy /\ pc' \in {"loop", "slot", "drain"}
        /\ task' \in {task, task + 1} /\ (error => error')
    BY <1>1 DEF SeeShutdown, SkipTask, TakeTask, EndOfTasks, GiveUp, Busy
  <2>2. ChildrenCounted'
    BY <2>1 DEF ChildrenCounted, Unreaped
  <2>3. NotYetForked'
    <3>1. task' >= task /\ task \in Int
      BY <2>1, HarnessAssumption DEF TypeOK
    <3>2. \A r \in Runs : r >= task' => r >= task
      BY <3>1, <2>1 DEF Runs
    <3> QED
      BY <2>1, <3>2 DEF NotYetForked
  <2>4. FailuresSeen'
    BY <2>1 DEF FailuresSeen
  <2>5. LoopState'
    BY <1>1 DEF SeeShutdown, SkipTask, TakeTask, EndOfTasks, GiveUp, LoopState
  <2> QED
    BY <2>1, <2>2, <2>3, <2>4, <2>5 DEF SuccessHidesNoFailure
<1>2. ASSUME NEW r \in Runs, Reap(r)
      PROVE  ParentInv'
  <2>1. /\ inv \in Invocations /\ pc \in {"slot", "drain"} /\ child[inv][r] \in Zombie
        /\ UNCHANGED <<inv, pc, task, goal>> /\ (error => error')
    BY <1>2, BusyInvocation DEF Reap, Waiting, Busy
  <2>2. \A i \in Invocations, q \in Runs :
          child'[i][q] = IF i = inv /\ q = r THEN Buried(child[i][q]) ELSE child[i][q]
    BY <1>2, <2>1 DEF Reap, TypeOK
  <2>3. NotYetForked'
    BY <2>1, <2>2 DEF NotYetForked, Zombie
  <2>4. FailuresSeen'
    <3>1. child[inv][r] = "bad" => error'
      BY <1>2 DEF Reap
    <3>2. child'[inv][r] # "gone" /\ (child'[inv][r] = "reaped bad" => error')
      BY <2>1, <2>2, <3>1 DEF Buried
    <3>3. \A q \in Runs : child[inv][q] # "gone" /\ (child[inv][q] = "reaped bad" => error)
      BY <2>1 DEF FailuresSeen, Busy
    <3>4. ASSUME NEW q \in Runs, q # r
          PROVE  child'[inv][q] # "gone" /\ (child'[inv][q] = "reaped bad" => error')
      <4>1. child'[inv][q] = child[inv][q]
        BY <2>1, <2>2, <3>4
      <4> QED
        BY <2>1, <3>3, <4>1
    <3> QED
      BY <2>1, <3>2, <3>4 DEF FailuresSeen
  <2> QED
    BY <1>2, <2>1, <2>3, <2>4, ReapCounts DEF LoopState, SuccessHidesNoFailure
<1>3. CASE Fork
  <2>1. inv \in Invocations /\ task \in Runs /\ pc = "slot" /\ pc' = "loop"
    BY <1>3, TaskAtHand DEF Fork
  <2>2. \A i \in Invocations, q \in Runs :
          child'[i][q] = IF i = inv /\ q = task THEN "clear" ELSE child[i][q]
    BY <1>3, <2>1 DEF Fork, TypeOK
  <2>3. \A q \in Runs : q >= task' => q >= task /\ q # task
    BY <1>3, <2>1 DEF Fork, Runs
  <2>4. inv' = inv /\ error' = error
    BY <1>3 DEF Fork
  <2>5. NotYetForked'
    <3>1. inv \in Int
      BY <2>1 DEF Invocations
    <3> QED
      BY <2>1, <2>2, <2>3, <2>4, <3>1 DEF NotYetForked, Busy
  <2>6. FailuresSeen'
    BY <2>1, <2>2, <2>4 DEF FailuresSeen, Busy
  <2> QED
    BY <1>3, <2>1, <2>5, <2>6, ForkCounts DEF LoopState, SuccessHidesNoFailure
<1>4. CASE Finish
  <2>1. /\ UNCHANGED <<inv, child, children, task, goal, error>>
        /\ pc = "drain" /\ children = 0
        /\ pc' \in {"exit1", "publish", "exit0"} /\ (error => pc' = "exit1")
    BY <1>4 DEF Finish
  <2>2. ~error => \A r \in Runs : child[inv][r] \in {"none", "reaped ok"}
    BY <2>1, NoChildLeft DEF Busy
  <2>3. ChildrenCounted' /\ NotYetForked' /\ FailuresSeen'
    BY <2>1 DEF ChildrenCounted, Unreaped, NotYetForked, FailuresSeen, Busy
  <2> QED
    BY <2>1, <2>2, <2>3 DEF LoopState, SuccessHidesNoFailure
<1>5. CASE OpenCatalog \/ PrintCatalog
  <2>1. /\ UNCHANGED <<inv, child, children, task, goal, error>>
        /\ pc \in {"publish", "print"} /\ pc' \in {"print", "exit0"}
    BY <1>5 DEF OpenCatalog, PrintCatalog
  <2> QED
    BY <2>1 DEF ChildrenCounted, Unreaped, NotYetForked, FailuresSeen, LoopState,
                SuccessHidesNoFailure, Busy
<1> QED
  BY <1>1, <1>2, <1>3, <1>4, <1>5 DEF ParentStep

\* A child's step moves that child from a live state to a live state or to a
\* zombie, and nothing else among the processes.
LEMMA ChildMoves ==
  ASSUME TypeOK, NEW i \in Invocations, NEW r \in Runs, ChildStep(i, r)
  PROVE  /\ child[i][r] \in Live
         /\ child'[i][r] \in Live \cup Zombie
         /\ \A j \in Invocations, q \in Runs :
              j # i \/ q # r => child'[j][q] = child[j][q]
         /\ UNCHANGED <<inv, pc, task, goal, children, error, updated, catalog, shutdown>>
<1> USE DEF At, TypeOK, Live, Zombie, parentVars
<1>1. CASE ClearDir(i, r)
  BY <1>1 DEF ClearDir
<1>2. CASE RemoveDir(i, r)
  BY <1>2 DEF RemoveDir
<1>3. CASE MakeDir(i, r)
  BY <1>3 DEF MakeDir
<1>4. CASE RunOnce(i, r) \/ RunOnceFails(i, r)
  BY <1>4 DEF RunOnce, RunOnceFails
<1>5. CASE WriteStamp(i, r)
  BY <1>5 DEF WriteStamp
<1>6. CASE OpenLabel(i, r)
  BY <1>6 DEF OpenLabel
<1>7. CASE LabelOnce(i, r) \/ LabelOnceFails(i, r)
  BY <1>7 DEF LabelOnce, LabelOnceFails
<1> QED
  BY <1>1, <1>2, <1>3, <1>4, <1>5, <1>6, <1>7 DEF ChildStep

LEMMA ChildParentInv ==
  ASSUME TypeOK, ParentInv, NEW i \in Invocations, NEW r \in Runs, ChildStep(i, r)
  PROVE  ParentInv'
<1> USE DEF ParentInv
<1>1. UNCHANGED <<inv, pc, task, goal, children, error>>
  BY ChildMoves
<1>2. \A j \in Invocations, q \in Runs :
        \/ child'[j][q] = child[j][q]
        \/ child[j][q] \in Live /\ child'[j][q] \in Live \cup Zombie
  BY ChildMoves
<1>3. ChildrenCounted'
  <2>1. pc \in Busy => Unreaped' = Unreaped
    BY <1>1, <1>2, BusyInvocation DEF Unreaped
  <2> QED
    BY <1>1, <2>1 DEF ChildrenCounted
<1>4. NotYetForked'
  BY <1>1, <1>2 DEF NotYetForked, Live
<1>5. FailuresSeen'
  BY <1>1, <1>2, BusyInvocation DEF FailuresSeen, Live, Zombie
<1>6. SuccessHidesNoFailure'
  BY <1>1, <1>2, BusyInvocation DEF SuccessHidesNoFailure, Live, Busy
<1> QED
  BY <1>1, <1>3, <1>4, <1>5, <1>6 DEF LoopState

LEMMA EnvironmentParentInv ==
  ASSUME TypeOK, ParentInv,
         \/ \E n \in 1 .. NumRuns, s \in Runs : Start(s, n)
         \/ ToggleShutdown \/ Crash \/ ParentDies
  PROVE  ParentInv'
<1> USE DEF ParentInv
<1>1. ASSUME NEW n \in 1 .. NumRuns, NEW s \in Runs, Start(s, n)
      PROVE  ParentInv'
  <2>1. /\ inv \in Int /\ inv' = inv + 1 /\ inv' \in Invocations /\ child' = child
        /\ pc' = "loop" /\ children' = 0 /\ error' = FALSE
    BY <1>1, HarnessAssumption DEF Start, TypeOK, Invocations
  <2>2. \A j \in Invocations, r \in Runs : j > inv => child'[j][r] = "none"
    BY <2>1 DEF NotYetForked
  <2>3. \A r \in Runs : child'[inv'][r] = "none"
    BY <2>1, <2>2
  <2>4. Unreaped' = {}
    BY <2>3 DEF Unreaped, Live, Zombie
  <2>5. NotYetForked'
    <3>1. \A j \in Invocations : j >= inv' => j > inv
      BY <2>1 DEF Invocations
    <3>2. \A j \in Invocations : j > inv' \/ j = inv' => j >= inv'
      BY <2>1 DEF Invocations
    <3> QED
      BY <2>2, <3>1, <3>2 DEF NotYetForked
  <2>6. ChildrenCounted'
    BY <2>1, <2>4, FS_EmptySet, HarnessAssumption DEF ChildrenCounted
  <2> QED
    BY <2>1, <2>3, <2>5, <2>6 DEF FailuresSeen, LoopState, SuccessHidesNoFailure
<1>2. CASE ToggleShutdown
  BY <1>2 DEF ToggleShutdown, parentVars, ChildrenCounted, Unreaped, NotYetForked, FailuresSeen,
              LoopState, SuccessHidesNoFailure
<1>3. CASE Crash
  <2>1. \A i \in Invocations, r \in Runs : child[i][r] = "none" => child'[i][r] = "none"
    BY <1>3 DEF Crash, Live, Zombie
  <2> QED
    BY <1>3, <2>1 DEF Crash, ChildrenCounted, NotYetForked, FailuresSeen, LoopState,
                      SuccessHidesNoFailure, Busy
<1>4. CASE ParentDies
  BY <1>4 DEF ParentDies, ChildrenCounted, NotYetForked, FailuresSeen, LoopState,
              SuccessHidesNoFailure, Busy
<1> QED
  BY <1>1, <1>2, <1>3, <1>4

-----------------------------------------------------------------------------
(* What holds under all faults.                                            *)

LEMMA SpecBookkeeping == Spec => [](TypeOK /\ ParentInv)
<1>1. Init => TypeOK /\ ParentInv
  BY InitTypeOK, InitParentInv
<1>2. TypeOK /\ ParentInv /\ [Next]_vars => (TypeOK /\ ParentInv)'
  <2> SUFFICES ASSUME TypeOK, ParentInv, [Next]_vars
               PROVE  TypeOK' /\ ParentInv'
    OBVIOUS
  <2>1. CASE ParentStep
    BY <2>1, ParentTypeOK, ParentParentInv DEF ParentInv, LoopState
  <2>2. ASSUME NEW i \in Invocations, NEW r \in Runs, ChildStep(i, r)
        PROVE  TypeOK' /\ ParentInv'
    BY <2>2, ChildTypeOK, ChildParentInv
  <2>3. CASE \/ \E n \in 1 .. NumRuns, s \in Runs : Start(s, n)
             \/ ToggleShutdown \/ Crash \/ ParentDies
    BY <2>3, EnvironmentTypeOK, EnvironmentParentInv
  <2>4. CASE UNCHANGED vars
    BY ZenonT(30), <2>4 DEF vars, parentVars, dirVars, TypeOK, ParentInv, ChildrenCounted, Unreaped,
                NotYetForked, FailuresSeen, LoopState, SuccessHidesNoFailure
  <2> QED
    BY <2>1, <2>2, <2>3, <2>4 DEF Next
<1> QED
  BY <1>1, <1>2, PTL DEF Spec

\* Every variable keeps its type: in particular the count of children stays
\* between 0 and Jobs, however forks, exits and faults are interleaved.
THEOREM TypeCorrect == Spec => []TypeOK
BY SpecBookkeeping, PTL

\* While make-runs is at work, $self->{children} is the number of children it
\* has forked and not waited for, and at most Jobs.
THEOREM ChildrenAreCounted == Spec => []ChildrenCounted
<1>1. ParentInv => ChildrenCounted
  BY DEF ParentInv
<1> QED
  BY <1>1, SpecBookkeeping, PTL

\* make-runs reports success only when each child it forked was waited for
\* and exited with status 0.
THEOREM SuccessIsHonest == Spec => []SuccessHidesNoFailure
<1>1. ParentInv => SuccessHidesNoFailure
  BY DEF ParentInv
<1> QED
  BY <1>1, SpecBookkeeping, PTL

-----------------------------------------------------------------------------
(* The run directories, when no parent dies before its children.           *)

LEMMA InitDirectoryInv == Init => DirectoryInv
BY HarnessAssumption DEF Init, DirectoryInv, NoOrphans, DirectoryAt, LabelDescribesDirectory,
       PassedRuns, Live, Zombie, Busy

\* A child at work is alone in its directory, and the run is not labelled.
LEMMA AloneInDirectory ==
  ASSUME TypeOK, DirectoryInv, NEW i \in Invocations, NEW r \in Runs, child[i][r] \in Live
  PROVE  /\ i = inv /\ pc \in Busy
         /\ label[r] # "whole"
         /\ \A j \in Invocations : j # i => child[j][r] \notin Live \cup Zombie \cup {"reaped ok"}
<1>1. i = inv /\ pc \in Busy
  BY DEF DirectoryInv, NoOrphans
<1>2. label[r] # "whole"
  <2>1. DirectoryAt(i, r)
    BY DEF DirectoryInv
  <2> QED
    BY <2>1 DEF DirectoryAt, Live
<1>3. ASSUME NEW j \in Invocations, j # i
      PROVE  child[j][r] \notin Live \cup Zombie \cup {"reaped ok"}
  <2>1. child[j][r] \notin Live \cup Zombie
    BY <1>1, <1>3 DEF DirectoryInv, NoOrphans
  <2>2. DirectoryAt(j, r)
    BY DEF DirectoryInv
  <2>3. child[j][r] # "reaped ok"
    BY <1>2, <2>2 DEF DirectoryAt
  <2> QED
    BY <2>1, <2>3
<1> QED
  BY <1>1, <1>2, <1>3

\* A child's step leaves the other directories alone.
LEMMA OtherDirectories ==
  ASSUME TypeOK, NEW i \in Invocations, NEW r \in Runs, ChildStep(i, r)
  PROVE  \A q \in Runs : q # r =>
           /\ data'[q] = data[q] /\ stamp'[q] = stamp[q] /\ label'[q] = label[q]
           /\ basis'[q] = basis[q] /\ inside'[q] = inside[q] /\ holders'[q] = holders[q]
<1> USE DEF At, TypeOK, dirVars
<1>1. CASE ClearDir(i, r)
  BY <1>1 DEF ClearDir
<1>2. CASE RemoveDir(i, r)
  BY <1>2 DEF RemoveDir
<1>3. CASE MakeDir(i, r)
  BY <1>3 DEF MakeDir
<1>4. CASE RunOnce(i, r) \/ RunOnceFails(i, r)
  BY <1>4 DEF RunOnce, RunOnceFails
<1>5. CASE WriteStamp(i, r)
  BY <1>5 DEF WriteStamp
<1>6. CASE OpenLabel(i, r)
  BY <1>6 DEF OpenLabel
<1>7. CASE LabelOnce(i, r) \/ LabelOnceFails(i, r)
  BY <1>7 DEF LabelOnce, LabelOnceFails
<1> QED
  BY <1>1, <1>2, <1>3, <1>4, <1>5, <1>6, <1>7 DEF ChildStep

\* A child that is alone leaves its own directory as it should.
\* What a directory should hold depends on the state of the child alone.
LEMMA SameDirectory ==
  ASSUME NEW i \in Invocations, NEW r \in Runs, DirectoryAt(i, r), UNCHANGED dirVars,
         \/ child'[i][r] = child[i][r]
         \/ child[i][r] = "ok" /\ child'[i][r] = "reaped ok"
         \/ child'[i][r] \in {"reaped bad", "gone"}
  PROVE  DirectoryAt(i, r)'
<1>1. CASE child'[i][r] = child[i][r]
  BY <1>1 DEF DirectoryAt, dirVars
<1>2. CASE child[i][r] = "ok" /\ child'[i][r] = "reaped ok"
  BY <1>2 DEF DirectoryAt, dirVars
<1>3. CASE child'[i][r] \in {"reaped bad", "gone"}
  BY <1>3 DEF DirectoryAt
<1> QED
  BY <1>1, <1>2, <1>3

LEMMA OwnDirectory ==
  ASSUME TypeOK, NEW i \in Invocations, NEW r \in Runs, DirectoryAt(i, r), ChildStep(i, r)
  PROVE  /\ DirectoryAt(i, r)'
         /\ label'[r] = "whole" => stamp'[r] /\ data'[r] = {i} /\ basis'[r] = {i}
<1> USE DEF At, TypeOK, dirVars, DirectoryAt
<1>1. CASE ClearDir(i, r)
  BY <1>1 DEF ClearDir
<1>2. CASE RemoveDir(i, r)
  BY <1>2 DEF RemoveDir
<1>3. CASE MakeDir(i, r)
  BY <1>3 DEF MakeDir
<1>4. CASE RunOnce(i, r)
  BY <1>4 DEF RunOnce
<1>5. CASE WriteStamp(i, r)
  BY <1>5 DEF WriteStamp
<1>6. CASE OpenLabel(i, r)
  BY <1>6 DEF OpenLabel
<1>7. CASE LabelOnce(i, r)
  BY <1>7 DEF LabelOnce
<1>8. CASE RunOnceFails(i, r)
  <2>1. child'[i][r] = "bad" /\ label'[r] = label[r] /\ label[r] = "none"
    BY <1>8 DEF RunOnceFails
  <2> QED
    BY <2>1
<1>9. CASE LabelOnceFails(i, r)
  <2>1. child'[i][r] = "bad" /\ label'[r] = "none"
    BY <1>9 DEF LabelOnceFails
  <2> QED
    BY <2>1
<1> QED
  BY <1>1, <1>2, <1>3, <1>4, <1>5, <1>6, <1>7, <1>8, <1>9 DEF ChildStep

LEMMA ChildDirectoryInv ==
  ASSUME TypeOK, ParentInv, DirectoryInv,
         NEW i \in Invocations, NEW r \in Runs, ChildStep(i, r)
  PROVE  DirectoryInv'
<1>1. /\ child[i][r] \in Live /\ child'[i][r] \in Live \cup Zombie
      /\ \A j \in Invocations, q \in Runs : j # i \/ q # r => child'[j][q] = child[j][q]
      /\ UNCHANGED <<inv, pc, task, goal>>
  BY ChildMoves
<1>2. /\ i = inv /\ pc \in Busy
      /\ \A j \in Invocations : j # i => child[j][r] \notin Live \cup Zombie \cup {"reaped ok"}
  BY <1>1, AloneInDirectory
<1>3. NoOrphans'
  BY <1>1, <1>2 DEF DirectoryInv, NoOrphans
<1>4. /\ DirectoryAt(i, r)'
      /\ label'[r] = "whole" => stamp'[r] /\ data'[r] = {i} /\ basis'[r] = {i}
  BY OwnDirectory DEF DirectoryInv
<1>5. ASSUME NEW j \in Invocations, NEW q \in Runs
      PROVE  DirectoryAt(j, q)'
  <2>1. CASE j = i /\ q = r
    BY <1>4, <2>1
  <2>2. CASE q # r
    <3>1. DirectoryAt(j, q)
      BY DEF DirectoryInv
    <3> QED
      BY ZenonT(30), <1>1, <2>2, <3>1, OtherDirectories DEF DirectoryAt
  <2>3. CASE q = r /\ j # i
    BY <1>1, <1>2, <2>3 DEF DirectoryAt, Live, Zombie
  <2> QED
    BY <2>1, <2>2, <2>3
<1>6. LabelDescribesDirectory'
  BY <1>4, OtherDirectories DEF DirectoryInv, LabelDescribesDirectory
<1>7. child[inv][r] # "none" /\ child'[inv][r] # "none"
  BY <1>1, <1>2 DEF Live, Zombie
<1>8. PassedRuns'
  BY ZenonT(30), <1>1, <1>2, <1>7, OtherDirectories DEF DirectoryInv, PassedRuns
<1>9. pc' = "slot" => label'[task'] = "none"
  <2> SUFFICES ASSUME pc = "slot"
               PROVE  label'[task] = "none"
    BY <1>1
  <2>1. task \in Runs /\ child[inv][task] = "none"
    BY TaskAtHand
  <2> QED
    BY <1>7, <2>1, OtherDirectories DEF DirectoryInv
<1> QED
  BY <1>3, <1>5, <1>6, <1>8, <1>9 DEF DirectoryInv

LEMMA ParentDirectoryInv ==
  ASSUME TypeOK, ParentInv, DirectoryInv, ParentStep
  PROVE  DirectoryInv'
<1>1. UNCHANGED dirVars /\ inv' = inv /\ goal' = goal /\ pc \in Busy /\ inv \in Invocations
  <2>1. pc \in Busy
    BY DEF ParentStep, SeeShutdown, SkipTask, TakeTask, EndOfTasks, Reap, Waiting, GiveUp, Fork,
           Finish, OpenCatalog, PrintCatalog, Busy
  <2>2. UNCHANGED <<dirVars, inv, goal>>
    BY DEF ParentStep, SeeShutdown, SkipTask, TakeTask, EndOfTasks, Reap, GiveUp, Fork,
           Finish, OpenCatalog, PrintCatalog
  <2> QED
    BY <2>1, <2>2, BusyInvocation
<1>2. LabelDescribesDirectory'
  BY <1>1 DEF dirVars, DirectoryInv, LabelDescribesDirectory
<1>3. CASE SeeShutdown \/ SkipTask \/ TakeTask \/ EndOfTasks \/ GiveUp
  <2>1. child' = child /\ pc' \in Busy
    BY <1>3 DEF SeeShutdown, SkipTask, TakeTask, EndOfTasks, GiveUp, Busy
  <2>2. NoOrphans' /\ \A i \in Invocations, r \in Runs : DirectoryAt(i, r)'
    BY ZenonT(30), <1>1, <2>1 DEF DirectoryInv, NoOrphans, DirectoryAt, dirVars
  <2>3. PassedRuns'
    <3>1. \A r \in Runs : r < task' => r < task \/ label[r] # "none"
      BY <1>3, HarnessAssumption
      DEF SeeShutdown, SkipTask, TakeTask, EndOfTasks, GiveUp, necessary_task, Runs, TypeOK
    <3> QED
      BY <1>1, <2>1, <3>1 DEF DirectoryInv, PassedRuns, dirVars
  <2>4. pc' = "slot" => label'[task'] = "none"
    BY <1>1, <1>3
    DEF SeeShutdown, SkipTask, TakeTask, EndOfTasks, GiveUp, necessary_task, dirVars
  <2> QED
    BY <1>2, <2>2, <2>3, <2>4 DEF DirectoryInv
<1>4. ASSUME NEW r \in Runs, Reap(r)
      PROVE  DirectoryInv'
  <2>1. UNCHANGED <<pc, task>> /\ child[inv][r] \in Zombie
    BY <1>4 DEF Reap
  <2>2. \A i \in Invocations, q \in Runs :
          child'[i][q] = IF i = inv /\ q = r THEN Buried(child[i][q]) ELSE child[i][q]
    BY <1>1, <1>4 DEF Reap, TypeOK
  <2>3. NoOrphans'
    BY <1>1, <2>1, <2>2 DEF DirectoryInv, NoOrphans
  <2>4. \A i \in Invocations, q \in Runs : DirectoryAt(i, q)'
    <3>1. \A i \in Invocations, q \in Runs :
            \/ child'[i][q] = child[i][q]
            \/ child[i][q] = "ok" /\ child'[i][q] = "reaped ok"
            \/ child'[i][q] \in {"reaped bad", "gone"}
      BY <2>1, <2>2 DEF Buried, Zombie
    <3> QED
      BY <1>1, <3>1, SameDirectory DEF DirectoryInv
  <2>5. PassedRuns'
    <3>1. \A q \in Runs : child'[inv][q] = "none" => child[inv][q] = "none"
      BY <1>1, <2>2 DEF Buried
    <3> QED
      BY <1>1, <2>1, <3>1 DEF DirectoryInv, PassedRuns, dirVars
  <2> QED
    BY <1>1, <1>2, <2>1, <2>3, <2>4, <2>5 DEF DirectoryInv, dirVars
<1>5. CASE Fork
  <2>1. task \in Runs /\ task' = task + 1 /\ pc = "slot" /\ pc' = "loop"
    BY <1>5, TaskAtHand DEF Fork
  <2>2. \A i \in Invocations, q \in Runs :
          child'[i][q] = IF i = inv /\ q = task THEN "clear" ELSE child[i][q]
    BY <1>1, <1>5 DEF Fork, TypeOK
  <2>3. label[task] = "none"
    BY <2>1 DEF DirectoryInv
  <2>4. NoOrphans'
    BY <1>1, <2>1, <2>2 DEF DirectoryInv, NoOrphans, Busy
  <2>5. \A i \in Invocations, q \in Runs : DirectoryAt(i, q)'
    <3> SUFFICES ASSUME NEW i \in Invocations, NEW q \in Runs
                 PROVE  DirectoryAt(i, q)'
      OBVIOUS
    <3>1. CASE i = inv /\ q = task
      <4>1. child'[i][q] = "clear" /\ label'[q] = "none"
        BY <1>1, <2>2, <2>3, <3>1 DEF dirVars
      <4> QED
        BY <4>1 DEF DirectoryAt
    <3>2. CASE ~(i = inv /\ q = task)
      <4>1. child'[i][q] = child[i][q]
        BY <2>2, <3>2
      <4> QED
        BY <1>1, <4>1, SameDirectory DEF DirectoryInv
    <3> QED
      BY <3>1, <3>2
  <2>6. \A q \in Runs : q < task' => q < task \/ q = task
    BY <2>1 DEF Runs
  <2>7. PassedRuns'
    BY <1>1, <2>1, <2>2, <2>6 DEF DirectoryInv, PassedRuns, dirVars
  <2> QED
    BY <1>2, <2>1, <2>4, <2>5, <2>7 DEF DirectoryInv
<1>6. CASE Finish \/ OpenCatalog \/ PrintCatalog
  <2>1. /\ child' = child /\ task' = task /\ children = 0
        /\ pc' \in Busy \cup {"exit0", "exit1"} /\ pc' # "slot"
    BY <1>6 DEF Finish, OpenCatalog, PrintCatalog, ParentInv, LoopState, Busy
  <2>2. NoOrphans'
    <3>1. \A i \in Invocations, r \in Runs : child[i][r] \notin Live \cup Zombie
      BY <1>1, <2>1, NobodyLeft DEF DirectoryInv, NoOrphans, Unreaped
    <3> QED
      BY <2>1, <3>1 DEF NoOrphans
  <2>3. \A i \in Invocations, r \in Runs : DirectoryAt(i, r)'
    BY ZenonT(30), <1>1, <2>1 DEF DirectoryInv, DirectoryAt, dirVars
  <2>4. PassedRuns'
    BY <1>1, <2>1 DEF DirectoryInv, PassedRuns, dirVars
  <2> QED
    BY <1>2, <2>1, <2>2, <2>3, <2>4 DEF DirectoryInv
<1> QED
  BY <1>3, <1>4, <1>5, <1>6 DEF ParentStep

LEMMA EnvironmentDirectoryInv ==
  ASSUME "orphan" \notin Faults, TypeOK, ParentInv, DirectoryInv,
         \/ \E n \in 1 .. NumRuns, s \in Runs : Start(s, n)
         \/ ToggleShutdown \/ Crash \/ ParentDies
  PROVE  DirectoryInv'
<1>1. UNCHANGED dirVars
  BY DEF Start, ToggleShutdown, Crash, ParentDies
<1>2. LabelDescribesDirectory'
  BY <1>1 DEF dirVars, DirectoryInv, LabelDescribesDirectory
<1>3. ASSUME NEW n \in 1 .. NumRuns, NEW s \in Runs, Start(s, n)
      PROVE  DirectoryInv'
  <2>1. child' = child /\ pc \notin Busy /\ pc' = "loop" /\ task' = s
    BY <1>3 DEF Start, Idle, Busy
  <2>2. NoOrphans'
    BY <2>1 DEF DirectoryInv, NoOrphans
  <2>3. \A i \in Invocations, r \in Runs : DirectoryAt(i, r)'
    BY ZenonT(30), <1>1, <2>1 DEF DirectoryInv, DirectoryAt, dirVars
  <2>4. \A r \in Runs : r < s => r \in 0 .. s - 1
    BY DEF Runs
  <2>5. PassedRuns'
    BY <1>1, <1>3, <2>1, <2>4 DEF Start, PassedRuns, dirVars
  <2> QED
    BY <1>2, <2>1, <2>2, <2>3, <2>5 DEF DirectoryInv
<1>4. CASE ToggleShutdown
  BY ZenonT(30), <1>1, <1>2, <1>4
  DEF ToggleShutdown, parentVars, dirVars, DirectoryInv, NoOrphans, DirectoryAt, PassedRuns
<1>5. CASE Crash
  <2>1. /\ pc' = "died"
        /\ \A i \in Invocations, r \in Runs :
             child'[i][r] = IF child[i][r] \in Live \cup Zombie THEN "gone" ELSE child[i][r]
    BY <1>5 DEF Crash
  <2>2. NoOrphans'
    BY <2>1 DEF NoOrphans, Live, Zombie
  <2>3. \A i \in Invocations, r \in Runs : DirectoryAt(i, r)'
    <3>1. \A i \in Invocations, r \in Runs :
            child'[i][r] = child[i][r] \/ child'[i][r] \in {"reaped bad", "gone"}
      BY <2>1
    <3> QED
      BY <1>1, <3>1, SameDirectory DEF DirectoryInv
  <2> QED
    BY <1>2, <2>1, <2>2, <2>3 DEF DirectoryInv, PassedRuns, Busy
<1>6. CASE ParentDies
  BY <1>6 DEF ParentDies
<1> QED
  BY <1>3, <1>4, <1>5, <1>6

\* A labelled run stays labelled in every step.
LEMMA LabelsKeptByStep ==
  ASSUME TypeOK, DirectoryInv, [Next]_vars, NEW q \in Runs, label[q] = "whole"
  PROVE  label'[q] = "whole"
<1>1. ASSUME NEW i \in Invocations, NEW r \in Runs, ChildStep(i, r)
      PROVE  label'[q] = "whole"
  <2>1. q # r
    BY <1>1, ChildMoves, AloneInDirectory
  <2> QED
    BY <1>1, <2>1, OtherDirectories
<1>2. CASE ParentStep
  BY <1>2 DEF ParentStep, SeeShutdown, SkipTask, TakeTask, EndOfTasks, Reap, GiveUp, Fork,
              Finish, OpenCatalog, PrintCatalog, dirVars
<1>3. CASE \/ \E n \in 1 .. NumRuns, s \in Runs : Start(s, n)
           \/ ToggleShutdown \/ Crash \/ ParentDies \/ UNCHANGED vars
  BY <1>3 DEF Start, ToggleShutdown, Crash, ParentDies, dirVars, vars
<1> QED
  BY <1>1, <1>2, <1>3 DEF Next

LEMMA SpecDirectories ==
  ASSUME "orphan" \notin Faults
  PROVE  Spec => [](TypeOK /\ ParentInv /\ DirectoryInv)
<1>1. Init => DirectoryInv
  BY InitDirectoryInv
<1>2. TypeOK /\ ParentInv /\ DirectoryInv /\ [Next]_vars => DirectoryInv'
  <2> SUFFICES ASSUME TypeOK, ParentInv, DirectoryInv, [Next]_vars
               PROVE  DirectoryInv'
    OBVIOUS
  <2>1. CASE ParentStep
    BY <2>1, ParentDirectoryInv
  <2>2. ASSUME NEW i \in Invocations, NEW r \in Runs, ChildStep(i, r)
        PROVE  DirectoryInv'
    BY <2>2, ChildDirectoryInv
  <2>3. CASE \/ \E n \in 1 .. NumRuns, s \in Runs : Start(s, n)
             \/ ToggleShutdown \/ Crash \/ ParentDies
    BY <2>3, EnvironmentDirectoryInv
  <2>4. CASE UNCHANGED vars
    BY ZenonT(30), <2>4 DEF vars, parentVars, dirVars, DirectoryInv, NoOrphans, DirectoryAt,
                LabelDescribesDirectory, PassedRuns
  <2> QED
    BY <2>1, <2>2, <2>3, <2>4 DEF Next
<1> QED
  BY <1>1, <1>2, SpecBookkeeping, PTL DEF Spec

\* When no parent dies before its children, run-once always starts in a
\* directory without any file of another execution.
THEOREM DirectoriesAreFresh ==
  ASSUME "orphan" \notin Faults
  PROVE  Spec => []FreshRunDirectory
<1>1. DirectoryInv => FreshRunDirectory
  BY DEF DirectoryInv, DirectoryAt, FreshRunDirectory
<1> QED
  BY <1>1, SpecDirectories, PTL

\* Under the same condition, a whole label was computed from the output of the
\* one execution that lies beside it.
THEOREM LabelsDescribe ==
  ASSUME "orphan" \notin Faults
  PROVE  Spec => []LabelDescribesDirectory
<1>1. DirectoryInv => LabelDescribesDirectory
  BY DEF DirectoryInv
<1> QED
  BY <1>1, SpecDirectories, PTL

\* Under the same condition, exit status 0 means that all the runs asked for
\* have a label file.
THEOREM ExitZeroIsComplete ==
  ASSUME "orphan" \notin Faults
  PROVE  Spec => []ExitZeroMeansLabelled
<1>1. TypeOK /\ ParentInv /\ DirectoryInv => ExitZeroMeansLabelled
  <2> SUFFICES ASSUME TypeOK, ParentInv, DirectoryInv, pc = "exit0", NEW r \in 0 .. goal - 1
               PROVE  label[r] # "none"
    BY DEF ExitZeroMeansLabelled
  <2>1. r \in Runs /\ r < task /\ inv \in Invocations
    BY BusyInvocation, HarnessAssumption DEF TypeOK, ParentInv, LoopState, Runs
  <2>2. child[inv][r] \in {"none", "reaped ok"}
    BY <2>1 DEF ParentInv, SuccessHidesNoFailure
  <2>3. DirectoryAt(inv, r)
    BY <2>1 DEF DirectoryInv
  <2> QED
    BY <2>1, <2>2, <2>3 DEF DirectoryInv, PassedRuns, DirectoryAt
<1> QED
  BY <1>1, SpecDirectories, PTL

\* Under the same condition, no step of any process unlabels a labelled run,
\* so runs can be added later without losing any.
THEOREM LabelsAreKept ==
  ASSUME "orphan" \notin Faults
  PROVE  Spec => LabelsKept
<1>1. TypeOK /\ DirectoryInv /\ [Next]_vars
        => [\A r \in Runs : label[r] = "whole" => label'[r] = "whole"]_label
  BY LabelsKeptByStep
<1> QED
  BY <1>1, SpecDirectories, PTL DEF Spec, LabelsKept

-----------------------------------------------------------------------------
(* The catalog of runs, when nothing crashes.                              *)

\* Nobody is filling a label and all the runs asked for were seen to: all of
\* them are labelled.
LEMMA GoalReached ==
  ASSUME TypeOK, ParentInv, DirectoryInv, CatalogInv, pc = "drain", children = 0, ~error
  PROVE  \A r \in 0 .. goal - 1 : label[r] = "whole"
<1> SUFFICES ASSUME NEW r \in 0 .. goal - 1
             PROVE  label[r] = "whole"
  OBVIOUS
<1>1. pc \in Busy /\ inv \in Invocations
  BY BusyInvocation DEF Busy
<1>2. r \in Runs /\ r < task
  BY HarnessAssumption DEF TypeOK, ParentInv, LoopState, Runs
<1>3. child[inv][r] \in {"none", "reaped ok"}
  BY <1>1, <1>2, NoChildLeft
<1>4. label[r] # "none"
  <2>1. DirectoryAt(inv, r)
    BY <1>1, <1>2 DEF DirectoryInv
  <2> QED
    BY <1>1, <1>2, <1>3, <2>1 DEF DirectoryInv, PassedRuns, DirectoryAt
<1>5. label[r] # "empty"
  <2> SUFFICES ASSUME NEW i \in Invocations, child[i][r] = "judge"
               PROVE  FALSE
    BY <1>2 DEF CatalogInv
  <2>1. i = inv
    BY <1>2 DEF DirectoryInv, NoOrphans, Live
  <2> QED
    BY <1>3, <2>1
<1> QED
  BY <1>2, <1>4, <1>5 DEF TypeOK

\* A child leaves no label empty behind it.
LEMMA ChildFillsLabel ==
  ASSUME TypeOK, DirectoryInv, CatalogInv,
         NEW i \in Invocations, NEW r \in Runs, ChildStep(i, r)
  PROVE  label'[r] = "empty" => child'[i][r] = "judge"
<1>1. DirectoryAt(i, r)
  BY DEF DirectoryInv
<1>2. child[i][r] # "judge" => label[r] # "empty"
  <2> SUFFICES ASSUME NEW j \in Invocations, child[j][r] = "judge"
               PROVE  j = i
    BY DEF CatalogInv
  <2> QED
    BY ChildMoves, AloneInDirectory DEF Live
<1> USE DEF At, TypeOK, dirVars
<1>3. CASE ClearDir(i, r)
  BY <1>3 DEF ClearDir
<1>4. CASE RemoveDir(i, r) \/ MakeDir(i, r)
  BY <1>2, <1>4 DEF RemoveDir, MakeDir
<1>5. CASE RunOnce(i, r) \/ RunOnceFails(i, r) \/ WriteStamp(i, r)
  BY <1>2, <1>5 DEF RunOnce, RunOnceFails, WriteStamp
<1>6. CASE OpenLabel(i, r)
  BY <1>1, <1>6 DEF OpenLabel, DirectoryAt
<1>7. CASE LabelOnce(i, r) \/ LabelOnceFails(i, r)
  BY <1>1, <1>7 DEF LabelOnce, LabelOnceFails, DirectoryAt
<1> QED
  BY <1>3, <1>4, <1>5, <1>6, <1>7 DEF ChildStep

LEMMA StepCatalogInv ==
  ASSUME Faults = {}, TypeOK, ParentInv, DirectoryInv, CatalogInv, [Next]_vars
  PROVE  CatalogInv'
<1> USE DEF CatalogInv
<1>1. \A q \in Runs : label[q] = "whole" => label'[q] = "whole"
  BY LabelsKeptByStep
<1>2. goal \in Nat /\ \A r \in 0 .. goal - 1 : r \in Runs
  BY HarnessAssumption DEF TypeOK, Runs
<1>3. ASSUME NEW i \in Invocations, NEW r \in Runs, ChildStep(i, r)
      PROVE  CatalogInv'
  <2>1. /\ UNCHANGED <<pc, goal, catalog>>
        /\ \A j \in Invocations, q \in Runs : q # r => child'[j][q] = child[j][q]
    BY <1>3, ChildMoves
  <2>2. ASSUME NEW q \in Runs, label'[q] = "empty"
        PROVE  \E j \in Invocations : child'[j][q] = "judge"
    <3>1. CASE q = r
      BY <1>3, <2>2, <3>1, ChildFillsLabel
    <3>2. CASE q # r
      <4>1. label[q] = "empty"
        BY <1>3, <2>2, <3>2, OtherDirectories
      <4> QED
        BY <2>1, <3>2, <4>1
    <3> QED
      BY <3>1, <3>2
  <2> QED
    BY <1>1, <1>2, <2>1, <2>2 DEF CatalogSound
<1>4. CASE ParentStep
  <2>1. /\ UNCHANGED <<label, goal>> /\ pc \in Busy
        /\ \A i \in Invocations, r \in Runs : child[i][r] = "judge" => child'[i][r] = "judge"
    <3>1. CASE SeeShutdown \/ SkipTask \/ TakeTask \/ EndOfTasks \/ GiveUp
               \/ Finish \/ OpenCatalog \/ PrintCatalog
      BY <3>1
      DEF SeeShutdown, SkipTask, TakeTask, EndOfTasks, GiveUp, Finish, OpenCatalog,
          PrintCatalog, Busy, dirVars
    <3>2. ASSUME NEW q \in Runs, Reap(q)
          PROVE  /\ UNCHANGED <<label, goal>> /\ pc \in Busy
                 /\ \A i \in Invocations, r \in Runs :
                      child[i][r] = "judge" => child'[i][r] = "judge"
      BY <3>2, BusyInvocation DEF Reap, Waiting, Busy, dirVars, Zombie, TypeOK
    <3>3. CASE Fork
      BY <3>3, TaskAtHand DEF Fork, Busy, dirVars, TypeOK
    <3> QED
      BY <1>4, <3>1, <3>2, <3>3 DEF ParentStep
  <2>2. CASE Finish
    <3>1. pc' = "publish" => \A r \in 0 .. goal - 1 : label[r] = "whole"
      BY <2>2, GoalReached DEF Finish
    <3> QED
      BY <2>1, <2>2, <3>1 DEF Finish, CatalogSound
  <2>3. CASE OpenCatalog
    <3>1. \A r \in Runs : ~(r < Blank)
      BY DEF Blank, Runs
    <3> QED
      BY <2>1, <2>3, <3>1 DEF OpenCatalog, CatalogSound
  <2>4. CASE PrintCatalog
    <3>1. \A r \in Runs : r < goal => r \in 0 .. goal - 1
      BY <1>2 DEF Runs
    <3> QED
      BY <2>1, <2>4, <3>1 DEF PrintCatalog, CatalogSound
  <2>5. CASE SeeShutdown \/ SkipTask \/ TakeTask \/ EndOfTasks \/ GiveUp \/ Fork
    <3>1. pc' \in {"loop", "slot", "drain"} /\ catalog' = catalog
      BY <2>5 DEF SeeShutdown, SkipTask, TakeTask, EndOfTasks, GiveUp, Fork
    <3> QED
      BY <2>1, <3>1 DEF CatalogSound, Busy
  <2>6. ASSUME NEW r \in Runs, Reap(r)
        PROVE  CatalogInv'
    <3>1. pc' = pc /\ pc \in {"slot", "drain"} /\ catalog' = catalog
      BY <2>6 DEF Reap, Waiting
    <3> QED
      BY <2>1, <3>1 DEF CatalogSound, Busy
  <2> QED
    BY <1>4, <2>2, <2>3, <2>4, <2>5, <2>6 DEF ParentStep
<1>5. ASSUME NEW n \in 1 .. NumRuns, NEW s \in Runs, Start(s, n)
      PROVE  CatalogInv'
  BY <1>5 DEF Start, dirVars, CatalogSound
<1>6. CASE ToggleShutdown \/ UNCHANGED vars
  BY <1>6 DEF ToggleShutdown, vars, parentVars, dirVars, CatalogSound
<1>7. CASE Crash \/ ParentDies
  BY <1>7 DEF Crash, ParentDies
<1> QED
  BY <1>3, <1>4, <1>5, <1>6, <1>7 DEF Next

LEMMA SpecCatalog ==
  ASSUME Faults = {}
  PROVE  Spec => [](TypeOK /\ ParentInv /\ DirectoryInv /\ CatalogInv)
<1>1. Init => CatalogInv
  BY HarnessAssumption
  DEF Init, CatalogInv, CatalogSound, Missing, Runs, Busy
<1>2. TypeOK /\ ParentInv /\ DirectoryInv /\ CatalogInv /\ [Next]_vars => CatalogInv'
  BY StepCatalogInv
<1>3. Spec => [](TypeOK /\ ParentInv /\ DirectoryInv)
  BY SpecDirectories
<1> QED
  BY <1>1, <1>2, <1>3, PTL DEF Spec

\* When nothing crashes, stamp-labels counts only runs whose outcome is known.
THEOREM CatalogIsSound ==
  ASSUME Faults = {}
  PROVE  Spec => []CatalogSound
<1>1. CatalogInv => CatalogSound
  BY DEF CatalogInv
<1> QED
  BY <1>1, SpecCatalog, PTL

\* When nothing crashes, the harness with its processes and files implements
\* the catalog it promises: runs become labelled one at a time and for good,
\* and a number is recorded only when all the runs below it are labelled.
THEOREM HarnessImplementsCatalog ==
  ASSUME Faults = {}
  PROVE  Spec => ImplementsRunCatalog
<1> DEFINE Labelled == {r \in Runs : label[r] = "whole"}
<1>1. Init => AbstractCatalog!Init
  BY DEF Init, AbstractCatalog!Init, Missing
<1>2. TypeOK /\ ParentInv /\ DirectoryInv /\ CatalogInv /\ [Next]_vars
        => [AbstractCatalog!Next]_<<Labelled, catalog>>
  <2> SUFFICES ASSUME TypeOK, ParentInv, DirectoryInv, CatalogInv, [Next]_vars
               PROVE  [AbstractCatalog!Next]_<<Labelled, catalog>>
    OBVIOUS
  <2>1. ASSUME NEW i \in Invocations, NEW r \in Runs, ChildStep(i, r)
        PROVE  [AbstractCatalog!Next]_<<Labelled, catalog>>
    <3>1. catalog' = catalog /\ r \notin Labelled
      BY <2>1, ChildMoves, AloneInDirectory
    <3>2. \A q \in Runs : q # r => label'[q] = label[q]
      BY <2>1, OtherDirectories
    <3>3. CASE label'[r] = "whole"
      <4>1. Labelled' = Labelled \cup {r}
        BY <3>2, <3>3
      <4>2. AbstractCatalog!LabelRun(r)
        BY <3>1, <4>1 DEF AbstractCatalog!LabelRun
      <4> QED
        BY <4>2 DEF AbstractCatalog!Next, Runs
    <3>4. CASE label'[r] # "whole"
      <4>1. Labelled' = Labelled
        BY <3>1, <3>2, <3>4
      <4> QED
        BY <3>1, <4>1
    <3> QED
      BY <3>3, <3>4
  <2>2. CASE OpenCatalog
    <3>1. catalog' = -1 /\ label' = label /\ pc = "publish"
      BY <2>2 DEF OpenCatalog, dirVars, Blank
    <3>2. goal \in 1 .. NumRuns /\ 0 .. goal - 1 \subseteq Labelled
      BY <3>1, HarnessAssumption DEF CatalogInv, TypeOK, Busy, Runs
    <3>3. AbstractCatalog!Truncate
      BY <3>1, <3>2 DEF AbstractCatalog!Truncate, AbstractCatalog!Complete
    <3> QED
      BY <3>3 DEF AbstractCatalog!Next
  <2>3. CASE PrintCatalog
    <3>1. catalog' = goal /\ label' = label /\ pc = "print"
      BY <2>3 DEF PrintCatalog, dirVars
    <3>2. goal \in 1 .. NumRuns /\ 0 .. goal - 1 \subseteq Labelled /\ catalog = -1
      BY <3>1, HarnessAssumption DEF CatalogInv, TypeOK, Busy, Runs, Blank
    <3>3. AbstractCatalog!Record(goal)
      BY <3>1, <3>2 DEF AbstractCatalog!Record, AbstractCatalog!Complete
    <3> QED
      BY <3>2, <3>3 DEF AbstractCatalog!Next
  <2>4. CASE UNCHANGED <<label, catalog>>
    BY <2>4
  <2>5. CASE \/ \E n \in 1 .. NumRuns, s \in Runs : Start(s, n)
             \/ SeeShutdown \/ SkipTask \/ TakeTask \/ EndOfTasks
             \/ \E r \in Runs : Reap(r)
             \/ GiveUp \/ Fork \/ Finish
             \/ ToggleShutdown \/ Crash \/ ParentDies \/ UNCHANGED vars
    <3>1. UNCHANGED <<label, catalog>>
      BY <2>5 DEF Start, SeeShutdown, SkipTask, TakeTask, EndOfTasks, Reap, GiveUp, Fork,
                  Finish, ToggleShutdown, Crash, ParentDies, dirVars, vars
    <3> QED
      BY <2>4, <3>1
  <2> QED
    BY <2>1, <2>2, <2>3, <2>5 DEF Next, ParentStep
<1> QED
  BY <1>1, <1>2, SpecCatalog, PTL DEF Spec, ImplementsRunCatalog, AbstractCatalog!Spec

=============================================================================
