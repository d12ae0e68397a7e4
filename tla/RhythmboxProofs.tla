---------------------------- MODULE RhythmboxProofs ----------------------------
(***************************************************************************)
(* Proofs about one supervised run, whether or not commands can be         *)
(* executed.  RunInv is inductive together with the types.                 *)
(***************************************************************************)
EXTENDS RhythmboxRun, TLAPS

LEMMA InitRun == Init => TypeOK /\ RunInv
<1> SUFFICES ASSUME Init
             PROVE  TypeOK /\ RunInv
  OBVIOUS
<1>1. TypeOK
  BY DEF Init, TypeOK, Stages
<1>2. RunInv
  BY DEF Init, RunInv, AlarmInv, InWait, WaitInv, PlayInv, SessionInv, PrematureIsEarly,
         InPlayTime, Commands
<1> QED
  BY <1>1, <1>2

\* The END block can only end a client that plays, and a server that is up.
LEMMA EndBlockEffect ==
  ASSUME TypeOK, EndBlock
  PROVE  /\ server' \in {"off", "up", "down"} /\ client' \in {"off", "playing", "over", "noted", "killed"}
         /\ tmpdir' \in BOOLEAN
         /\ (server' = "off" <=> server = "off") /\ (client' = "off" <=> client = "off")
         /\ client' \in {"playing", "over"} => client \in {"playing", "over"}
  BY DEF EndBlock, TypeOK, sessionVars

LEMMA DriverTypeOK ==
  ASSUME TypeOK, DriverStep
  PROVE  TypeOK'
<1> USE DEF TypeOK, sessionVars
<1>1. CASE LaunchServer
  BY ZenonT(30), <1>1 DEF LaunchServer, New
<1>2. CASE Arm \/ Disarm \/ Handler
  BY <1>2 DEF Arm, Disarm, Handler
<1>3. CASE Waitpid
  BY ZenonT(30), <1>3 DEF Waitpid
<1>4. CASE Premature \/ Normal \/ Sigterm
  BY <1>4 DEF Premature, Normal, Sigterm, Result
<1>5. CASE AskToQuit
  BY ZenonT(30), <1>5 DEF AskToQuit, New, WaitFor, Stages
<1>6. CASE StopQuitter
  <2>1. sent' \in [Commands -> SUBSET {"TERM", "KILL"}]
    BY <1>6 DEF StopQuitter, Kill
  <2> QED
    BY <1>6, <2>1 DEF StopQuitter, WaitFor, Stages
<1>7. CASE Terminate
  <2>1. sent' \in [Commands -> SUBSET {"TERM", "KILL"}]
    BY <1>7 DEF Terminate, Kill
  <2> QED
    BY <1>7, <2>1 DEF Terminate, WaitFor, Stages
<1>8. CASE Destroy
  <2>1. sent' \in [Commands -> SUBSET {"TERM", "KILL"}]
    BY <1>8 DEF Destroy, Kill
  <2> QED
    BY <1>8, <2>1 DEF Destroy, Result
<1>9. CASE Cleanup
  BY <1>9, EndBlockEffect DEF Cleanup
<1> QED
  BY <1>1, <1>2, <1>3, <1>4, <1>5, <1>6, <1>7, <1>8, <1>9 DEF DriverStep

LEMMA OthersTypeOK ==
  ASSUME TypeOK, Expire \/ SessionStep
  PROVE  TypeOK'
<1> USE DEF TypeOK, sessionVars, driverVars
<1>1. CASE Expire
  BY <1>1 DEF Expire
<1>2. ASSUME NEW c \in Commands, FailToExec(c)
      PROVE  TypeOK'
  BY <1>2, EndBlockEffect DEF FailToExec, Ends
<1>3. ASSUME NEW c \in Commands, Signalled(c)
      PROVE  TypeOK'
  BY <1>3 DEF Signalled, Ends
<1>4. CASE QuitterEnds \/ StartxEnds
  <2>1. ASSUME NEW c \in Commands, Ends(c)
        PROVE  proc' \in [Commands -> {"unborn", "running", "failing", "zombie", "reaped"}]
               /\ early' \in BOOLEAN
    BY <2>1 DEF Ends
  <2>2. "quitter" \in Commands /\ "startx" \in Commands
    BY DEF Commands
  <2>3. Ends("quitter") \/ Ends("startx")
    BY <1>4 DEF QuitterEnds, StartxEnds
  <2>4. /\ proc' \in [Commands -> {"unborn", "running", "failing", "zombie", "reaped"}]
        /\ early' \in BOOLEAN
    BY <2>1, <2>2, <2>3
  <2> QED
    BY <1>4, <2>4 DEF QuitterEnds, StartxEnds, Ends
<1>5. CASE StartSession \/ ClientEnds \/ ClientNotes \/ ServerEnds \/ ClientKilled
  BY <1>5 DEF StartSession, ClientEnds, ClientNotes, ServerEnds, ClientKilled
<1> QED
  BY <1>1, <1>2, <1>3, <1>4, <1>5 DEF SessionStep

LEMMA DriverRunInv ==
  ASSUME TypeOK, RunInv, DriverStep
  PROVE  RunInv'
<1> USE DEF RunInv, AlarmInv, InWait, WaitInv, PlayInv, SessionInv, PrematureIsEarly,
            InPlayTime, Target, Commands, Stages, TypeOK, sessionVars
<1>1. CASE LaunchServer
  BY <1>1 DEF LaunchServer, New
<1>2. CASE Arm
  BY <1>2 DEF Arm
<1>3. CASE Waitpid
  BY <1>3 DEF Waitpid
<1>4. CASE Disarm
  BY <1>4 DEF Disarm
<1>5. CASE Handler
  BY <1>5 DEF Handler
<1>6. CASE Premature \/ Normal \/ Sigterm
  BY <1>6 DEF Premature, Normal, Sigterm, Result
<1>7. CASE AskToQuit
  BY <1>7 DEF AskToQuit, New, WaitFor
<1>8. CASE StopQuitter
  BY <1>8 DEF StopQuitter, Kill, WaitFor
<1>9. CASE Terminate
  BY <1>9 DEF Terminate, Kill, WaitFor
<1>10. CASE Destroy
  BY <1>10 DEF Destroy, Kill, Result
<1>11. CASE Cleanup
  BY <1>11, EndBlockEffect DEF Cleanup
<1> QED
  BY <1>1, <1>2, <1>3, <1>4, <1>5, <1>6, <1>7, <1>8, <1>9, <1>10, <1>11 DEF DriverStep

LEMMA OthersRunInv ==
  ASSUME TypeOK, RunInv, Expire \/ SessionStep
  PROVE  RunInv'
<1> USE DEF RunInv, AlarmInv, InWait, WaitInv, PlayInv, SessionInv, PrematureIsEarly,
            InPlayTime, Target, Commands, Stages, TypeOK, sessionVars, driverVars
<1>1. CASE Expire
  BY <1>1 DEF Expire
<1>2. ASSUME NEW c \in Commands, FailToExec(c)
      PROVE  RunInv'
  <2>1. /\ proc[c] = "failing" /\ proc' = [proc EXCEPT ![c] = "zombie"]
        /\ early' = (early \/ (c = "startx" /\ InPlayTime))
        /\ UNCHANGED <<pc, stage, timer, status, outcome, detail, sent>>
    BY <1>2 DEF FailToExec, Ends
  <2>2. /\ server' = "off" <=> server = "off"
        /\ client' = "off" <=> client = "off"
        /\ client' \in {"playing", "over"} => client \in {"playing", "over"}
    BY <1>2, EndBlockEffect DEF FailToExec
  <2>3. AlarmInv' /\ WaitInv' /\ PlayInv'
    BY <2>1
  <2>4. SessionInv'
    BY <2>1, <2>2
  <2> QED
    BY <2>3, <2>4
<1>3. ASSUME NEW c \in Commands, Signalled(c)
      PROVE  RunInv'
  BY <1>3 DEF Signalled, Ends
<1>4. CASE QuitterEnds
  BY <1>4 DEF QuitterEnds, Ends
<1>5. CASE StartxEnds
  BY <1>5 DEF StartxEnds, Ends
<1>6. CASE StartSession \/ ClientEnds \/ ClientNotes \/ ServerEnds \/ ClientKilled
  BY <1>6 DEF StartSession, ClientEnds, ClientNotes, ServerEnds, ClientKilled
<1> QED
  BY <1>1, <1>2, <1>3, <1>4, <1>5, <1>6 DEF SessionStep

LEMMA SpecRun == Spec => [](TypeOK /\ RunInv)
<1>1. TypeOK /\ RunInv /\ [Next]_vars => (TypeOK /\ RunInv)'
  <2> SUFFICES ASSUME TypeOK, RunInv, [Next]_vars
               PROVE  TypeOK' /\ RunInv'
    OBVIOUS
  <2>1. CASE DriverStep
    BY <2>1, DriverTypeOK, DriverRunInv
  <2>2. CASE Expire \/ SessionStep
    BY <2>2, OthersTypeOK, OthersRunInv
  <2>3. CASE UNCHANGED vars
    BY <2>3
    DEF vars, driverVars, sessionVars, TypeOK, RunInv, AlarmInv, InWait, WaitInv, PlayInv,
        SessionInv, PrematureIsEarly, InPlayTime, Target
  <2> QED
    BY <2>1, <2>2, <2>3 DEF Next
<1> QED
  BY <1>1, InitRun, PTL DEF Spec

\* Every variable of a supervised run keeps its type.
THEOREM RunTypeCorrect == Spec => []TypeOK
BY SpecRun, PTL

\* SIGALRM comes only while wait's handler is installed.
THEOREM AlarmIsHandled == Spec => []AlarmHandled
<1>1. RunInv => AlarmHandled
  BY DEF RunInv, AlarmInv, InWait, AlarmHandled
<1> QED
  BY <1>1, SpecRun, PTL

\* An outcome "premature" is true: startx ended within the play time, and the
\* number beside the word is its exit status.
THEOREM PrematureIsTrue == Spec => []PrematureIsEarly
<1>1. RunInv => PrematureIsEarly
  BY DEF RunInv, PlayInv
<1> QED
  BY <1>1, SpecRun, PTL

\* After an outcome "premature" or "normal" the client is over when run-once
\* is, although run-once has no handle on it.
THEOREM DirectoryIsQuiet == Spec => []QuietDirectory
<1>1. RunInv => QuietDirectory
  BY DEF RunInv, WaitInv, SessionInv, QuietDirectory
<1> QED
  BY <1>1, SpecRun, PTL

================================================================================
