----------------------------- MODULE RhythmboxRun -----------------------------
(***************************************************************************)
(* One execution of rhythmbox/bin/run-once, the most elaborate of the      *)
(* run-once scripts: it supervises a graphical program through             *)
(* rhythmbox/bin/TimedCommand.pm.                                          *)
(*                                                                         *)
(* The driver (run-once) launches startx, lets the music play, asks the    *)
(* player to quit with a second command (the quitter), and then insists    *)
(* with SIGTERM and SIGKILL.  Each of its four waits is a waitpid under an *)
(* alarm.  The session is what startx starts: an X server and a client,    *)
(* rhythmbox under bin/run-client.  The driver knows the process ids of    *)
(* startx and of the quitter only.                                         *)
(***************************************************************************)
EXTENDS FiniteSets

CONSTANT Faults     \* {"exec"} when a command may fail to be executed

ASSUME FaultsAssumption == Faults \subseteq {"exec"}

Commands == {"startx", "quitter"}           \* the TimedCommand objects
Stages == {"play", "ask", "polite", "term"} \* the four calls of wait

VARIABLES
  pc,       \* where the driver is
  stage,    \* the call of wait it is in, or has finished
  timer,    \* its alarm: "off", "armed", or "fired" and not handled yet
  status,   \* the latest $?: "none", a "real" status, or "lost" (that is -1)
  proc,     \* proc[c]: the process forked for command c
  sent,     \* sent[c]: the signals sent to it
  server,   \* the X server: "off", "up", "down"
  client,   \* the client: "off", "playing", "over" (rhythmbox has ended),
            \* "noted" (run-client has recorded that in client/outcome), or
            \* "killed" before it could
  tmpdir,   \* the directory $TMPDIR exists
  outcome,  \* server/outcome, first word
  detail,   \* server/outcome, second word
  early     \* history: startx ended before the play time was over

driverVars == <<pc, stage, timer, status, outcome, detail>>
sessionVars == <<server, client>>
vars == <<driverVars, proc, sent, sessionVars, tmpdir, early>>

TypeOK ==
  /\ pc \in {"launch", "arm", "waitpid", "disarm", "exited", "timedout", "cleanup", "exit"}
  /\ stage \in Stages
  /\ timer \in {"off", "armed", "fired"}
  /\ status \in {"none", "real", "lost"}
  /\ proc \in [Commands -> {"unborn", "running", "failing", "zombie", "reaped"}]
  /\ sent \in [Commands -> SUBSET {"TERM", "KILL"}]
  /\ server \in {"off", "up", "down"}
  /\ client \in {"off", "playing", "over", "noted", "killed"}
  /\ outcome \in {"none", "premature", "normal", "sigterm", "sigkill"}
  /\ detail \in {"none", "real", "lost", "0"}
  /\ {tmpdir, early} \subseteq BOOLEAN

Init ==
  /\ pc = "launch" /\ stage = "play" /\ timer = "off" /\ status = "none"
  /\ proc = [c \in Commands |-> "unborn"]
  /\ sent = [c \in Commands |-> {}]
  /\ server = "off" /\ client = "off"
  /\ tmpdir = TRUE
  /\ outcome = "none" /\ detail = "none"
  /\ early = FALSE

-----------------------------------------------------------------------------
(* TimedCommand.                                                           *)

\* new: fork, and exec in the child.
New(c) ==
  \E s \in {"running"} \cup (IF "exec" \in Faults THEN {"failing"} ELSE {}) :
    proc' = [proc EXCEPT ![c] = s]

Target == IF stage = "ask" THEN "quitter" ELSE "startx"

\* Slip: the alarm is not set.
ArmNothing ==
  /\ pc = "arm"
  /\ pc' = "waitpid"
  /\ UNCHANGED <<stage, timer, status, outcome, detail, proc, sent, sessionVars, tmpdir, early>>

\* local $SIG{ALRM} = ...; alarm $timeout
Arm ==
  /\ pc = "arm"
  /\ timer' = "armed"
  /\ pc' = "waitpid"
  /\ UNCHANGED <<stage, status, outcome, detail, proc, sent, sessionVars, tmpdir, early>>

\* waitpid $pid, 0; $status = $?
\* It returns at once, with -1, when the child was reaped by an earlier wait.
Waitpid ==
  /\ pc = "waitpid"
  /\ proc[Target] \in {"zombie", "reaped"}
  /\ status' = IF proc[Target] = "zombie" THEN "real" ELSE "lost"
  /\ proc' = [proc EXCEPT ![Target] = "reaped"]
  /\ pc' = "disarm"
  /\ UNCHANGED <<stage, timer, outcome, detail, sent, sessionVars, tmpdir, early>>

\* Slip: the alarm stays set.
DisarmNothing ==
  /\ pc = "disarm" /\ timer # "fired"
  /\ pc' = "exited"
  /\ UNCHANGED <<stage, timer, status, outcome, detail, proc, sent, sessionVars, tmpdir, early>>

\* alarm 0.  A SIGALRM that came before runs the handler inside the eval.
Disarm ==
  /\ pc = "disarm" /\ timer # "fired"
  /\ timer' = "off"
  /\ pc' = "exited"
  /\ UNCHANGED <<stage, status, outcome, detail, proc, sent, sessionVars, tmpdir, early>>

\* Slip: a wait that timed out is reported as an exit.
HandlerIgnored ==
  /\ timer = "fired" /\ pc \in {"waitpid", "disarm"}
  /\ timer' = "off"
  /\ pc' = "exited"
  /\ UNCHANGED <<stage, status, outcome, detail, proc, sent, sessionVars, tmpdir, early>>

\* The handler's die ends the eval, whatever has been done in it.
Handler ==
  /\ timer = "fired" /\ pc \in {"waitpid", "disarm"}
  /\ timer' = "off"
  /\ pc' = "timedout"
  /\ UNCHANGED <<stage, status, outcome, detail, proc, sent, sessionVars, tmpdir, early>>

\* kill $signal, $pid
Kill(c, signal) == sent' = [sent EXCEPT ![c] = @ \cup {signal}]

-----------------------------------------------------------------------------
(* The driver.                                                             *)

LaunchServer ==
  /\ pc = "launch"
  /\ New("startx")
  /\ pc' = "arm"
  /\ UNCHANGED <<stage, timer, status, outcome, detail, sent, sessionVars, tmpdir, early>>

\* Slip: result forgets the number.
ResultWithoutNumber(word, number) ==
  /\ outcome' = word /\ detail' = word
  /\ pc' = "cleanup"
  /\ UNCHANGED <<stage, timer, status, proc, sessionVars, tmpdir, early>>

\* result: record the outcome and exit.
Result(word, number) ==
  /\ outcome' = word /\ detail' = number
  /\ pc' = "cleanup"
  /\ UNCHANGED <<stage, timer, status, proc, sessionVars, tmpdir, early>>

\* Call wait for the next stage.
WaitFor(next) ==
  /\ stage' = next
  /\ pc' = "arm"
  /\ UNCHANGED <<timer, status, outcome, detail, sessionVars, tmpdir, early>>

Premature ==
  /\ stage = "play" /\ pc = "exited"
  /\ Result("premature", status)
  /\ UNCHANGED sent

AskToQuit ==
  /\ stage = "play" /\ pc = "timedout"
  /\ New("quitter")
  /\ WaitFor("ask")
  /\ UNCHANGED sent

StopQuitter ==
  /\ stage = "ask" /\ pc \in {"exited", "timedout"}
  /\ Kill("quitter", "KILL")
  /\ WaitFor("polite")
  /\ UNCHANGED proc

Normal ==
  /\ stage = "polite" /\ pc = "exited"
  /\ Result("normal", status)
  /\ UNCHANGED sent

Terminate ==
  /\ stage = "polite" /\ pc = "timedout"
  /\ Kill("startx", "TERM")
  /\ WaitFor("term")
  /\ UNCHANGED proc

Sigterm ==
  /\ stage = "term" /\ pc = "exited"
  /\ Result("sigterm", status)
  /\ UNCHANGED sent

\* Slip: SIGTERM is thought to be enough.
NoDestroy ==
  /\ stage = "term" /\ pc = "timedout"
  /\ Result("sigkill", "0")
  /\ UNCHANGED sent

Destroy ==
  /\ stage = "term" /\ pc = "timedout"
  /\ Kill("startx", "KILL")
  /\ Result("sigkill", "0")

\* The END block: kill the processes that have files in $TMPDIR open, among
\* them any part of the session, and remove $TMPDIR.
EndBlock ==
  /\ tmpdir' = FALSE
  /\ IF tmpdir
     THEN \E x \in {server} \cup (IF server = "up" THEN {"down"} ELSE {}),
             c \in {client} \cup (IF client = "playing" THEN {"over"} ELSE {}) :
            server' = x /\ client' = c
     ELSE UNCHANGED sessionVars

Cleanup ==
  /\ pc = "cleanup"
  /\ EndBlock
  /\ pc' = "exit"
  /\ UNCHANGED <<stage, timer, status, outcome, detail, proc, sent, early>>

DriverStep ==
  \/ LaunchServer \/ Arm \/ Waitpid \/ Disarm \/ Handler
  \/ Premature \/ AskToQuit \/ StopQuitter \/ Normal \/ Terminate \/ Sigterm \/ Destroy
  \/ Cleanup

-----------------------------------------------------------------------------
(* The other processes and the clock.                                      *)

Expire ==
  /\ timer = "armed"
  /\ timer' = "fired"
  /\ UNCHANGED <<pc, stage, status, outcome, detail, proc, sent, sessionVars, tmpdir, early>>

\* The play time is not over.
InPlayTime == stage = "play" /\ timer # "fired" /\ pc # "timedout"

Ends(c) ==
  /\ proc' = [proc EXCEPT ![c] = "zombie"]
  /\ early' = (early \/ (c = "startx" /\ InPlayTime))
  /\ UNCHANGED <<driverVars, sent>>

\* A command that could not be executed dies, in a copy of the driver: that
\* copy has the driver's END block.
FailToExec(c) ==
  /\ proc[c] = "failing"
  /\ EndBlock
  /\ Ends(c)

Signalled(c) ==
  /\ proc[c] \in {"running", "failing"}
  /\ sent[c] # {}
  /\ Ends(c)
  /\ UNCHANGED <<sessionVars, tmpdir>>

QuitterEnds ==
  /\ proc["quitter"] = "running"
  /\ Ends("quitter")
  /\ UNCHANGED <<sessionVars, tmpdir>>

\* startx starts the X server and the client, or nothing.
StartSession ==
  /\ proc["startx"] = "running" /\ "KILL" \notin sent["startx"] /\ server = "off"
  /\ server' = "up" /\ client' = "playing"
  /\ UNCHANGED <<driverVars, proc, sent, tmpdir, early>>

\* Rhythmbox ends: it was asked to, or it crashed, or lost its X server.
ClientEnds ==
  /\ client = "playing"
  /\ client' = "over"
  /\ UNCHANGED <<driverVars, proc, sent, server, tmpdir, early>>

ClientNotes ==
  /\ client = "over"
  /\ client' = "noted"
  /\ UNCHANGED <<driverVars, proc, sent, server, tmpdir, early>>

\* The X server ends with its client, the client may be ended with its server.
ServerEnds ==
  /\ server = "up" /\ client = "noted"
  /\ server' = "down"
  /\ UNCHANGED <<driverVars, proc, sent, client, tmpdir, early>>

ClientKilled ==
  /\ server = "down" /\ client \in {"playing", "over"}
  /\ client' = "killed"
  /\ UNCHANGED <<driverVars, proc, sent, server, tmpdir, early>>

\* startx ends on its own account when the session is over or never began.
StartxEnds ==
  /\ proc["startx"] = "running"
  /\ \/ server = "off"
     \/ server = "down" /\ client \in {"noted", "killed"}
  /\ Ends("startx")
  /\ UNCHANGED <<sessionVars, tmpdir>>

SessionStep ==
  \/ \E c \in Commands : FailToExec(c) \/ Signalled(c)
  \/ QuitterEnds \/ StartSession \/ ClientEnds \/ ClientNotes \/ ServerEnds
  \/ ClientKilled \/ StartxEnds

Next == DriverStep \/ Expire \/ SessionStep

Spec == Init /\ [][Next]_vars

\* The driver is scheduled, alarms expire and SIGKILL is delivered.  Nothing is
\* assumed of the programs under supervision.
FairSpec ==
  /\ Spec
  /\ WF_vars(DriverStep)
  /\ WF_vars(Expire)
  /\ WF_vars(Signalled("startx") /\ "KILL" \in sent["startx"])

-----------------------------------------------------------------------------
(* Properties.                                                             *)

\* The alarm is set only while the handler is: a SIGALRM never kills run-once.
AlarmHandled == timer # "off" => pc \in {"waitpid", "disarm"}

\* A premature outcome is never an artefact of the race between the alarm and
\* the exit: startx did end within the play time, and its status is known.
PrematureIsEarly == outcome = "premature" => early /\ detail = "real"

\* When startx ended on its own, the session is over before run-once is, so
\* that label-once finds files that nobody writes any more.
QuietDirectory ==
  pc = "exit" /\ outcome \in {"premature", "normal"} => client \notin {"playing", "over"}

\* run-once ends with an outcome although everything it supervises may hang.
RunEnds == <>(pc = "exit" /\ outcome # "none")

\* In the end startx does not run, however stubborn it is.
StartxStops == <>[](proc["startx"] # "running")

-----------------------------------------------------------------------------
(* The inductive invariant behind the safety properties.                   *)

InWait == pc \in {"waitpid", "disarm"}

AlarmInv == InWait <=> timer # "off"

\* What the driver knows of startx: after an exit that it did not provoke.
WaitInv ==
  /\ pc = "launch" => stage = "play" /\ proc["startx"] = "unborn"
  /\ outcome # "none" <=> pc \in {"cleanup", "exit"}
  /\ pc \in {"disarm", "exited"} => proc[Target] = "reaped"
  /\ stage # "term" => sent["startx"] = {}
  /\ outcome \in {"premature", "normal"} =>
       stage # "term" /\ proc["startx"] = "reaped"

\* While the first wait goes on, an end of startx is early, and its status has
\* not been taken by any other wait.
PlayInv ==
  /\ stage = "play" /\ pc \in {"arm", "waitpid"} => proc["startx"] # "reaped"
  /\ stage = "play" /\ pc \in {"disarm", "exited"} => status = "real"
  /\ InPlayTime /\ proc["startx"] \in {"zombie", "reaped"} => early
  /\ PrematureIsEarly

\* Until it is signalled, startx outlives the session it has started.
SessionInv ==
  /\ proc["startx"] = "unborn" => server = "off"
  /\ server = "off" <=> client = "off"
  /\ proc["startx"] \in {"failing", "zombie", "reaped"} /\ sent["startx"] = {}
       => client \notin {"playing", "over"}

RunInv == AlarmInv /\ WaitInv /\ PlayInv /\ SessionInv

=============================================================================
