-------------------------------- MODULE Watchdog --------------------------------
(***************************************************************************)
(* A program under mossexp/bin/watchdog.pl: it writes to a pipe, falls     *)
(* silent or ends when it likes; the watchdog copies its lines to a log,   *)
(* kills it after a silence of the time limit, and says how it has ended.  *)
(*                                                                         *)
(* Output is a sequence of tokens: "x" stands for text, "0" for the digit  *)
(* (Perl takes the line "0" for false), "eol" for the end of a line.        *)
(***************************************************************************)
EXTENDS Integers, Sequences, SequencesExt

CONSTANT MaxOutput \* bound on the tokens a program writes

ASSUME WatchdogAssumption == MaxOutput \in Nat

Tokens == {"x", "0", "eol"}

VARIABLES
  program,  \* the program: not started, running, or how it has ended
  killed,   \* SIGKILL has been sent to it
  written,  \* what it has written to its standard output
  open,     \* it holds its standard output
  pipe,     \* the bytes in the pipe
  buffer,   \* the bytes the watchdog has read ahead
  place,    \* the place in the watchdog
  log,      \* the watchdog's standard output
  exit      \* the file "exit"

programVars == <<program, killed, written, open>>
watchdogVars == <<programVars, pipe, buffer, place, log, exit>>

As(kind, number) == [kind |-> kind, number |-> number]
Ended == {As("normal", 0), As("normal", 1), As("signal", 11), As("signal", 9)}
IsRunning == program.kind = "running"

Fresh(p) ==
  /\ program = As(p, 0)
  /\ killed = FALSE /\ written = <<>> /\ open = (p = "running")
  /\ pipe = <<>> /\ buffer = <<>> /\ place = "off" /\ log = <<>>
  /\ exit = As("none", 0)

\* my $pid = $handle->open("@ARGV |")
Launch ==
  /\ program' = As("running", 0)
  /\ killed' = FALSE /\ written' = <<>> /\ open' = TRUE
  /\ pipe' = <<>> /\ buffer' = <<>> /\ place' = "select" /\ log' = <<>>
  /\ exit' = As("none", 0)

-----------------------------------------------------------------------------
(* The program.                                                            *)

Write(t) ==
  /\ IsRunning /\ open /\ Len(written) < MaxOutput
  /\ written' = Append(written, t) /\ pipe' = Append(pipe, t)
  /\ UNCHANGED <<program, killed, open, buffer, place, log, exit>>

CloseOutput ==
  /\ IsRunning /\ open
  /\ open' = FALSE
  /\ UNCHANGED <<program, killed, written, pipe, buffer, place, log, exit>>

EndAs(e) ==
  /\ IsRunning
  /\ program' = e /\ open' = FALSE
  /\ UNCHANGED <<killed, written, pipe, buffer, place, log, exit>>

-----------------------------------------------------------------------------
(* The watchdog.                                                           *)

\* can_read sees the pipe, not the buffer.
Readable == pipe # <<>> \/ ~open

CanRead ==
  /\ place = "select" /\ Readable
  /\ place' = "read"
  /\ UNCHANGED <<programVars, pipe, buffer, log, exit>>

\* The time limit is over.
Silence ==
  /\ place = "select" /\ ~Readable
  /\ place' = "kill"
  /\ UNCHANGED <<programVars, pipe, buffer, log, exit>>

Newlines == {i \in DOMAIN buffer : buffer[i] = "eol"}
FirstLine == CHOOSE i \in Newlines : \A j \in Newlines : i <= j

\* <$handle>, from the buffer.
ReadLine ==
  /\ place = "read" /\ Newlines # {}
  /\ log' = log \o SubSeq(buffer, 1, FirstLine)
  /\ buffer' = SubSeq(buffer, FirstLine + 1, Len(buffer))
  /\ place' = "select"
  /\ UNCHANGED <<programVars, pipe, exit>>

\* <$handle>, which has no line yet: it waits for the pipe, without a limit.
Fill ==
  /\ place = "read" /\ Newlines = {} /\ pipe # <<>>
  /\ buffer' = buffer \o pipe /\ pipe' = <<>>
  /\ UNCHANGED <<programVars, place, log, exit>>

AtEnd == place = "read" /\ Newlines = {} /\ pipe = <<>> /\ ~open

\* Slip: a last line without its end is not copied.
LoseRest ==
  /\ AtEnd
  /\ buffer' = <<>>
  /\ place' = "close"
  /\ UNCHANGED <<programVars, pipe, log, exit>>

\* <$handle>, at the end of the file: what is left, or nothing.  The digit 0
\* alone ends the loop too.
ReadRest ==
  /\ AtEnd
  /\ buffer' = <<>>
  /\ IF buffer \in {<<>>, <<"0">>} THEN place' = "close" /\ UNCHANGED log
                                   ELSE place' = "select" /\ log' = log \o buffer
  /\ UNCHANGED <<programVars, pipe, exit>>

\* Slip: the watchdog does not wait for a program that has closed its output.
CloseAtOnce ==
  /\ place = "close"
  /\ exit' = IF IsRunning THEN As("normal", 0) ELSE program
  /\ place' = "over"
  /\ UNCHANGED <<programVars, pipe, buffer, log>>

\* Slip: the halves of the wait status are exchanged.
CloseExchanged ==
  /\ place = "close" /\ ~IsRunning
  /\ exit' = As(IF program.number = 0 THEN "normal" ELSE "signal", program.number)
  /\ place' = "over"
  /\ UNCHANGED <<programVars, pipe, buffer, log>>

\* $handle->close waits for the program; then "signal" or "normal".
Close ==
  /\ place = "close" /\ ~IsRunning
  /\ exit' = program
  /\ place' = "over"
  /\ UNCHANGED <<programVars, pipe, buffer, log>>

\* Slip: nothing is sent.
KillNothing ==
  /\ place = "kill"
  /\ exit' = As("timeout", 0)
  /\ place' = "reap"
  /\ UNCHANGED <<programVars, pipe, buffer, log>>

\* kill SIGKILL, $pid
Kill ==
  /\ place = "kill"
  /\ killed' = TRUE
  /\ exit' = As("timeout", 0)
  /\ place' = "reap"
  /\ UNCHANGED <<program, written, open, pipe, buffer, log>>

\* At exit the handle is closed, which waits as well.
Reap ==
  /\ place = "reap" /\ ~IsRunning
  /\ place' = "over"
  /\ UNCHANGED <<programVars, pipe, buffer, log, exit>>

\* Another signal ends the watchdog; the program stays behind.
Die ==
  /\ place \notin {"off", "over", "dead"}
  /\ place' = "dead"
  /\ UNCHANGED <<programVars, pipe, buffer, log, exit>>

WatchdogStep ==
  CanRead \/ Silence \/ ReadLine \/ Fill \/ ReadRest \/ Close \/ Kill \/ Reap

-----------------------------------------------------------------------------

EndOfLine(s) == s = <<>> \/ s[Len(s)] = "eol"

\* What the log can tell of an output.
Visible(s) ==
  IF s # <<>> /\ s[Len(s)] = "0" /\ EndOfLine(Front(s)) THEN Front(s) ELSE s

WatchdogTypeOK ==
  /\ program \in Ended \cup {As("unborn", 0), As("running", 0)}
  /\ killed \in BOOLEAN /\ open \in BOOLEAN
  /\ written \in Seq(Tokens) /\ Len(written) <= MaxOutput
  /\ pipe \in Seq(Tokens) /\ buffer \in Seq(Tokens) /\ log \in Seq(Tokens)
  /\ place \in {"off", "select", "read", "close", "kill", "reap", "over", "dead"}
  /\ exit \in {As("none", 0), As("timeout", 0)} \cup Ended

\* No byte is lost or repeated between the program and the log, but for a last
\* line "0" without its end; an execution that was cut off is logged in whole
\* lines.
OutputLogged ==
  /\ place \in {"select", "read", "kill", "reap"} => written = log \o buffer \o pipe
  /\ place \in {"close", "over"} /\ exit.kind # "timeout" =>
       log = Visible(written)
  /\ place = "over" => ~IsRunning
  /\ exit.kind = "timeout" => IsPrefix(log, written) /\ EndOfLine(log)

=================================================================================
