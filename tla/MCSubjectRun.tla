------------------------------ MODULE MCSubjectRun ------------------------------
(***************************************************************************)
(* SubjectRun for TLC, with programs that print for ever.  MaxOutput bounds *)
(* the output that is kept, and nobody looks at what a build of databases  *)
(* has printed: when all of it is in output.db1, in whole lines, it can be *)
(* forgotten, and there is room for more.                                  *)
(***************************************************************************)
EXTENDS SubjectRun

Forget ==
  /\ variant = "-" /\ place = "select" /\ log # <<>> /\ EndOfLine(log)
  /\ written' = SubSeq(written, Len(log) + 1, Len(written)) /\ log' = <<>>
  /\ UNCHANGED <<program, killed, open, pipe, buffer, place, exit, runVars>>

EndlessNext == Next \/ Forget

EndlessSpec == Init /\ [][EndlessNext]_vars /\ Fairness

=================================================================================
