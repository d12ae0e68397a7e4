------------------------------ MODULE MCIngestion ------------------------------
(***************************************************************************)
(* Instances of Ingestion for TLC: a unit with two sites of two counters,  *)
(* a unit with one site of one counter and, for one run, a unit that       *)
(* records values.                                                         *)
(***************************************************************************)
EXTENDS Ingestion

MCSites == [u \in Units |->
              CASE u = "branches" -> <<0, 1>> [] u = "entries" -> <<2>> [] OTHER -> <<3>>]
MCFields == [u \in Units |-> IF u = "entries" THEN 1 ELSE 2]

Open(id) == <<[kind |-> "report", id |-> id]>>
Just(kind) == <<[kind |-> kind]>>

Block(unit, thread, counts) == [unit |-> unit, thread |-> thread, counts |-> counts]

Printed(b) ==
  <<[kind |-> "samples", unit |-> b.unit, thread |-> b.thread]>>
    \o [n \in DOMAIN b.counts |-> [kind |-> "counts", counts |-> b.counts[n]]]
    \o Just("endsamples")

Report(b) == Open("samples") \o Printed(b) \o Just("endreport")

\* A branch counted in one thread only, a function entered.
Branches0 == Block("branches", 0, <<<<1, 0>>, <<0, 2>>>>)
Branches1 == Block("branches", 1, <<<<0, 3>>, <<4, 0>>>>)
Entries0 == Block("entries", 0, <<<<5>>>>)

\* A shared library reports in each process: the unit comes back, after others.
Twice == Report(Branches0) \o Report(Entries0) \o Report(Branches0)

\* Text between the reports, another report, blocks that have not been reached.
Mixed ==
  Just("text") \o Open("samples") \o Printed(Block("entries", 0, <<<<0>>>>))
    \o Printed(Branches1) \o Just("endreport") \o Open("debug") \o Just("text")
    \o Just("endreport") \o Report(Branches0)

Truncated == Report(Entries0) \o Open("samples")
               \o Printed(Block("branches", 0, <<<<1, 0>>>>)) \o Just("endreport")
Cut == Open("samples") \o <<[kind |-> "samples", unit |-> "entries", thread |-> 0]>>
Longer == Report(Block("entries", 0, <<<<1>>, <<1>>>>))
Wider == Report(Block("entries", 0, <<<<1, 1>>>>))
Nested == Open("debug") \o Report(Entries0)
NoBlock == Open("debug") \o Just("endreport")

Printable == {Twice, Mixed}
Broken == {Truncated, Cut, Longer, Wider, Nested, NoBlock}
MCFiles == Printable \cup Broken

\* The values of an array access, after another unit.
WithBounds == {Report(Entries0) \o Report(Block("bounds", 0, <<<<0, 7>>>>))}

Key(site, field, thread) == [site |-> site, field |-> field, thread |-> thread]

\* Sound and Reported say of these files what they were made for.
ASSUME FilesAsMade ==
  /\ "branches" \in Units =>
       /\ \A f \in Printable : Sound(f)
       /\ \A f \in Broken : ~Sound(f)
       /\ Reported(Twice, Key(0, 1, 0)) = 2 /\ Reported(Twice, Key(1, 2, 0)) = 4
       /\ Reported(Twice, Key(2, 1, 0)) = 5
       /\ Reported(Mixed, Key(0, 1, 0)) = 1 /\ Reported(Mixed, Key(0, 2, 1)) = 3
       /\ Reported(Mixed, Key(1, 1, 1)) = 4 /\ Reported(Mixed, Key(2, 1, 0)) = 0
  /\ "bounds" \in Units => \A f \in WithBounds : Sound(f)

================================================================================
