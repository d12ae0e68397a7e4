----------------------------- MODULE MCReportReader -----------------------------
(***************************************************************************)
(* An instance of ReportReader for TLC: a site with two counters on one    *)
(* line, a branch and a site with three counters on the other.             *)
(* Runs 0 and 2 fail.  Run 0 may have any rows, runs 1 and 2 some that can *)
(* be their first and last.  Thread 1 repeats a count of thread 0.         *)
(***************************************************************************)
EXTENDS ReportReader

Row(r, s, f, t) == [run |-> r, site |-> s, field |-> f, thread |-> t]

MCNumFields == [s \in {0, 1, 2} |-> IF s = 2 THEN 3 ELSE 2]
MCLocationOf == [s \in {0, 1, 2} |-> IF s = 0 THEN "line 1" ELSE "line 2"]
MCInteresting == {<<0, 0>>, <<0, 1>>, <<1, 1>>, <<2, 0>>, <<2, 3>>}
MCSamples ==
  {Row(0, s, f, 0) : s \in {0, 1}, f \in {0, 1}}
    \cup {Row(0, 2, f, 0) : f \in {0, 1, 2}} \cup {Row(0, 1, 0, 1)}
    \cup {Row(1, 0, 0, 0), Row(1, 2, 1, 0), Row(2, 0, 1, 0), Row(2, 1, 0, 0)}

MCPrograms == {"compute_obs_tru", "never-reached"}

=================================================================================
