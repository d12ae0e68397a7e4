-------------------------- MODULE MCCorrectiveRanking --------------------------
(* A small instance of CorrectiveRanking for TLC. *)
EXTENDS CorrectiveRanking, TLC

CONSTANTS f1, f2, f3, s1, s2, p1, p2

MCFailing == {f1, f2, f3}
MCSucceeding == {s1, s2}
MCPreds == {p1, p2}

\* Every zoom choice, and complex predicates wherever the program has them.
MCCommands ==
  {[program |-> "exact", complexPreds |-> TRUE, zoom |-> "winners"],
   [program |-> "approximate", complexPreds |-> TRUE, zoom |-> "all"],
   [program |-> "adaptive", complexPreds |-> FALSE, zoom |-> "all"]}

\* A failing run may report anything.  One successful run can show that a
\* predicate is not always true, the other that it is not sufficient.
MCFeedback ==
  [r \in MCFailing |-> {"unseen", "false", "true"}]
    @@ s1 :> {"unseen", "true"} @@ s2 :> {"unseen", "false"}

MCMissed == {f3}

================================================================================
