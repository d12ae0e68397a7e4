-------------------------------- MODULE MCAmplify --------------------------------
(***************************************************************************)
(* An instance of Amplify for TLC: a cycle of implications between two     *)
(* sites, one that leads to it, and one to a site of an unknown unit.      *)
(***************************************************************************)
EXTENDS Amplify

P(s, i) == [site |-> s, id |-> i]

MCImplications ==
  {<<P(1, 0), P(2, 1)>>, <<P(2, 1), P(1, 2)>>, <<P(1, 2), P(2, 1)>>, <<P(2, 0), P(1, 1)>>,
   <<P(2, 2), P(3, 0)>>}

MCObservations ==
  {{}, {P(1, 0)}, {P(1, 1), P(1, 2)}, {P(1, 0), P(2, 0)}, {P(2, 2)}}

MCAsked == {P(1, 4), P(1, 5), P(2, 0), P(2, 1)}

==================================================================================
