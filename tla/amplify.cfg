CONSTANTS
  Tools = {"amplify", "amplify_truth_probs"}
  NumRuns = 2
  Sites = {1, 2, 3}
  Known = {1, 2}
  Implications <- MCImplications
  Observations <- MCObservations
  Asked <- MCAsked
  One = 2
SPECIFICATION FairSpec
INVARIANTS LeastClosed Contraposed WrittenAmplified
PROPERTIES AmplifyEnds
CHECK_DEADLOCK FALSE
