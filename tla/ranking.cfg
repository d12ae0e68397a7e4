CONSTANTS
  f1 = f1
  f2 = f2
  f3 = f3
  s1 = s1
  s2 = s2
  p1 = p1
  p2 = p2
  Failing <- MCFailing
  Succeeding <- MCSucceeding
  Preds <- MCPreds
  Commands <- MCCommands
  Feedback <- MCFeedback
  Missed <- MCMissed
SPECIFICATION Spec
INVARIANTS TypeOK RecallDefined NothingOvercounted CreditedOnce IterationsBounded EstimatesConservative
