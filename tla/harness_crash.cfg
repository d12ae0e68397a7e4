CONSTANTS
  NumRuns = 3
  Jobs = 2
  MaxInvocations = 2
  Faults <- Crashes
SPECIFICATION Spec
INVARIANTS SuccessHidesNoFailure ExitZeroMeansLabelled FreshRunDirectory LabelDescribesDirectory
PROPERTIES LabelsKept
