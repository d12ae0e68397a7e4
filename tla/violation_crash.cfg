CONSTANTS
  NumRuns = 2
  Jobs = 2
  MaxInvocations = 2
  Faults <- Crashes
SPECIFICATION Spec
INVARIANT CatalogSound
