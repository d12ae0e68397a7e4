CONSTANTS
  NumRuns = 3
  Jobs = 2
  MaxInvocations = 2
  Faults <- NoFault
SPECIFICATION FairSpec
INVARIANTS CatalogSound
PROPERTIES ImplementsRunCatalog InvocationEnds
