CONSTANTS
  NumRuns = 2
  Jobs = 1
  MaxInvocations = 2
  Faults <- AllFaults
SPECIFICATION FairSpec
INVARIANTS TypeOK ChildrenCounted
PROPERTIES OrphansEnd
