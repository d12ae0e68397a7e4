CONSTANTS
  Cases = {1, 2}
  Units = {"branches", "entries"}
  Sites <- MCSites
  Fields <- MCFields
  Bounds = {}
  Files <- MCFiles
  MaxImports = 2
SPECIFICATION Spec
INVARIANTS RunsRenumbered CountsAdded
PROPERTIES AbortIsDeserved
CHECK_DEADLOCK FALSE
