CONSTANTS
  Cases = {1}
  Units = {"entries", "bounds"}
  Sites <- MCSites
  Fields <- MCFields
  Bounds = {"bounds"}
  Files <- WithBounds
  MaxImports = 1
SPECIFICATION Spec
PROPERTIES AbortIsDeserved
CHECK_DEADLOCK FALSE
