CONSTANTS
  Runs = {0, 1, 2}
  Failing = {0, 2}
  Sites = {0, 1, 2}
  NumFields <- MCNumFields
  Branches = {1}
  LocationOf <- MCLocationOf
  Interesting <- MCInteresting
  Samples <- MCSamples
  Programs <- MCPrograms
SPECIFICATION Spec
INVARIANT ObsIsComplete
