SPECIFICATION Spec

CONSTANTS
  Mgmt = 2
  Sig = 11
  Spare = 1
  FactoryBad = {{1}}
  Vals = {"a", "b"}
  None = "none"
  Env = {}
  MaxBad = 2
  MaxLoss = 2

INVARIANTS
  NoSharedBlock
  DataSurvives
  StoredIsCurrent

PROPERTIES
  NeverRollsBack

\* A chip with no block left for a table cannot be attached
CHECK_DEADLOCK FALSE
