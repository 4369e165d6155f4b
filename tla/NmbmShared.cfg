SPECIFICATION Spec

CONSTANTS
  Mgmt = 2
  Sig = 9
  Spare = 1
  FactoryBad = {{1, 7}}
  Vals = {"a", "b"}
  None = "none"
  Env = {}
  MaxBad = 2
  MaxLoss = 0

INVARIANT NoSharedBlock

\* A chip with no block left for a table cannot be attached
CHECK_DEADLOCK FALSE
