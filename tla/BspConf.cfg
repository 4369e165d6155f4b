CONSTANTS
  Vals = {0, 1, 2}
  NoVal = NoVal
  ZeroVal = 0
  MaxCnt = 5
  FailCnts = {1, 2, 3}

SPECIFICATION Spec

INVARIANTS
  CleanMeansStored

PROPERTIES
  ImplementsAtomicConf
