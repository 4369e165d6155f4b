CONSTANTS
  NoConf = NoConf
  MaxCnt = 3
  FailCnts = {}
  Images = {"good", "bad"}

SPECIFICATION Spec

\* BL2 stops if no slot loads
CHECK_DEADLOCK FALSE

INVARIANTS
  BootsIfAnyGood
  UpgradeIsBooted
  SpareIsWritten
