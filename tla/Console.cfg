CONSTANTS
  Sessions = {"t1", "t2"}
  Requests = {"w1", "w2"}
  None = "none"
  MaxCmds = 3
  Env = {}

SPECIFICATION Spec

\* The clients may all have left
CHECK_DEADLOCK FALSE

INVARIANTS
  OneCommand
  EachRunsOnce
  AbortIsOwn
  NoUseAfterFree
  OutputIsOwn

PROPERTY
  NobodyStaysBusy
