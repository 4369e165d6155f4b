CONSTANTS
  MaxRetry = 2
  Images = {"good", "crashes"}
  Commands = {"mtkboardboot"}

SPECIFICATION FairSpec

INVARIANTS
  FailsOnlyIfNoGood

PROPERTIES
  MarkedAfterRetries
  BootEnds
