CONSTANTS
  NumRequests = 3
  Header = 1
  Cache = 3
  Sizes = {1, 2}
  Env = {"splitPost"}

SPECIFICATION Spec

\* The failsafe ends, or no client is left
CHECK_DEADLOCK FALSE

INVARIANTS
  OneWriter
  FlashedIsUploaded
  WrittenOnce
  ActsOnConfirmed

PROPERTY
  UploadReopens
  ConfirmedBoots
