CONSTANTS
  Mss = 1
  SeqMod = 32
  LocalIsn = 30
  PeerIsn = 29
  Roles = {"listen"}
  PeerData = 2
  PeerMss = 2
  AppData = 1
  ChunkSizes = {1}
  Windows = {9}
  LoneFin = TRUE
  MaxConns = 2

SPECIFICATION Spec

\* The connection may end, and no other be opened
CHECK_DEADLOCK FALSE

INVARIANTS
  TypeOK
  InOrderDelivery
  AcksOnlyDelivered
  NothingAfterFinal
