CONSTANTS
  Mss = 1
  SeqMod = 32
  LocalIsn = 30
  PeerIsn = 29
  Roles = {"connect"}
  PeerData = 1
  PeerMss = 1
  AppData = 2
  ChunkSizes = {1, 2}
  Windows = {9}
  LoneFin = TRUE
  MaxConns = 1

SPECIFICATION FairSpec

\* The connection may end, and no other be opened
CHECK_DEADLOCK FALSE

INVARIANTS
  PeerGetsStream

PROPERTIES
  SentMeansReceived
  HalfClosedEnds
