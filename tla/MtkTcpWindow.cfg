CONSTANTS
  Mss = 2
  SeqMod = 32
  LocalIsn = 30
  PeerIsn = 29
  Roles = {"listen"}
  PeerData = 0
  PeerMss = 1
  AppData = 3
  ChunkSizes = {1, 2}
  Windows = {0, 9}
  LoneFin = TRUE
  MaxConns = 1

SPECIFICATION Spec

\* The connection may end, and no other be opened
CHECK_DEADLOCK FALSE

INVARIANT PeerGetsStream
