CONSTANTS
  mac1 = mac1
  mac2 = mac2
  mac3 = mac3
  NoMac = NoMac
  Macs <- MCMacs
  MaxClients = 2
  MacHash <- MCMacHash
  AddrSpace = 32
  Net = 8
  HostMask = 7
  PoolEnvs <- MCPoolEnvs
  ReqAddrs <- MCReqAddrs

SPECIFICATION Spec

INVARIANTS
  OneLeasePerMac
  SharedOnlyByExhaustion
  AckRecorded
  OfferIsAcceptable

PROPERTIES
  LeasesKept
