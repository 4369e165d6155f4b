CONSTANTS
  SessionCmds = {"net", "unready", "wget", "named", "dhcpd_start", "dhcpd_stop"}
  CliCmds = {"net", "unready", "wget", "named", "dhcpd_start", "dhcpd_stop"}

SPECIFICATION FairSpec

INVARIANTS
  NoHandlerCycle
  ServedAtRx
  NoStoppedHandler

PROPERTIES
  ServiceRestored
