\* single is on and a song ends.
SPECIFICATION FairSpec
CONSTANTS
  c1 = c1
  c2 = c2
  Clients <- MCClients
  Manager = Manager
  Nobody = Nobody
  None = None
  Restored <- MCQueue3
  Ranged <- MCNone
  Foreign <- MCNone
  Workloads <- MCSingle
  Lasting = TRUE
  MaxCommands = 1
PROPERTIES
  CommandsComplete
CHECK_DEADLOCK FALSE
