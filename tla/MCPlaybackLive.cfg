\* One listener; nothing fails and no song is over at once.
SPECIFICATION FairSpec
CONSTANTS
  c1 = c1
  c2 = c2
  Clients <- MCClients
  Manager = Manager
  Nobody = Nobody
  None = None
  Restored <- MCQueue3
  Ranged <- MCThird
  Foreign <- MCSecond
  Workloads <- MCListen
  Lasting = TRUE
  MaxCommands = 2
PROPERTIES
  CommandsComplete
  PlaysThrough
CHECK_DEADLOCK FALSE
