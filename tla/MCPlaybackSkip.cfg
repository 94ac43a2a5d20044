\* A listener skips to the next song.
SPECIFICATION Spec
CONSTANTS
  c1 = c1
  c2 = c2
  Clients <- MCClients
  Manager = Manager
  Nobody = Nobody
  None = None
  Restored <- MCQueue3
  Ranged <- MCNone
  Foreign <- MCNone
  Workloads <- MCSkip
  Lasting = TRUE
  MaxCommands = 2
INVARIANTS
  LookaheadFollows
CHECK_DEADLOCK FALSE
