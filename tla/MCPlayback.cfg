\* Two connections drive the player, in two workloads.
SPECIFICATION Spec
CONSTANTS
  c1 = c1
  c2 = c2
  Clients <- MCClients
  Manager = Manager
  Nobody = Nobody
  None = None
  Restored <- MCQueue3
  Ranged <- MCThird
  Foreign <- MCNone
  Workloads <- MCWorkloads
  Lasting = FALSE
  MaxCommands = 2
INVARIANTS
  StoppedIsSilent
  LookaheadRefed
PROPERTIES
  RecordedIsPlaying
CHECK_DEADLOCK FALSE
