\* The locks alone: a client skips while two edit.
SPECIFICATION SharedSpec
CONSTANTS
  Parts = {"locks"}
  s1 = s1
  s2 = s2
  r1 = r1
  t1 = t1
  v1 = v1
  v2 = v2
  pl = pl
  None = None
  Songs <- MCSongs
  Priorities <- MCPrios
  Ranges <- MCRanges
  Tags <- MCTags
  Values <- MCValues
  Playlists <- MCNames
  IdSpace = 16
  MaxLen = 3
  MaxVersion = 5
  IdLimit = 5
  ch1 = ch1
  x1 = x1
  a = a
  b = b
  Channels <- MCChannels
  Texts <- MCTexts
  MaxMessages = 2
  MaxClients = 2
  Conns <- MCConns
  Subsystems <- MCSubsystems
  Filters <- MCSteady
  BusCap = 2
  MaxSubscriptions = 1
  MaxEvents = 3
  Failures = TRUE
  c1 = c1
  c2 = c2
  c3 = c3
  Tasks <- MCTasks
  Mixes <- MCSkipping
INVARIANTS
  NoWaitCycle
CHECK_DEADLOCK FALSE
