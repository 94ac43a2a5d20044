\* What the connections share, one component per behaviour: every method of the queue
\* in any order; two connections, which may break, with their idles; three tasks over
\* the locks.
SPECIFICATION FairShared
CONSTANTS
  Parts = {"queue", "messaging", "locks"}
  s1 = s1
  s2 = s2
  r1 = r1
  t1 = t1
  v1 = v1
  v2 = v2
  pl = pl
  None = None
  Songs <- MCSongs
  Priorities <- MCPrios
  Ranges <- MCRanges
  Tags <- MCTags
  Values <- MCValues
  Playlists <- MCNames
  IdSpace = 16
  MaxLen = 3
  MaxVersion = 5
  IdLimit = 5
  ch1 = ch1
  x1 = x1
  a = a
  b = b
  Channels <- MCChannels
  Texts <- MCTexts
  MaxMessages = 2
  MaxClients = 2
  Conns <- MCConns
  Subsystems <- MCSubsystems
  Filters <- MCSteady
  BusCap = 1
  MaxSubscriptions = 1
  MaxEvents = 3
  Failures = TRUE
  c1 = c1
  c2 = c2
  c3 = c3
  Tasks <- MCTasks
  Mixes <- MCMixes
INVARIANTS
  ItemsAddressed
  BooksAgree
  NoLostWakeup
  NoLostChange
  NoWaitCycle
PROPERTIES
  IdsNeverReused
  VersionTellsChange
  ItemsKeepTheirData
  WakesUp
CHECK_DEADLOCK FALSE
