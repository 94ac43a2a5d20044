\* One connection: play, edit, add after the current song.
SPECIFICATION Spec
CONSTANTS
  s1 = s1
  s2 = s2
  r1 = r1
  t1 = t1
  v1 = v1
  pl = pl
  c1 = c1
  c2 = c2
  None = None
  Songs <- MCSongs
  Remote <- MCRemote
  Priorities <- MCPrios
  Ranges <- MCRanges
  Tags <- MCTags
  Values <- MCValues
  Playlists <- MCNames
  IdSpace = 32
  U32 = 32
  Clients <- MCPair
  Workloads <- MCRelative
  MaxChanges = 3
  MaxItems = 4
PROPERTIES
  CurrentPositionIsCurrent
CHECK_DEADLOCK FALSE
