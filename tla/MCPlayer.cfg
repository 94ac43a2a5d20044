\* The playback thread, the outputs of one MultiOutput, and two kinds of output.
SPECIFICATION PlayerSpec
CONSTANTS
  Parts = {"fanout", "thread", "device", "httpd"}
  Outputs = 2
  Depth = 1
  MaxChunks = 3
  MaxPauses = 2
  s1 = s1
  s2 = s2
  s3 = s3
  Songs <- MCSongs
  None = None
  Buffer = 2
  Crossfade = 6
  Windows = {4, 1}
  DsdRates <- MCDsdRates
  DeviceRate = 2
  Supported = {1, 4}
  DopEnabled = TRUE
  OutputSets = {{}, {"a"}}
  Ranges <- MCRanges
  SeekTo = {0, 4, 9}
  Faults = TRUE
  MaxCalls = 3
  MaxSeeks = 2
  Backends <- MCBackends
  Chunk = 2
  LineDepth = 2
  MaxUnits = 7
  Listeners = {"l1", "l2"}
  MetaInt = 3
  Header = 2
  Sizes = {1, 4}
  MaxSent = 8
  Titles = {"t"}
  NoTitle = "-"
INVARIANTS
  PlayerTypeOK
  PauseObeyed
  NothingLost
  PositionTrue
  DeviceMatchesSong
  ListenersAligned
PROPERTIES
  CallsReturn
  AdvanceNearEnd
CHECK_DEADLOCK FALSE
