\* The components of the server that share no state, one of them per behaviour.
SPECIFICATION ServerSpec
CONSTANTS
  Parts = {"partitions", "outputs", "library", "stored", "statefile", "connection", "stickers", "queries",
           "syntax", "artwork", "mounts"}
  Connections = {1, 2}
  Devices = {"d1", "d2"}
  Names = {"a", "b"}
  Default = "default"
  MaxPartitions = 3
  MaxCreated = 3
  NoName = "-"
  Files = {"a", "d/b"}
  Folders = {"d"}
  FolderOf <- MCFolderOf
  Root = ""
  Plain = {"d"}
  Remote = {"m/r"}
  Mount = "m"
  Jobs = {1, 2}
  MaxVersion = 2
  MaxChanges = 1
  MaxRuns = 2
  Lists = {"p", "q"}
  Songs = {"a", "b", "g"}
  Known = {"a", "b"}
  Comment = "#"
  Foreign <- MCForeign
  Editors = {1, 2}
  Edits <- MCEdits
  Loads <- MCLoads
  FirstQueue <- MCFirstQueue
  NoPosition = NoPosition
  MaxEdits = 2
  Faults = TRUE
  Sessions <- MCSessions
  Fresh <- MCFresh
  Disabled = {{}, {"p"}, {"o", "p"}}
  ConfiguredOff = {"p"}
  KnownSets = {{1, 3}}
  NoSong = NoSong
  Zero = "zero"
  RestorePaused = FALSE
  Lines = {"ping", "albumart", "tagtypes", "command_list_begin", "command_list_ok_begin",
           "command_list_end", "idle", "noidle", "close", "password"}
  MaxLines = 4
  Password = TRUE
  Tags = {"Artist", "Mood"}
  DefaultTags = {"Artist"}
  AllTags = AllTags
  StickerClients = {1, 2}
  StickerSongs = {"s"}
  StickerNames = {"n", "m"}
  AllNames = "-"
  Word = Word
  Absent = Absent
  Deltas <- MCDeltas
  MaxI32 = 3
  Wraps = TRUE
  MaxWrites = 3
  Texts <- MCTexts
  NoText = ""
  Fold <- MCFold
  Within <- MCWithin
  Starting <- MCStarting
  TextOrder <- MCOrder
  KnownTags <- MCTags
  Chain <- MCChain
  Stores <- MCStores
  Questions <- MCQuestions
  TagWords = {"artist"}
  Quoted <- MCQuoted
  Instants <- MCInstants
  Numerals <- MCNumerals
  OtherWords = {"colour"}
  MaxTypos = 1
  ArtClients = {1, 2}
  CoverNames <- MCCovers
  Pictures <- MCPictures
  NoPicture = NoPicture
  ChunkSize = 2
  MaxSize = 4
  MaxRepaints = 2
  MaxFetches = 1
  Mounters = {1, 2}
  Points = {"x"}
  Shares = {"u", "v"}
  NoShare = "-"
  MaxMounts = 5
INVARIANTS
  ServerTypeOK
  OutputsFollow
  AnswersInStep
  StickersTold
  AnswersAgree
  FilterRead
  PictureWhole
  MountsListed
PROPERTIES
  CalmUpdateRepairs
  RemoteKept
  EditAsAsked
  LoadStandsTogether
  SnapshotKept
  RestoredAlike
CHECK_DEADLOCK FALSE
