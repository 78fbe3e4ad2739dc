SPECIFICATION Spec
CONSTANTS
  Chatters = {a, b}
  Copies = 2
  Window = 1
  Restarting = {a}
  Relaunching = {a}
  MaxLines = 2
  MaxRuns = 2
  CloudNames <- FileNames
  PathOf <- Normalized
  Hidden = {}
  Absent = Absent
  Workers = {g, h}
  MaxChunks = 2
  MaxStreams = 1
  MaxCounts = 1
  Ints <- IntStats
  Floats <- FloatStats
  Achievements <- AchievementNames
  StatValues = {10, 11}
  Printed <- SixDigits
  WordOf <- FirstWords
  RestOf <- NoNumber
  MaxTime = 2
  MaxCalls = 3
  MaxStatRuns = 2
  BoardNames = {"x", "y"}
  FileOf <- OwnFiles
  Users = {p, q}
  NoUser = NoUser
  Scores = {1, 2}
  ReadsDir = TRUE
  MaxUploads = 3
  MaxProcesses = 2
  Unheard = Unheard
  Senders = {p, q}
  Channels = {0, 1}
  MaxBatch = 2
  MaxPackets = 3
  MaxClosings = 1
  MaxLives = 3
  MaxDatagrams = 2
  Callers = {g, h}
  NoImpl = NoImpl
  FixedPort = TRUE
  CallsDuringStop = FALSE
  MaxImpls = 3
  MaxStops = 3
  OverlayPumps = {g}
  MayShutDown = TRUE
  MaxAsks = 3
  MaxStarts = 2
INVARIANTS
  TypeOK ToldOnceInWindow OnlyCopiesDropped ScoresPersist RankTrue StatsKept
  FileIsLastWrite EnumeratedOnce SessionsAnnounced
  OneWindowThread BackendOutlivesUsers
PROPERTIES
  EventNamesAsker VisibilityReported LanComesBack PeersReachedAgain
CHECK_DEADLOCK FALSE
