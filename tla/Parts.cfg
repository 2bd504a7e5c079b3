SPECIFICATION PartsSpec
CONSTANTS
  Clients = {p1, p2}
  Managers = {m1, m2}
  p1 = p1
  p2 = p2
  m1 = m1
  m2 = m2
  NoWaiters = {p2}
  NoSeg = NoSeg
  Segs = {s1, s2}
  ProcMax = 2
  Casts <- MCCasts
  MaxObjects = 1
  MaxCrashes = 1
  MaxConnects = 4
  SubaSize = 36
  SubaHdr = 4
  POFF = 2
  ALIGNMASK = 1
  MinCell = 2
  SubaAsks = {1,4,5}
  TlsfSize = 100
  TlsfHdr = 4
  FLI_OFFSET = 3
  MAX_LOG2_SLI = 2
  REAL_FLI = 5
  MIN_BLOCK_SIZE = 12
  TlsfAsks = {8,17,34}
  NObj = 2
  HistorySize = 2
  BufSize = 2
  KnownMax = 1
  Sessions <- MCSessions
  Files <- MCFiles
  Sources = {1,2,3,4}
  Interval = 2
  Garbage = {1,9}
  Options <- MCOptions
  Commands <- MCCommands
  MaxCommands = 3
  MaxRounds = 3
  MaxRefused = 1
  Searchers = {u1, u2}
  Changers = {v1}
  SearchSlots = {1,2}
  Types = {1}
  MaxOid = 2
  MaxChanged = 1
  Calls <- MCCalls
  MaxCalls = 2
  NoProcess = NoProcess
  SERIALS = 2
  MaxDelay = 1
  MaxRequests = 3
  MaxRemote = 3
  MaxVersion = 2
  ApiCalls <- MCApi
  PlayRemotes = {g1, g2}
  MaxClock = 2
  MaxWrites = 3
  RingSize = 3
  MaxStatus = 4
INVARIANTS PartsTypeOK SlotsAreRight ReadyBeforeEntered NothingLeftBehind FreeMemoryIsListed RecordedBlocksAreWhole LossIsNoticed NoObjectIsMissed MapIsExact PlaybackIsFaithful LookupIsNear MetaLockIsExclusive SleepersMissNothing CommandsAreObeyed ValidImageIsOneBlock
PROPERTIES LivingKeepTheirObjects HeapsAreHeaps AnswersAreTrue NothingIsSkipped
CHECK_DEADLOCK FALSE
