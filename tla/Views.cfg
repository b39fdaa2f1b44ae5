SPECIFICATION Spec
CONSTANTS
  Pids = {1, 2, 3}
  Argv <- MCArgv
  Ports = {8001}
  Port = 8000
  Tiers = {"cpu"}
  Files = {"f0", "f1"}
  RankOf <- MCRankOf
  Size <- MCSize
  Block = 3
  ChunkBytes = 2
  Delays = {2}
  MaxRequests = 2
  MaxTicks = 2
  AnyTier = AnyTier
  None = None
  NoScrape = NoScrape
  NoView = NoView
INVARIANTS
  ConfigOfScrapedServer
  RisesAreOfTheInterval
  FilesWereThere
  ChainsAreChains
CHECK_DEADLOCK FALSE
