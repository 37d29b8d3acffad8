INIT ComponentsInit
NEXT ComponentsNext
CONSTANTS
  PoolPeers = {"a", "b"}
  MaxPeers = 1
  Scores = {0, 1}
  EvictionThreshold = 1
  MinActive = 1
  InitialBackoff = 1
  MaxBackoff = 2
  StaleAfter = 2
  People = {"a", "b", "c"}
  Founder = "a"
  MaxMembers = 2
  Lifetime = 1
  Skew = 1
  MaxSeq = 3
  MaxIssued = 1
  MaxFaults = 1
  RelayIds = {"a", "b"}
  Capacity <- FirstTakesOne
  Region <- FirstAbroad
  Remotes = {"p"}
  MaxRelays = 2
  IdleAge = 1
  PunchAge = 1
  MaxCircuitIds = 2
  BridgePieces = {1, 2, 3}
  Mirrors = {"a"}
  Callers = {"c", "d"}
  CacheCapacity = 2
  PrefetchCount = 1
  Hottest = 2
  MaxWindow = 2
  MinStdDev = 1
  DeadY2 = 1
  MaxAge = 1
  PeerCount = 3
  Speeds = {0, 3}
  RegularSlots = 1
  Interval = 2
  Headroom = 1
  FloorBytes = 1
  MaxModifier = 3
  MaxBytes = 1
  KeepFor = 0
  Cycle = 2
  PieceCount = 2
  SeedPeers = {"a", "b"}
  MaxSeedPeers = 2
  OfferAge = 0
  SpreadAt = 2
  MaxOffers = 3
  Hosts = {"a", "b"}
  InfoHashes = {"x"}
  AnnounceInterval = 1
  StaleTimeout = 2
  MaxLpdPeers = 2
  Nodes = {{}, {0}, {2}, {0, 2}, {1, 2}}
  NetworkOf <- OneBitForeign
  Bits = 3
  K = 2
  Keys = {{0}}
  Values = {"u"}
  Askers = {{}}
  MaxSent = 1
  MaxProbes = 2
  NumPaths = 2
  Hashes = {"g", "h"}
  Torrents = {"t"}
  NoTorrent = "none"
  GroupMirrors = {"m"}
  Prefix = {1}
  MaxVersions = 2
  MaxFailedSteps = 1
  CachePieces = {1, 2, 3, 4}
  PieceBytes <- FirstIsLarge
  Budgets = {0, 2, 3}
  GhostUnit = 1
  MinGhosts = 2
  EstablishedAt = 2
  TrustedAt = 3
  BaseExclusion = 1
  MaxExclusion = 2
  SharedAt = 1
  SubnetAt = 2
  MaxEvents = 3
  MaxSessions = 2
  MaxTicks = 1
  Publishers = {p1}
  Resources = {r1}
  NumSources = 2
  MaxAnnouncements = 3
  MaxDrift = 0
  MaxJump = 1
  MaxCount = 2
  Window = 1
  LastSecond = 2
  Packages = {pa, pb}
  MaxVersion = 2
  MaxReleases = 2
  MaxEdits = 3
  Owned = {"allied", "decade", "nod", "steamCnc"}
  MaxCommands = 2
  Clients = {"a"}
  Burst = 2
  Transfers = {"s", "t"}
  Chunk = 2
  Rates = {0, 1, 3}
  MinBurst = 2
  BurstFactor = 2
  Conns = {1, 2, 3}
  PeerOf <- LastToAnother
  MaxEstablished = 2
  MaxPending = 2
  MaxPerPeer = 1
  TierPieces = {1}
  Blocks = {1, 2}
  Users = {"u", "v"}
  MaxErrors = 1
  Addresses = {"a", "b"}
  MaxMirrors = 1
  MaxFailures = 2
  ProbeInterval = 2
  PruneAge = 3
  MaxUnderWay = 2
  MaxMirrorAge = 4
  MaxProgress = 2
INVARIANTS
  RolesAreSound
  RelaysCountCircuits
  EveryoneHasATurn
  LossesAreForgiven
  TablesAreSound
  CachesAreExact
  AcceptedInBounds
  LockIsSound
  StoreIsNotEclipsed
  NoErrorMeansInstalled
  RatesAreKept
  BudgetIsExact
  MigrationIsInvisible
PROPERTIES
  ReturnsAreEarned
  DiversityFirst
  BlameIsKept
  FollowersAreFaithful
  AnotherChance
  LifecycleIsOrderly
