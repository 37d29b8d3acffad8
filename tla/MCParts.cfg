SPECIFICATION PartsSpec
CONSTANTS
  StealSize = 11
  FileSize = 4
  Arrivals <- Ranges
  Lengths = {1, 3}
  MinPrebuffer = 2
  Threads = 3
  MinChunk = 2
  Chunk = 2
  Peers = {p1, p2, p3, p4}
  MaxSlots = 2
  MaxQueue = 2
  MaxWait = 2
  LastTick = 3
  Horizon = 3
  MaxActive = 2
  Priorities = {0, 1}
  MaxHandles = 4
  Coarse = TRUE
  TrueSize = 2
  Claims = {0, 1, 2, 3, 4}
  MaxMetadataSize = 3
  Slots = {s1, s2}
  MaxMisdeeds = 3
INVARIANT RangesAreExact
PROPERTIES
  ReadsAreSound
  EveryoneGetsThrough
  QueueIsFair
  ActivationIsFair
  MetadataArrives
