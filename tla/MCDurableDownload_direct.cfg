SPECIFICATION TrustSpec
CONSTANTS
  N = 4
  Coalescing = FALSE
  Threshold = 0
  Hazards <- OrdinaryTrouble
  MaxFaults = 2
  NoFile = NoFile
INVARIANTS
  CheckpointTellsTruth
  OkIsWhole
PROPERTIES
  RecordedDataStays
