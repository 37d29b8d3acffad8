SPECIFICATION TrustSpec
CONSTANTS
  N = 3
  Coalescing = TRUE
  Threshold = 2
  Hazards <- OnlyCancel
  MaxFaults = 0
  NoFile = NoFile
INVARIANTS
  CheckpointTellsTruth
