SPECIFICATION TrustSpec
CONSTANTS
  N = 3
  Coalescing = FALSE
  Threshold = 0
  Hazards <- OnlyReverify
  MaxFaults = 0
  NoFile = NoFile
INVARIANTS
  OkIsWhole
