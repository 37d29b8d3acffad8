SPECIFICATION TrustSpec
CONSTANTS
  N = 3
  Coalescing = TRUE
  Threshold = 2
  Hazards <- Anything
  MaxFaults = 2
  NoFile = NoFile
PROPERTIES
  WorkIsKept
