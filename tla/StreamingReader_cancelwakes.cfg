SPECIFICATION Spec
CONSTANTS
  FileSize = 2
  Arrivals <- Ranges
  Lengths = {1, 3}
  MinPrebuffer = 2
INVARIANTS
  CancelWakes
