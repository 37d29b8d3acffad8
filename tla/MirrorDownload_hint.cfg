SPECIFICATION Spec
CONSTANTS
  Counts = {1, 3}
  Size = 4
  Hints = {0, 3, 4, 6}
  DiskErrors = 1
INVARIANTS
  AnApproximateHintSuffices
