SPECIFICATION Spec
CONSTANTS
  Capacity = 2
  Parallel = FALSE
  Lengths <- MCLengths
  Skips <- MCNoSkips
  Uses <- MCDrops
CHECK_DEADLOCK FALSE
INVARIANT
  NoDangling
