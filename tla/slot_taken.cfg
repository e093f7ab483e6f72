SPECIFICATION Spec
CONSTANTS
  Capacity = 2
  Parallel = TRUE
  Lengths <- MCLengths
  Skips <- MCNoSkips
  Uses <- MCNoUses
CHECK_DEADLOCK FALSE
INVARIANT
  SlotIsFree
