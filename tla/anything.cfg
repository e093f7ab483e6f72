SPECIFICATION Spec
CONSTANTS
  Capacity = 2
  Parallel = TRUE
  Lengths <- MCLengths
  Skips <- MCSkips
  Uses <- AllUses
CHECK_DEADLOCK FALSE
INVARIANTS
  TypeOK
  WaiterIsReachable
  SliceStaysGood
