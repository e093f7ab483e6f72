SPECIFICATION FairSpec
CONSTANTS
  Capacity = 2
  Parallel = FALSE
  Lengths <- MCLengths
  Skips <- MCNoSkips
  Uses <- MCNoUses
CHECK_DEADLOCK FALSE
PROPERTY
  ClosingIsSeen
