SPECIFICATION Spec
CONSTANTS
  Capacity = 2
  Parallel = FALSE
  Lengths <- MCLengths
  Skips <- MCNoSkips
  Uses <- MCCancels
CHECK_DEADLOCK FALSE
INVARIANT
  PollsAgain
