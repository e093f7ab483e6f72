SPECIFICATION FairSpec
CONSTANTS
  Capacity = 2
  MaxItems = 3
  Lengths <- MCLengthsWithZero
  Skips <- MCNoSkips
INVARIANT
  WordOrdered
