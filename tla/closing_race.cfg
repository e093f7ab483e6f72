SPECIFICATION FairSpec
CONSTANTS
  Capacity = 2
  MaxItems = 3
  Lengths <- MCLengths
  Skips <- MCNoSkips
INVARIANT
  ClosingMeansDrained
