\* Two tasks of one executor thread that move an endless stream span by span.
SPECIFICATION RingSpec
CONSTANTS
  Capacity = 3
  Parallel = FALSE
  Lengths <- MCLengths
  Skips <- MCNoSkips
  Uses <- MCNoUses
  Spans <- MCSpans
  Labels = 4
CHECK_DEADLOCK FALSE
INVARIANTS
  RingTypeOK
  NoPanic
  NoDangling
  WaiterIsReachable
  OneWaiter
  WokenWithRoom
  ReadsInOrder
PROPERTIES
  WriterProceeds
  ImplementsChannel
  AllIsRead
