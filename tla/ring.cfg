\* Every interleaving of a writer and a reader on a buffer of three cells,
\* over more than two turns of the ring.
SPECIFICATION FairSpec
CONSTANTS
  Capacity = 3
  MaxItems = 8
  Lengths <- MCLengths
  Skips <- MCSkips
INVARIANTS
  TypeOK
  SlicesDisjoint
  ReadsInOrder
  Conserved
  WordOrdered
  NothingOutOfReach
  NoPanic
PROPERTIES
  ImplementsFifo
  Delivered
  ReclaimEnds
