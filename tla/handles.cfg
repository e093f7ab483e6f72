\* Two threads that share the buffer, and up to three handles of two splits.
SPECIFICATION Spec
CONSTANTS
  Capacity = 2
  Owners = {o1, o2}
  Handle = {h1, h2, h3}
  Lengths <- MCLengths
  Skips <- MCSkips
  MaxSplits = 2
  None = None
SYMMETRY Symmetry
\* Nothing is left to do once the last pointer is dropped.
CHECK_DEADLOCK FALSE
INVARIANTS
  TypeOK
  HandlesAreUnique
  SlicesApart
  WordSurvives
  LiveSideIsOpen
  PanicsExplained
