\* Every buffer an eight-bit word can serve, with two threads printing it.
SPECIFICATION FairSpec
CONSTANTS
  Bits = 8
  Sizes <- MCSizes
  Printers = {p1, p2}
INVARIANTS
  TypeOK
  FieldsKeepTheirPlace
  BusyIsHeld
PROPERTIES
  FieldsMoveAsRwState
  GuardIsPassedOn
