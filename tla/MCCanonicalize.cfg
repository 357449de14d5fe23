CONSTANTS
  MaxEntities = 9
  Arity = 2
SPECIFICATION Spec
INVARIANTS
  TypeOK
  Canonical
  SortedSeesAll
  StaticsStay
PROPERTIES
  MeaningKept
  OldOrderKept
CHECK_DEADLOCK FALSE
