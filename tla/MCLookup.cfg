CONSTANTS
  Programs <- MCPrograms
  DefaultNames <- MCNames
SPECIFICATION Spec
INVARIANTS
  TypeOK
  NothingMissed
  ParametersOnce
  NeighborsFound
  CallsFit
PROPERTY BindsLexically
CHECK_DEADLOCK FALSE
