CONSTANTS
  Programs <- MCPrograms
  DefaultNames <- MCNames
SPECIFICATION Spec
INVARIANT ArgumentsInScope
CHECK_DEADLOCK FALSE
