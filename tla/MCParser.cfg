CONSTANTS
  MaxAssignments = 3
  MaxDepth = 2
  Arities = {1, 2}
  Modifiers <- MCModifiers
SPECIFICATION Spec
INVARIANTS TypeOK OnePlace FileOrder ThrowsOnlyFor
CHECK_DEADLOCK FALSE
