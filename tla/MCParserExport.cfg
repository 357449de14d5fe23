CONSTANTS
  MaxAssignments = 3
  MaxDepth = 2
  Arities = {1, 2}
  Modifiers <- MCModifiers
SPECIFICATION Spec
INVARIANT NamespacesExportable
CHECK_DEADLOCK FALSE
