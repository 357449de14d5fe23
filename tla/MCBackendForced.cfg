SPECIFICATION Spec
CONSTANTS
  Programs <- MCPrograms
  MaxEntities = 150
CHECK_DEADLOCK FALSE
INVARIANT ForciblyInlined
