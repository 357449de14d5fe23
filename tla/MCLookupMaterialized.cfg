CONSTANTS
  Programs <- MCPrograms
  DefaultNames <- MCNames
SPECIFICATION Spec
INVARIANT RejectedForCause
CHECK_DEADLOCK FALSE
