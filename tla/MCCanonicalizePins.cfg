CONSTANTS
  MaxEntities = 10
  Arity = 1
SPECIFICATION Spec
INVARIANT PinsFollowValues
CHECK_DEADLOCK FALSE
