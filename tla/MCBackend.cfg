SPECIFICATION Spec
CONSTANTS
  Programs <- MCPrograms
  MaxEntities = 150
CHECK_DEADLOCK FALSE
INVARIANTS TypeOK InScope MeaningKept NothingLeft FailsForCause HangsForCause
