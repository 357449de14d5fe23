SPECIFICATION Spec
CONSTANTS
  Programs <- MCPrograms
  MaxEntities = 100
  Word = 128
CHECK_DEADLOCK FALSE
INVARIANTS TypeOK Expanded RegistersGiven
PROPERTY Ends
