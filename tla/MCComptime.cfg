CONSTANTS
  T = T
  V = V
  A = A
  B = B
  C = C
  Entity <- MCEntity
  Programs <- MCPrograms
SPECIFICATION FairSpec
INVARIANTS
  TypeOK
  FlagsJustified
  Least
  Verdict
PROPERTIES
  Closes
  Terminates
CHECK_DEADLOCK FALSE
