SPECIFICATION Spec
CONSTANTS
  Strings <- MCStrings
  BlockSize = 4
INVARIANTS TypeOK Intact
PROPERTY Interns
