SPECIFICATION Spec
CONSTANTS
  MaxProc = 4
  MaxPid = 6
INVARIANTS
  TypeOK
  TreeConsistent
  PidsFound
PROPERTIES
  IsFamily
  Terminates
  RecursionBounded
CHECK_DEADLOCK FALSE
