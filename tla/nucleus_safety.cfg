SPECIFICATION Spec
CONSTANTS
  Pcbs = {p1, p2, p3}
  UserSems = {s1}
  Devices = {d1}
  Clock = clock
  Prios = {0, 1}
  NULL = NULL
  MaxSem = 2
SYMMETRY Symmetry
INVARIANTS
  TypeOK
  OnePlace
  CountersExact
  SemaphoreAgrees
  FamilyTree
  StopJustified
PROPERTIES
  NoOvertaking
