SPECIFICATION TimedSpec
CONSTANTS
  Pcbs = {p1, p2}
  UserSems = {s1}
  Devices = {d1}
  Clock = clock
  Prios = {0}
  NULL = NULL
  MaxSem = 1
  MaxTime = 3
SYMMETRY Symmetry
INVARIANTS
  TimedTypeOK
  NothingLost
  ChargedExactly
