SPECIFICATION NoYieldSpec
CONSTANTS
  Pcbs = {p1, p2, p3}
  UserSems = {s1}
  Devices = {}
  Clock = clock
  Prios = {0, 1}
  NULL = NULL
  MaxSem = 1
INVARIANTS
  SortedReady
PROPERTIES
  TopPriorityServed
