SPECIFICATION FairSpec
CONSTANTS
  Pcbs = {p1, p2, p3}
  UserSems = {}
  Devices = {}
  Clock = clock
  Prios = {0, 1}
  NULL = NULL
  MaxSem = 0
PROPERTIES
  TopPriorityServed
