SPECIFICATION CarefulSpec
CONSTANTS
  Pcbs = {p1, p2, p3}
  UserSems = {s1}
  Devices = {d1}
  Clock = clock
  Prios = {0}
  NULL = NULL
  MaxSem = 1
INVARIANTS
  DeviceHandshake
  WaitEnds
PROPERTIES
  TopPriorityServed
  SoftWaiterServed
