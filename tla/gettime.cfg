SPECIFICATION TimedSpec
CONSTANTS
  Pcbs = {p1, p2}
  UserSems = {s1}
  Devices = {}
  Clock = clock
  Prios = {0}
  NULL = NULL
  MaxSem = 1
  MaxTime = 2
INVARIANTS
  NoMoreCpuThanRealTime
