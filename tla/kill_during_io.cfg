SPECIFICATION OneOperationSpec
CONSTANTS
  Pcbs = {p1, p2}
  UserSems = {}
  Devices = {d1}
  Clock = clock
  Prios = {0}
  NULL = NULL
  MaxSem = 2
INVARIANTS
  IOWaiterHasOperation
