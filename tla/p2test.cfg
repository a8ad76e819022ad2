SPECIFICATION TestSpec
CONSTANTS
  Pcbs = {b1, b2, b3, b4, b5, b6, b7, b8}
  UserSems <- TestSems
  Devices <- MCDevices
  Clock = clock
  Prios = {0, 1, 10}
  NULL = NULL
  MaxSem = 3
  Instances <- MCInstances
INVARIANTS
  NoTestFails
  NeverPanics
PROPERTIES
  TestEnds
  LeavesTerminalAlone
