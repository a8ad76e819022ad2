SPECIFICATION Spec
CONSTANTS
  Procs = {p1, p2}
  NULL = NULL
  Failures = {}
INVARIANTS
  OperationsMatchWaiters
  ResultIsFinal
PROPERTIES
  OperationAnswered
