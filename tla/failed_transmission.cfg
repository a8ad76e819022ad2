SPECIFICATION Spec
CONSTANTS
  Procs = {p1, p2}
  NULL = NULL
  Failures = {4}
INVARIANTS
  ResultIsFinal
