SPECIFICATION Spec
CONSTANTS
  Procs = {p1, p2}
  Displays = {0, 1}
  Nobody = Nobody
INVARIANTS
  StaleLockIsNobodys
CHECK_DEADLOCK FALSE
