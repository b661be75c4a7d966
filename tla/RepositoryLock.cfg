SPECIFICATION LockFairSpec
CONSTANTS
  Procs = {p1, p2, p3}
  Timeout = 1
INVARIANTS NothingLeftBehind
PROPERTIES LockStands WaitReturns
CHECK_DEADLOCK FALSE
