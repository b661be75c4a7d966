SPECIFICATION Spec
CONSTANTS
  p1 = p1
  p2 = p2
  w1 = w1
  w2 = w2
  Places = {p1, p2}
  First = p1
  Passphrases = {w1, w2}
  None = None
  MaxTasks = 3
  MaxCrashes = 1
SYMMETRY Symmetry
INVARIANTS KeyFits ReportedOpens
CHECK_DEADLOCK FALSE
