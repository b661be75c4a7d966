SPECIFICATION Spec
CONSTANTS
  Repos = {r1, r2}
  None = none
  Pending = pending
  MaxRuns = 2
  MaxExports = 1
SYMMETRY Symmetry
INVARIANTS RunsGetTheirs FiledAsOpened WaitersAreAsked NoStrayBackup
CHECK_DEADLOCK FALSE
