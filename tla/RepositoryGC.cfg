SPECIFICATION GCSpec
CONSTANTS
  Data = {d1, d2}
  Runs = {r1, r2}
  Names = {n1, n2}
  FlakyReads = TRUE
  TreeRuns = {r1}
SYMMETRY Symmetry
INVARIANTS ArchivesSpared
PROPERTIES NoGarbageLeft
CHECK_DEADLOCK FALSE
