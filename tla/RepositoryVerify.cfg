SPECIFICATION VerifySpec
CONSTANTS
  Data = {d1}
  Runs = {r1, r2}
  Names = {n1, n2}
  FlakyReads = TRUE
  Commands <- MCCommands
  MaxDamage = 1
SYMMETRY Symmetry
INVARIANTS RestorableUnlessLost PassedIsSound MissingIsLostOrNew
PROPERTIES KeepsPromise
CHECK_DEADLOCK FALSE
