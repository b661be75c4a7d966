SPECIFICATION Spec
CONSTANTS
  Root = "/"
  Children <- MCChildren
  Files = {"/f", "/d/g"}
  Nowhere = nowhere
  Servers <- MCServers
  Body <- MCBody
  Stamp <- MCStamp
  MinSize = 1
  MaxSize = 2
  MaxRetries = 1
  MaxReaders = 1
  MaxChanges = 2
  MaxFaults = 1
INVARIANTS Whole RoundLevels
PROPERTIES Converges
CHECK_DEADLOCK FALSE
