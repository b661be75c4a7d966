SPECIFICATION FairSpec
CONSTANTS
  Jobs = {1, 2}
  Period <- MCPeriod
  Priority <- MCPriority
  MissedGap <- MCMissedGap
  Requests = {q1}
  Threshold = 2
  Gap = 1
  Soon = 1
  MaxTime = 3
  MaxErrors = 1
  MaxStarts = 1
INVARIANTS StatusTruthful FailuresMatchHistory StreakAlerted
PROPERTIES AlertsSpaced DueRuns
CHECK_DEADLOCK FALSE
