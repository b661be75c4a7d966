SPECIFICATION Spec
CONSTANTS
  Names = {"a"}
  NewName = "new"
  Plans = {"daily"}
  Manual = "manual"
  NewPlan = "daily"
  FirstRows <- MCFirstRows
  MaxOps = 2
  MaxListed = 1
  MaxErrors = 1
  MaxStarts = 2
INVARIANTS LoopsFollow
PROPERTIES DeletedStays SchedulerCatchesUp
CHECK_DEADLOCK FALSE
