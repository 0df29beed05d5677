SPECIFICATION FairSpec
INVARIANTS RunsOnce
PROPERTIES CancelStands 
CONSTANTS
  Plans <- MCPlans
  MaxSchedules = 2
  PlanTicks = 2
  GraceTicks = 1
  MaxTime = 3
  MaxPlans = 2
  MaxIds = 4
  MaxFailures = 1
  MaxCrashes = 1
CHECK_DEADLOCK FALSE
