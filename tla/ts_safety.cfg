SPECIFICATION FairSpec
CONSTANTS
  Timers <- MCTimers
  Period <- MCPeriod
  Delay <- MCDelay
  MaxTime = 3
  MaxRuns = 2
  MaxFailures = 1
CHECK_DEADLOCK FALSE
INVARIANT ClockWaitsForJob
PROPERTIES NothingOverdue NoInstantLeftOut NobodyWaitsForever
