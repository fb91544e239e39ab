SPECIFICATION FairSpec
CONSTANTS
  Hosts <- MCHosts
  Master = "m"
  Tasks <- MCTasks
  Host <- MCHost
  Cycle <- MCCycle
  StepFails = {"a"}
  MinTrigger = 1
  Modes = {"AFAP","SYSTEM_TIME"}
  MaxRuns <- RunOnce
  MaxTime <- MCTime
  MaxTicks = 1
  MaxFaults = 1
CHECK_DEADLOCK FALSE
INVARIANT StepTimeIsMasterTime
PROPERTIES FollowsLockStep NobodyWaitsForever
