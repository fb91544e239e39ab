SPECIFICATION FairSpec
CONSTANTS
  MaxTicks = 2
  MaxMStarts = 2
  MaxSStarts = 2
  MaxTimeouts = 2
INVARIANTS AnsweredMeansSynced WorkerEndsCleanly
PROPERTIES RegistrationSucceeds CallsReturn
CHECK_DEADLOCK FALSE
