SPECIFICATION FairSpec
CONSTANTS
  MaxPosts = 4
  MaxFailures = 1
  MaxLives = 1
  MaxRetries = 1
  LocalEvents = {"StartupDone", "Initialize", "InitDone"}
  Commands = {"Start", "Shutdown"}
INVARIANTS TypeOK StateIsPublic ShutdownIsFinal VetoCounts
PROPERTIES FollowsDiagram ShutdownReturns
