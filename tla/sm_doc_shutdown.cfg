SPECIFICATION FairSpec
CONSTANTS
  MaxPosts = 2
  MaxFailures = 0
  MaxLives = 1
  MaxRetries = 2
  LocalEvents = {"StartupDone", "Initialize"}
  Commands = {}
PROPERTY ShutdownCompletes
