SPECIFICATION Spec
CONSTANTS
  MaxPosts = 2
  MaxFailures = 1
  MaxLives = 1
  MaxRetries = 1
  LocalEvents = {"StartupDone", "Initialize"}
  Commands = {}
INVARIANT ErrorIsTriggered
