SPECIFICATION FairSpec
CONSTANTS
  Threads = {"t1", "t2"}
  MaxRequests = 3
  MaxLives = 2
CHECK_DEADLOCK FALSE
INVARIANTS TypeOK UsedWhileAlive StopStays NothingLost
PROPERTY CallsReturn
