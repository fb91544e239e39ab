SPECIFICATION FairSpec
CONSTANTS
  Receivers = {"r1"}
  Workers = {"w1", "w2"}
  Listeners = {}
  Pool = 2
  Kinds = {"good"}
  MaxSignals = 1
  MaxSamples = 2
  MaxEnables = 1
  MaxChanges = 0
  Rush = FALSE
CHECK_DEADLOCK FALSE
PROPERTY QueuedIsProcessed
