SPECIFICATION FairSpec
CONSTANTS
  Receivers = {"r1", "r2"}
  Workers = {"w1", "w2"}
  Listeners = {"l"}
  Pool = 2
  Kinds = {"good", "bad", "big"}
  MaxSignals = 1
  MaxSamples = 3
  MaxEnables = 2
  MaxChanges = 1
  Rush = FALSE
CHECK_DEADLOCK FALSE
INVARIANTS ContainersAccounted NoDeadReceiver
PROPERTIES DeliveredInOrder ListKeptInUpdate DisableCompletes
