SPECIFICATION FairSpec
CONSTANTS
  Readers = {r1}
  Depth = 2
  Dump = FALSE
  Together = TRUE
  MaxLength = 3
  MaxSamples = 4
  MaxRuns = 2
  MaxLost = 2
  MaxResets = 1
  MaxWire = 1
  MaxCalls = 1
INVARIANTS EventMatchesStock 
PROPERTIES DeliveredOnce ReadFrameStays LossesReported ThreadServes
