SPECIFICATION FairSpec
CONSTANTS
  Modes = {"relay", "l1", "forward"}
  Kinds <- MCKinds
  Capacity = 1
  Watched = 3
  MaxSent <- MCMaxSent
INVARIANTS RefusedOnce
PROPERTIES Streams PumpedArrives
CHECK_DEADLOCK FALSE
