SPECIFICATION FairSpec
CONSTANTS
  Posts = {p1, p2, p3}
  NoPost = NoPost
  Modes = {"plain", "breakers", "pinged"}
  Backlog = 0
  PipeCap = 1
  MaxEvents = 2
  MaxFlaps = 1
INVARIANTS PlainPairing
PROPERTIES  DeletedEnds
CHECK_DEADLOCK FALSE
