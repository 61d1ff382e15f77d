SPECIFICATION Spec
CONSTANTS
  Posts = {p1, p2, p3, p4}
  NoPost = NoPost
  Modes = {"breakers"}
  Backlog = 1
  PipeCap = 1
  MaxEvents = 0
  MaxFlaps = 1
INVARIANT Pairing
CHECK_DEADLOCK FALSE
