SPECIFICATION FairSpec
CONSTANTS
  Backends = {a, b}
  Loop = loop
  Publishers = {p, q}
  AskIds = {1}
  Loads <- MCLoads
INVARIANTS RepliesGoHome AnsweredOnce UnsubscribedIsQuiet
PROPERTIES LoopGoesOn SurfaceSettles
CHECK_DEADLOCK FALSE
