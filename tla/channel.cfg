SPECIFICATION ReadingSpec
CONSTANTS
  Route = route
  Pingers = {ping}
  HasTimeout = TRUE
  Threshold = 2
  ResetAfter = 1
  WireCap = 1
  SinkCap = 1
  BackendIds = {1}
  MaxRequests = 3
  MaxEvents = 1
  MaxClock = 1
INVARIANTS OwnAnswer NoOrphanWaiter BreakerTracksStreak
PROPERTIES RequestSettles
CHECK_DEADLOCK FALSE
