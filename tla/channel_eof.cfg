SPECIFICATION ReadingSpec
CONSTANTS
  Route = route
  Pingers = {ping}
  HasTimeout = FALSE
  Threshold = 2
  ResetAfter = 1
  WireCap = 1
  SinkCap = 1
  BackendIds = {1}
  MaxRequests = 3
  MaxEvents = 0
  MaxClock = 0
PROPERTY EofReleasesWaiters
CHECK_DEADLOCK FALSE
