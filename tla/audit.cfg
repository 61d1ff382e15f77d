SPECIFICATION AuditSpec
CONSTANTS
  good = good
  bad = bad
  far = far
  near = near
  nowhere = nowhere
  key = key
  x = x
  y = y
  Keys = {key}
  None = None
  Crash = Crash
  Any = Any
  Conns = {c1, c2}
  Requests <- MCRequests
  Local = {near}
  Unknown = {nowhere}
  Chains <- MCChains
  Secret = Secret
  Forged = Forged
  MaxCalls = 3
INVARIANTS TamperEvident RoutedCallsPaired ShapedByAll
CHECK_DEADLOCK FALSE
