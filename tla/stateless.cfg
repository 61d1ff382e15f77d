SPECIFICATION FairStatelessSpec
CONSTANTS
  a = a
  b = b
  x = x
  secret = secret
  Backends <- MCBackends
  Tools <- MCTools
  Hidden = {secret}
  Requests <- MCRequests
  Garbled = Garbled
  Nobody = Nobody
  None = None
  ReplyCap = 1
  MaxRequests = 3
  MaxExtras = 1
INVARIANTS SkewIsExtra ResponsesPair CallsReachOwner
PROPERTIES LeftEnds
CHECK_DEADLOCK FALSE
