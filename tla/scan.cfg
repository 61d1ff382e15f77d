SPECIFICATION FairSpec
CONSTANTS
  p = p
  q = q
  huge = huge
  Payloads = {p, q, huge}
  Oversize = {huge}
  Clean = Clean
  Bytes = Bytes
  Replaced = Replaced
  Undecodable = Undecodable
  None = None
  Host = Host
  Messages <- MCMessages
  Setups <- MCSetups
  MaxScans = 2
  Capacity = 1
INVARIANTS SkewIsLate OwnVerdict FailClosedVetted ForwardCarriesVerdicts
PROPERTIES ScanEnds
CHECK_DEADLOCK FALSE
