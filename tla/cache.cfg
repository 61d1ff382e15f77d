SPECIFICATION FairSpec
CONSTANTS
  alice = alice
  bob = bob
  Conns = {alice, bob}
  Principal <- MCPrincipal
  Backends = {b1}
  Lists = {tools}
  DefaultTtl = 2
  MaxTtl = 2
  MaxVersion = 1
INVARIANTS PrivateStays StaleOnlyByOverlap
CHECK_DEADLOCK FALSE
