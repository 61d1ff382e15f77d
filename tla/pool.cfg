SPECIFICATION FairSpec
CONSTANTS
  Calls = {c1, c2}
  Tasks = {t1}
  Cap = 1
  Idle = 1
  Drain = 1
INVARIANTS PermitsConserved NoStaleHandleSerial CancelledIsSilent DrainKeepsWindow WorkingIsWorkedOn
PROPERTIES CallSettles
CHECK_DEADLOCK FALSE
