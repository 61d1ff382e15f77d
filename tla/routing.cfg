SPECIFICATION Spec
CONSTANTS
  None = None
  Chars <- MCChars
  Raw = Raw
  Failed = Failed
  Backends <- MCBackends
  Handlers <- MCHandlers
  Configs <- MCConfigs
  Tools <- MCTools
  Surfaces <- MCSurfaces
  TaskIds <- MCTaskIds
  PageSize = 1
  MaxRequests = 3
  MaxChanges = 1
INVARIANTS  CursorStaysBound ChainComplete LeftOutIsTold TasksGoHome
CHECK_DEADLOCK FALSE
