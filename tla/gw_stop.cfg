SPECIFICATION FairSpec
CONSTANTS
  t = t
  Clients = {1}
  ToolNames = {t}
  Scores = {1}
  MaxClient = 2
  MaxScore = 1
  NoTool = NoTool
  Callers = {k1}
  Fds = {3}
  Catalogs <- OneCatalogue
  MaxReq = 2
  StopAllowed = TRUE
  Stopper = Stopper
  NoFd = NoFd
  NoConn = NoConn
  NoThread = NoThread
INVARIANTS
  ClosedLeavesNothing
PROPERTIES
  OnlyLockCycleBlocks
CHECK_DEADLOCK FALSE
