SPECIFICATION Spec
CONSTANTS
  t = t
  Clients = {1, 2}
  ToolNames = {t}
  Scores = {1}
  MaxClient = 2
  MaxScore = 1
  NoTool = NoTool
  Callers = {k1}
  Fds = {3, 4}
  Catalogs <- OneCatalogue
  MaxReq = 3
  StopAllowed = FALSE
  Stopper = Stopper
  NoFd = NoFd
  NoConn = NoConn
  NoThread = NoThread
INVARIANTS
  CatalogueAnnounced
  CallsOK
  TimeoutMeansUnanswered
  TableIsBest
PROPERTIES
  ImplementsToolCalls
CHECK_DEADLOCK FALSE
