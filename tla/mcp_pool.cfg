SPECIFICATION FairSpec
CONSTANTS
  Workers = {w1, w2}
  Notifier = Notifier
  Ids = {i1}
  MaxObj = 2
  MaxSessions = 2
  MaxMsg = 0
  IdleLimit = 0
  StopAllowed = TRUE
  NoId = NoId
PROPERTIES
  PoolRecovers
CHECK_DEADLOCK FALSE
