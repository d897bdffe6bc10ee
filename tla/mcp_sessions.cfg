SPECIFICATION Spec
CONSTANTS
  Workers = {w1, w2}
  Notifier = Notifier
  Ids = {i1, i2}
  MaxObj = 2
  MaxSessions = 1
  MaxMsg = 2
  IdleLimit = 0
  StopAllowed = FALSE
  NoId = NoId
SYMMETRY Symmetry
INVARIANTS
  TableOK
  ClosedSessionsLeave
  RegistryAgrees
  MessagesInOrderOnce
CHECK_DEADLOCK FALSE
