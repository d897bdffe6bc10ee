SPECIFICATION Spec
CONSTANTS
  Apps = {"easyeda", "kicad"}
  Serial = {"easyeda"}
  Calls = {c1}
  Fds = {1, 2}
  MaxSessions = 2
  MaxOrders = 1
  NoApp = NoApp
INVARIANTS
  SessionsOK
  OutcomesAreTrue
  OverlapOnlyAbandoned
  OnlyLocksAndSendsBlockBridge
PROPERTIES
  StrangersOnlyByRace
  ImplementsToolCalls
CONSTRAINT OrdersInSerialCalls
CHECK_DEADLOCK FALSE
