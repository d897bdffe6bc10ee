SPECIFICATION MCSpec
CONSTANTS
  h1 = h1
  Hosts = {h1, h2}
  Workers = {1, 2}
  MaxPosts = 2
  NoHost = NoHost
  NoOne = NoOne
INVARIANTS
  ConfigOK
PROPERTIES
  PollsRepair
  OnlyDisabledProbeBlocks
ACTION_CONSTRAINTS
  EarlyCalls
  EarlyRefusals
CHECK_DEADLOCK FALSE
