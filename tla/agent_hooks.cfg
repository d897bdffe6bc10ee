SPECIFICATION Spec
CONSTANTS
  Hooks = {h1, h2}
  Uses = {u1, u2}
  Providers = {"claude", "cursor"}
  MaxIds = 1
  MaxEvents = 4
  NoUse = NoUse
INVARIANTS
  StateOK
  UndisturbedIsExact
PROPERTIES
  CallsAreKept
SYMMETRY Symmetry
CHECK_DEADLOCK FALSE
