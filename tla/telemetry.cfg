SPECIFICATION Spec
CONSTANTS
  MaxSteps = 2
  MaxTime = 3
  HourTicks = 2
  Retention = 1
  MaxStarts = 2
INVARIANTS
  RollupOK
  PassedStepsAreSeen
  EachStepCountsOnce
PROPERTIES
  OnlyFirstScanRecounts
CHECK_DEADLOCK FALSE
