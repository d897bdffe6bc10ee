SPECIFICATION FairSpec
CONSTANTS
  Files = {f1}
  Messages <- OldAndNew
  MaxOutput = 2
  Line <- SomeLines
  StampOf <- Stamps
  LongLen = 5
  PollLimit = 4
  BatchRows = 1
  Retention = 0
  PruneEvery = 2
  MaxInode = 2
  MaxWrites = 3
  MaxFaults = 1
  MaxTime = 2
  Junk = Junk
  Long = Long
  NoLine = NoLine
  NoFile = NoFile
INVARIANTS
  RowsOK
  NothingSkipped
  OverstayIsBounded
PROPERTIES
  CountedForGood
CHECK_DEADLOCK FALSE
