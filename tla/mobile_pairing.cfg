SPECIFICATION PairingSpec
CONSTANTS
  Secrets = {s1, s2, s3}
  Tokens = {t1, t2, t3}
  Devices = {d1, d2}
  Validity = 3
  ReuseMargin = 1
  MaxTime = 4
  SaveMayFail = FALSE
  NoSecret = NoSecret
  NoDevice = NoDevice
INVARIANTS
  PairingsOK
  TokensOutlastCrashes
PROPERTIES
  ImplementsDeviceTable
SYMMETRY Symmetry
CHECK_DEADLOCK FALSE
