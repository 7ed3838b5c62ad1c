SPECIFICATION FairSpec
CONSTANTS
  LateWrites = FALSE
  Faults = FALSE
  WaitsForAck = TRUE
  MaxTries = 2
  MaxData = 2
INVARIANTS
  TypeOK
  InOrder
  NoDataLoss
  LastWriteRead
  NewChannelAgreed
PROPERTIES
  UpgradeEnds
CHECK_DEADLOCK FALSE
