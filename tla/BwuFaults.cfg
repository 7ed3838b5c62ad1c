SPECIFICATION Spec
CONSTANTS
  LateWrites = FALSE
  Faults = TRUE
  WaitsForAck = TRUE
  MaxTries = 1
  MaxData = 1
INVARIANTS
  LastWriteRead
  NewChannelAgreed
CHECK_DEADLOCK FALSE
