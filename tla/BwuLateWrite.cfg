SPECIFICATION Spec
CONSTANTS
  LateWrites = TRUE
  Faults = FALSE
  WaitsForAck = TRUE
  MaxTries = 1
  MaxData = 1
INVARIANT NoDataLoss
CHECK_DEADLOCK FALSE
