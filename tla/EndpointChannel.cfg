CONSTANTS
  MaxKeepAlive = 1
  MaxPayload = 1
SPECIFICATION Spec
INVARIANT NoFrameRefused
PROPERTY BothConnect
CHECK_DEADLOCK FALSE
