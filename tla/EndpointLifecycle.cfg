SPECIFICATION Spec
CONSTANTS
  Outgoing = {e1}
  Incoming = {e1}
  MaxChan = 2
INVARIANTS
  TypeOK
  RemoteAnswerOwn
  OneWorkerSet
  ConnectedKey
  NotEncryptedEarly
  NothingLeft
PROPERTIES
  AnnouncedOnce
CHECK_DEADLOCK FALSE
