CONSTANTS
  Seeker = {s1}
  AccountKey = {k1, k2, k3}
  MaxKeys = 2
  MaxRetro = 1
  MaxFailures = 1
  MaxTimers = 1
SPECIFICATION Spec
INVARIANTS KeysLeastRecentlyUsed PendingKeyIsCurrent OneRotationTimer
PROPERTIES AddressKeptWhilePairing
SYMMETRY Symmetry
CHECK_DEADLOCK FALSE
