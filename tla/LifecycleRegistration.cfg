SPECIFICATION FairSpec
CONSTANTS
  Outgoing = {}
  Incoming = {e1, e2}
  MaxChan = 2
PROPERTIES
  RegistrationCompletes
CHECK_DEADLOCK FALSE
