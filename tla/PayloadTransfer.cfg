SPECIFICATION FairSpec
CONSTANTS
  Endpoint = {a}
  Remote = {}
  Id = {i1}
  MaxPayload = 1
  MaxJobs = 1
  Size = 2
  Lengths = {2}
  Resumes = {0}
  Events = {"cancel", "cancelIncoming", "disconnect", "shutdown"}
CHECK_DEADLOCK FALSE
INVARIANTS TypeOK SuccessMeansComplete NotCanceledWhenReceived
PROPERTIES TransferEnds
