SPECIFICATION Spec
CONSTANTS
  Endpoint = {a, b}
  Remote = {a, b}
  Id = {i1}
  MaxPayload = 1
  MaxJobs = 2
  Size = 1
  Lengths = {1}
  Resumes = {0, 3}
  Events = {"cancel", "break", "timeout"}
SYMMETRY Symmetry
CHECK_DEADLOCK FALSE
INVARIANTS HandleKeepsPayload SuccessMeansSent
PROPERTIES UpdatesEndOnce
