SPECIFICATION FairSpec
CONSTANTS
  Endpoint = {a}
  Remote = {a}
  Id = {i1, i2}
  MaxPayload = 2
  MaxJobs = 2
  Size = 1
  Lengths = {1}
  Resumes = {0}
  Events = {"shutdown"}
CHECK_DEADLOCK FALSE
PROPERTIES ShutdownEnds
