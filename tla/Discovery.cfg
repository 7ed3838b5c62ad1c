CONSTANTS
  e1 = e1
  e2 = e2
  i1 = i1
  i2 = i2
  Device = {d1}
  Endpoint = {e1, e2}
  Info = {i1, i2}
  Advert <- MCAdvert
  MacDevice = {d1}
  RtcDevice = {d1}
  Optional <- MCOptional
  BleV2Flag = {TRUE, FALSE}
  MaxJobs = 2
  MaxUpdates = 1
  MaxStarts = 2
  MaxRequests = 1
  MaxReports = 3
SPECIFICATION Spec
INVARIANTS ReportedMatchesDiscovered OneEntryPerMedium GoneIsLost VisibleReported
CHECK_DEADLOCK FALSE
