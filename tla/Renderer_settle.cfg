CONSTANTS
  Urls = {u1, u2}
  Quiet = 3
  Poll = 2
  Settles = {0, 1, 8}
  LoadTime = 2
  MaxRequests = 2
SPECIFICATION RendererSpec
INVARIANTS
  SettlesInTime
  RecordsAreTraffic
PROPERTIES
  SettlesOnQuiet
  CallEnds
CHECK_DEADLOCK FALSE
