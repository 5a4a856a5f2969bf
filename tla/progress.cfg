SPECIFICATION ProgressSpec
CONSTANTS
  r1 = r1
  r2 = r2
  r3 = r3
  r4 = r4
  meta = meta
  google = google
  None = None
  Platforms <- TwoPlatforms
  Requests <- TwoRequests
  Ops <- ApproveLaunch
  Concurrent = TRUE
  MayFail = TRUE
  Faults = FALSE
  Campaigns = {"c1", "c2"}
  OrgOf <- OrgOfEach
  Windows = {24, 72}
  MaxEntities = 2
  Intervals = {}
  DefaultInterval = 2
  DayHours = 1
  Sweeps = {1}
PROPERTIES LaunchesSettle IngestionHolds
CHECK_DEADLOCK FALSE
