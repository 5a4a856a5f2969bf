SPECIFICATION Spec
CONSTANTS
  r1 = r1
  r2 = r2
  r3 = r3
  r4 = r4
  meta = meta
  google = google
  None = None
  Platforms <- OnePlatform
  Requests <- ThreeRequests
  Ops <- AllOps
  Concurrent = TRUE
  MayFail = TRUE
  Faults = TRUE
SYMMETRY Symmetry
INVARIANTS ApprovalBeforeSpend LaunchedMeansAnAdExists StoredIdsAreReal CreatedItemIsComplete
CHECK_DEADLOCK FALSE
