SPECIFICATION Spec
CONSTANTS
  r1 = r1
  r2 = r2
  r3 = r3
  r4 = r4
  meta = meta
  google = google
  None = None
  Platforms <- OnePlatform
  Requests <- FourRequests
  Ops <- AllOps
  Concurrent = FALSE
  MayFail = TRUE
  Faults = TRUE
SYMMETRY Symmetry
INVARIANT ApprovedMeansReviewed
PROPERTIES RegenerateOnlyDraft CreatedItemsAreSkipped LifecycleRefined
CHECK_DEADLOCK FALSE
