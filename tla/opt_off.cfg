SPECIFICATION Spec
CONSTANTS
  c1 = c1
  c2 = c2
  c3 = c3
  camp = camp
  adset = adset
  None = None
  Campaigns <- OneCampaign
  Capabilities <- AllCaps
  Unit = 1
  Budget0 = 10000
  MaxIncrease = 30
  MaxDecrease = 20
  Swing = 50
  Window = 2
  AdSets <- NoSets
  Parent <- NoParent
  Cycles <- TwoCycles
  Rules <- RaiseRules
  MaxTime = 1
  Edits = 1
  Reviews = FALSE
  Overlap = FALSE
  MayFail = FALSE
  LostAnswers = FALSE
  RedisFails = FALSE
  Faults = FALSE
PROPERTY OffIsLeftAlone
CHECK_DEADLOCK FALSE
