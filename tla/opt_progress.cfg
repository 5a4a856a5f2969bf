SPECIFICATION FairSpec
CONSTANTS
  c1 = c1
  c2 = c2
  c3 = c3
  camp = camp
  adset = adset
  None = None
  Campaigns <- OneCampaign
  Capabilities <- NoRoasGoal
  Unit = 1
  Budget0 = 10000
  MaxIncrease = 30
  MaxDecrease = 20
  Swing = 50
  Window = 2
  AdSets <- NoSets
  Parent <- NoParent
  Cycles <- TwoCycles
  Rules <- MixedRules
  MaxTime = 1
  Edits = 1
  Reviews = FALSE
  Overlap = TRUE
  MayFail = TRUE
  LostAnswers = TRUE
  RedisFails = FALSE
  Faults = FALSE
PROPERTIES CyclesSettle
CHECK_DEADLOCK FALSE
