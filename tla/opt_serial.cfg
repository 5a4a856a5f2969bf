SPECIFICATION Spec
CONSTANTS
  c1 = c1
  c2 = c2
  c3 = c3
  camp = camp
  adset = adset
  None = None
  Campaigns <- OneCampaign
  Capabilities <- AllCaps
  Unit = 100
  Budget0 = 33300
  MaxIncrease = 30
  MaxDecrease = 20
  Swing = 50
  Window = 2
  AdSets <- NoSets
  Parent <- NoParent
  Cycles <- ThreeCycles
  Rules <- SerialRules
  MaxTime = 4
  Edits = 0
  Reviews = FALSE
  Overlap = FALSE
  MayFail = TRUE
  LostAnswers = TRUE
  RedisFails = TRUE
  Faults = TRUE
SYMMETRY Symmetry
INVARIANTS OneChangePerCooldown CycleIsModest MirrorsPlatform ChangeIsLogged
CHECK_DEADLOCK FALSE
