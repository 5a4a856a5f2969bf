SPECIFICATION Spec
CONSTANTS
  c1 = c1
  c2 = c2
  c3 = c3
  camp = camp
  adset = adset
  None = None
  Campaigns <- OneCampaign
  Capabilities <- AllCaps
  Unit = 1
  Budget0 = 10000
  MaxIncrease = 30
  MaxDecrease = 20
  Swing = 50
  Window = 2
  AdSets <- OneAdSet
  Parent <- ParentOfOne
  Cycles <- TwoCycles
  Rules <- OneRule
  MaxTime = 1
  Edits = 0
  Reviews = TRUE
  Overlap = TRUE
  MayFail = TRUE
  LostAnswers = TRUE
  RedisFails = TRUE
  Faults = TRUE
SYMMETRY Symmetry
INVARIANTS CooldownIsEarned SuggestedIsUntouched
CHECK_DEADLOCK FALSE
