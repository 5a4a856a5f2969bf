SPECIFICATION EvidenceSpec
CONSTANTS
  Nobody = Nobody
  gt = gt
  lt = lt
  org = org
  r1 = r1
  r2 = r2
  r3 = r3
  All = All
  None = None
  Rules <- TwoRules
  Comparator <- Compared
  Orgs <- OneOrg
  Requests <- ThreeRequests
  Threshold0 = 100
  MaxChanges = 1
  MaxRatio = 100
  Cooldown = 1
  MaxTime = 1
  Edits = 1
  Worlds <- SmallWorlds
  InsightUsers = {"u1"}
  LogImpact <- TwoImpacts
  NameOrder <- AdSetFirst
  MaxMarks = 1
  PlanShapes <- ThreeShapes
  OtherTotals <- FourTotals
  DaySpends = {0, 1, 100}
  MaxSnapshots = 4
  Unit = 100
  Histories <- FewHistories
  Releases = {{}, {"platform_ctr"}}
  Budgets = {500, 733}
  Goals = {"SALES"}
  Ages = {0, 31, 40}
  AdWorlds <- FewWorlds
  TunerQuestions <- FewQuestions
  RowsPerRun = 1
  RowsRead = 3
  Malformed = Malformed
  OverviewTables <- FewTables
  CampaignsShown = 1
  ActionsShown = 2
  InsightsShown = 2
  HighlightsShown = 1
  RunsListed = 2
  AccountsListed = 2
  Proposed <- OneOfEachType
  LogEntities = {"c1"}
  PageLimit = 2
  PAGE_SIZE = 1
  ChipsUsed = {"PENDING"}
  MaxActions = 3
  MaxCalls = 1
  PresetsUsed = {"yesterday"}
  Today = 0
SYMMETRY Symmetry
INVARIANTS RollbackHolds RunLimitsHold
INVARIANTS InsightsAreSound RulesFireOnEvidence LearnedFromCampaigns HistoryIsModest PlatformsAgree WhatIsShownHolds ActionPageHolds
PROPERTY TunerOnlyTightens
CHECK_DEADLOCK FALSE
