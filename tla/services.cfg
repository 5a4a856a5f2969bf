SPECIFICATION ServicesSpec
CONSTANTS
  None = None
  Nobody = Nobody
  s1 = s1
  s2 = s2
  Admins = {a1, a2}
  Jobs = {j1, j2}
  Secrets = {s1, s2}
  Offered <- SomeRequests
  Users = {"u1"}
  Tabs = {t1, t2}
  MaxPairs = 2
  People = {"u1", "u2"}
  Orgs = {"o1"}
  MemberCalls = {"call1", "call2"}
  AlertKeys = {"k1"}
  Raisers = {"raise1", "raise2"}
  MaxAlerts = 3
  FieldOrder <- TwoFields
  Defaults <- AllZero
  FieldValues = {0, 1}
  Pages = {"p1"}
  WIZARD_STEPS <- ThreeSteps
  WizardTabs = {"t1", "t2"}
  MaxPlans = 1
  WizardInputs <- SomeInputs
  Finishers = {"c1"}
  Pipelines = {"run1", "run2"}
  WindowDays = 0
  FreshDays = 0
  StaleDays = 1
  MaxOutcomes = 2
  Amounts = {1004, 20000}
  PagesHeld = {2, 21}
  ConsentOrgs = {"o1"}
  Granted <- TwoAccounts
  MaxGrants = 2
  MaxRotations = 1
  MaxMishaps = 1
  FormPages = {"f1", "f2"}
  FirstRows <- RowOrNone
  Typings <- SomeTypings
  MaxWrites = 2
INVARIANTS  CacheIsCurrent ProviderIsHonest
INVARIANTS DraftIsSound WhatIsBehindIsValid SavesAreMeant LearningHolds
PROPERTIES SignedOutStaysOut OwnersRemain RaisedOnce
CHECK_DEADLOCK FALSE
