SPECIFICATION FairSpec
CONSTANTS
  Admins = {a1}
  Jobs = {j1, j2}
  Secrets = {s1}
  Grants = {g1}
  None = None
  Nobody = Nobody
  MaxSerial = 1
  MaxCrashes = 0
  AnswersEmpty = TRUE
  Offered <- SwitchOnOff
PROPERTY DueIsResolved
