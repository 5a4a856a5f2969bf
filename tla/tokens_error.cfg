SPECIFICATION Spec
CONSTANTS
  Admins = {}
  Jobs = {j1, j2}
  Secrets = {s1}
  Grants = {g1}
  None = None
  Nobody = Nobody
  MaxSerial = 2
  MaxCrashes = 0
  AnswersEmpty = FALSE
  Offered <- SwitchOff
INVARIANT ErrorMeansReconnect
