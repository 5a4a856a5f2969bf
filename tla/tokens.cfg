SPECIFICATION Spec
CONSTANTS
  Admins = {}
  Jobs = {j1, j2}
  Secrets = {s1, s2}
  Grants = {g1, g2}
  None = None
  Nobody = Nobody
  MaxSerial = 2
  MaxCrashes = 1
  AnswersEmpty = TRUE
  Offered <- SwitchOff
SYMMETRY Symmetry
INVARIANTS StoredTokenWorks
PROPERTY DisconnectHolds
