CONSTANTS
  s1 = s1
  s2 = s2
  NoSession = NoSession
  Sessions = {s1}
  MaxLosses = 0
  RemountFaults = FALSE
  SealWaits = TRUE
SPECIFICATION FairSpec
PROPERTIES
  LetGoReadonly
CHECK_DEADLOCK FALSE
