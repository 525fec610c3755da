CONSTANTS
  a = a
  b = b
  c = c
  alice = alice
  bob = bob
  Connections = {a, b, c}
  Users = {alice, bob}
  User <- Owners
  PerUser = 1
  Window = 1
  MaxUsers = 1
  RequestTime = 1
  QueryTime = 1
  Stops = 1
  MaxConnected = 2
  WaitTime = 2
  OfferTime = 2
  Lines = 3
  Jobs <- Wishes
  Kind <- Origins
  MaxInterruptions = 3
  MaxLosses = 2
SPECIFICATION MCSpec
INVARIANTS
  NoQueryLeftBehind
  AnswerIsWhole
  ReportIsTrue
  PassMeansChecked
PROPERTIES
  CommittedMeansYes
  EveryConnectionEnds
  RowsAreKept
  ResumeFinishes
CHECK_DEADLOCK FALSE
