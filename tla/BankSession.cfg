CONSTANTS
  s1 = s1
  s2 = s2
  NoSession = NoSession
  Sessions = {s1, s2}
  MaxLosses = 1
  RemountFaults = TRUE
  SealWaits = FALSE
SPECIFICATION Spec
SYMMETRY Symmetry
INVARIANTS
  FrozenIsForever
  RecordsAreTrue
  ChildrenStayInside
PROPERTIES
  ImplementsOneShotBank
CHECK_DEADLOCK FALSE
