CONSTANTS
  MaxFaults = 2
SPECIFICATION Spec
INVARIANTS
  OneRequest
  AnsweredMeansDone
  ControllerCutFirst
PROPERTIES
  BoundaryAuthority
CHECK_DEADLOCK FALSE
