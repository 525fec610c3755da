CONSTANTS
  MaxFaults = 1
SPECIFICATION FairSpec
PROPERTIES
  OperationEnds
  CancelReachesController
CHECK_DEADLOCK FALSE
