CONSTANTS
  p1 = p1
  p2 = p2
  p3 = p3
  p4 = p4
  Nobody = Nobody
  Packages <- Three
  LoopPackages <- Four
  Declarations <- OneName
  Paths <- MCPaths
  MaxEvents = 2
  MaxRoutes = 3
  MaxRevision = 6
SPECIFICATION MCSpec
SYMMETRY Symmetry
INVARIANTS
  LetsGoTheLeast
PROPERTIES
  WaitEndsWhenFree
CHECK_DEADLOCK FALSE
