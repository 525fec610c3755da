CONSTANTS
  p1 = p1
  p2 = p2
  Nobody = Nobody
  Packages = {p1, p2}
  Declarations <- TwoNames
  Paths <- MCPaths
  MaxEvents = 3
  MaxRoutes = 2
  MaxRevision = 6
SPECIFICATION Spec
SYMMETRY Symmetry
INVARIANTS
  ActivationsAreKept
PROPERTIES
  ReportEndsItsBatch
CHECK_DEADLOCK FALSE
