CONSTANTS
  t1 = t1
  t2 = t2
  t3 = t3
  NoInstaller = NoInstaller
  same = same
  other = other
  Attempts <- Starts
  Configurations <- MCConfigurations
  MaxLosses = 2
SPECIFICATION MCSpec
SYMMETRY Symmetry
INVARIANTS
  ReaderSeesOnePair
  PairIsLasting
  CheckedIsWhole
  NothingIsForgotten
  ObserverIsLasting
CHECK_DEADLOCK FALSE
PROPERTY ImplementsRunsOnce
