SPECIFICATION Spec
CONSTANTS
  s1 = s1
  s2 = s2
  Nobody = Nobody
  Sessions <- MCSessions
  Rotations <- MCRotations
  MaxVersion = 2
  MaxLosses = 0
SYMMETRY Symmetry
PROPERTIES PublishedBeforeReturned
