SPECIFICATION Spec
CONSTANTS
  s1 = s1
  s2 = s2
  Nobody = Nobody
  Sessions <- MCSessions
  Rotations <- MCRotations
  MaxVersion = 3
  MaxLosses = 2
SYMMETRY Symmetry
INVARIANTS CheckpointIsComplete TrustIsDurable
PROPERTIES NeverRollsBack
