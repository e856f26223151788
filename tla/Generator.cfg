\* Two generators with one seed, each of two shuffles of four dimensions.
SPECIFICATION Spec
CONSTANTS
  g1 = g1
  g2 = g2
  Generators <- TwoGenerators
  Dimensions = 4
  BasisSize = 2
  MaxDraws = 2
  None = None
INVARIANTS FingerprintsSound Unbiased SessionsReplay SortUndoesShuffle
CHECK_DEADLOCK FALSE
