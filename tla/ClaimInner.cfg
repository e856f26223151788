\* The inner product of two symbols: it is their distance.
CONSTANTS
  x = x
  y = y
  nil = nil
  None = nil
  SymId <- TwoSymbols
  Words = 2
  WordBits = 2
  UnsignedSize = 8
  BasisSize = 2
  Fingerprints <- FourDims
  DitherScale = 2
  Dithers = {1}
  Rotations <- AllWays
SPECIFICATION Spec
INVARIANT
  InnerIsOverlap
