\* Two words of two bits, lessons with and without rotation.
CONSTANTS
  x = x
  y = y
  nil = nil
  None = nil
  SymId <- TwoSymbols
  Words = 2
  WordBits = 2
  UnsignedSize = 8
  BasisSize = 2
  Fingerprints <- FourDims
  DitherScale = 2
  Dithers = {1}
  Rotations <- AllWays
SPECIFICATION Spec
INVARIANTS
  RotationExact
  MeasuresAgree
PROPERTIES
  WordsImplementMemory
