\* Two lessons on one target at once, with fingerprints that cross.
CONSTANTS
  p1 = p1
  p2 = p2
  nil = nil
  None = nil
  Procs <- PairProcs
  Spaces <- PairSpaces
  Hidden <- EmptySet
  Names <- PairNames
  LongNames <- EmptySet
  SymId <- PairSymId
  Dimensions = 4
  ElementBits = 2
  BasisSize = 2
  MaxShuffles = 2
  Shuffles <- CrossedShuffles
  DitherScale = 2
  Dithers = {1}
  Shifts = {1}
  HeapSize = 7
  SpaceCost = 1
  SymbolCost = 2
  NameCost = 0
  Compactors <- EmptySet
  Targets <- OneTarget
  Askers <- EmptySet
  MaxOpens = 2
SPECIFICATION Spec
INVARIANTS
  LessonsSerialize
\* The last session may be over.
CHECK_DEADLOCK FALSE
