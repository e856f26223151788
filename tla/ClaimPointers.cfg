\* A symbol that is inserted while a reference into its space is held.
CONSTANTS
  p1 = p1
  p2 = p2
  nil = nil
  None = nil
  Procs <- SoloProcs
  Spaces <- PairSpaces
  Hidden <- EmptySet
  Names <- PairNames
  LongNames <- EmptySet
  SymId <- PairSymId
  Dimensions = 4
  ElementBits = 2
  BasisSize = 2
  MaxShuffles = 2
  Shuffles <- PairShuffles
  DitherScale = 2
  Dithers = {1}
  Shifts = {1}
  HeapSize = 7
  SpaceCost = 1
  SymbolCost = 2
  NameCost = 0
  Compactors <- EmptySet
  Targets <- OneTarget
  Askers <- EmptySet
  MaxOpens = 2
SPECIFICATION Spec
PROPERTIES
  InsertionsComeFirst
\* The last session may be over.
CHECK_DEADLOCK FALSE
