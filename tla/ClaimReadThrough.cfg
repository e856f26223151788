\* A space made by one process, asked for by another.
CONSTANTS
  p1 = p1
  p2 = p2
  nil = nil
  None = nil
  Procs <- PairProcs
  Spaces <- PairSpaces
  Hidden <- EmptySet
  Names <- PairNames
  LongNames <- EmptySet
  SymId <- PairSymId
  Dimensions = 4
  ElementBits = 2
  BasisSize = 2
  MaxShuffles = 2
  Shuffles <- PairShuffles
  DitherScale = 2
  Dithers = {1}
  Shifts = {1}
  HeapSize = 7
  SpaceCost = 1
  SymbolCost = 2
  NameCost = 0
  Compactors <- EmptySet
  Targets <- OneTarget
  Askers <- PairProcs
  MaxOpens = 2
SPECIFICATION Spec
PROPERTIES
  ReadsThrough
\* The last session may be over.
CHECK_DEADLOCK FALSE
