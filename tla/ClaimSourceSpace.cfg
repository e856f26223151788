\* The source space of a query.
CONSTANTS
  w1 = w1
  w2 = w2
  nil = nil
  None = nil
  Spaces <- TwoSpaces
  Cached <- TwoSpaces
  Asked <- TwoSpaces
  Names <- TwoNames
  Images <- OneEach
  Dimensions = 4
  ElementBits = 2
  Workers <- Team2
  Queries <- Middle
  DensityBounds = {4}
  MetricBounds = {0}
  Cuts = {3}
  Room = 3
  MaxStores = 0
  MaxKept = 0
SPECIFICATION Spec
INVARIANTS
  SourceSpaceUsed
CHECK_DEADLOCK FALSE
