\* A query beside processes that link symbols and store elements.
CONSTANTS
  w1 = w1
  w2 = w2
  nil = nil
  None = nil
  Spaces <- OneSpace
  Cached <- OneSpace
  Asked <- TwoSpaces
  Names <- ThreeNames
  Images <- TwoLinked
  Dimensions = 4
  ElementBits = 2
  Workers <- Team2
  Queries <- Middle
  DensityBounds = {2}
  MetricBounds = {2}
  Cuts = {1, 3}
  Room = 3
  MaxStores = 1
  MaxKept = 1
SPECIFICATION FairSpec
INVARIANTS
  RowsAgree
  RowsNamed
  BestFirst
  AllScored
  CopiesReturned
PROPERTIES
  CallEnds
\* The process may have ended.
CHECK_DEADLOCK FALSE
