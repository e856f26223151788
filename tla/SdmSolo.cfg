\* One process, a heap that runs out, crashes, compaction and reopening.
CONSTANTS
  p1 = p1
  p2 = p2
  nil = nil
  None = nil
  Procs <- SoloProcs
  Spaces <- SoloSpaces
  Hidden <- SoloHidden
  Names <- SoloNames
  LongNames <- SoloLong
  SymId <- SoloSymId
  Dimensions = 4
  ElementBits = 2
  BasisSize = 2
  MaxShuffles = 4
  Shuffles <- SoloShuffles
  DitherScale = 2
  Dithers = {1, 2}
  Shifts = {1}
  HeapSize = 8
  SpaceCost = 1
  SymbolCost = 2
  NameCost = 1
  Compactors <- SoloProcs
  Targets <- SoloSymId
  Askers <- SoloProcs
  MaxOpens = 2
SPECIFICATION FairSpec
INVARIANTS
  TypeOK
  HeapAccounted
  SessionFingerprints
  SuccessTeaches
  RecallAfterSuperpose
  SessionSees
PROPERTIES
  CallsReturn
\* The last session may be over.
CHECK_DEADLOCK FALSE
