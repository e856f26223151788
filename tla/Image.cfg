\* Two processes create, open, fill and close an image.
CONSTANTS
  p1 = p1
  p2 = p2
  nil = nil
  dead = dead
  None = nil
  Gone = dead
  Procs <- TwoProcs
  Spaces <- PublicAndHidden
  Hidden <- OneHidden
  Modes <- Both
  HeapSize = 2
  MaxOpens = 3
  MaxDestroys = 1
SPECIFICATION FairSpec
INVARIANTS
  CachesAgree
  OpeningOnlyReads
  OpenedKnowsAll
PROPERTIES
  WaitsOnlyForTheDead
\* The last session may be over.
CHECK_DEADLOCK FALSE
