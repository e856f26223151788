\* An image opened to be read: preload asks for the lock, which is in memory
\* mapped to be read only.
CONSTANTS
  p1 = p1
  p2 = p2
  nil = nil
  dead = dead
  None = nil
  Gone = dead
  Procs <- TwoProcs
  Spaces <- PublicAndHidden
  Hidden <- OneHidden
  Modes <- Both
  HeapSize = 2
  MaxOpens = 3
  MaxDestroys = 1
SPECIFICATION Spec
PROPERTIES
  ReadOnlyOpens
\* The last session may be over.
CHECK_DEADLOCK FALSE
