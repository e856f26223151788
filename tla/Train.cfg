\* The trainer with every combination of its switches.
CONSTANTS
  Lines <- SomeLines
  MaxRows = 3
  Switches <- AllSwitches
SPECIFICATION Spec
INVARIANTS
  LineTrained
  FramesCounted
  FramesHoldTheirTerms
\* The trainer stops at the end of its input.
CHECK_DEADLOCK FALSE
