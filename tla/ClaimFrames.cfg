\* Lines without frame ids.
CONSTANTS
  Lines <- SomeLines
  MaxRows = 2
  Switches <- AllSwitches
SPECIFICATION Spec
INVARIANTS
  OneLinePerFrame
\* The trainer stops at the end of its input.
CHECK_DEADLOCK FALSE
