\* Names of two words.
CONSTANTS
  Names <- TwoWord
  Numerals <- Digits
  Linked <- TwoWordTables
  Near <- TwoWordNear
  Dense <- NoneDense
SPECIFICATION Spec
INVARIANTS
  EveryIndexReadBack
\* The tool stops when the files are written.
CHECK_DEADLOCK FALSE
