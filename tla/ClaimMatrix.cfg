\* Every matrix.
CONSTANTS
  Names <- OneWord
  Numerals <- Digits
  Linked <- Tables
  Near <- OneWordNear
  Dense <- CDense
SPECIFICATION Spec
INVARIANTS
  EveryMatrixReadBack
\* The tool stops when the files are written.
CHECK_DEADLOCK FALSE
