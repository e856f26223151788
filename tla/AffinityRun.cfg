\* The tool on spaces that grow; names of one word.
CONSTANTS
  Names <- OneWord
  Numerals <- Digits
  Linked <- Tables
  Near <- OneWordNear
  Dense <- CDense
SPECIFICATION Spec
INVARIANTS
  IndexesAreRows
  FilesReadBack
\* The tool stops when the files are written.
CHECK_DEADLOCK FALSE
