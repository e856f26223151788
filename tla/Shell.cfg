\* Three commands of any kind.
SPECIFICATION ShellSpec
CONSTANTS
  Words <- MCWords
  Contents <- MCContents
  Prefix = "words"
  Plain <- MCPlain
  MaxCommands = 3
INVARIANTS
  LoadCounted
  OnlyWhatWasNamed
CHECK_DEADLOCK FALSE
