\* --prefix names the space of symbols that name none: and of those in files.
SPECIFICATION ShellSpec
CONSTANTS
  Words <- MCWords
  Contents <- MCContents
  Prefix = "words"
  Plain <- MCPlain
  MaxCommands = 2
INVARIANT
  QualifiedElsewhere
CHECK_DEADLOCK FALSE
