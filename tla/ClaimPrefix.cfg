\* What a search comes across starts with the prefix: it need not.
SPECIFICATION Spec
CONSTANTS
  Names <- MCNames
  Prefixes <- MCPrefixes
  Heap = 6
  Inline = 1
INVARIANT
  MatchesOnly
CHECK_DEADLOCK FALSE
