\* A caller walks what it found while another process links symbols.
SPECIFICATION Spec
CONSTANTS
  Names <- MCNames
  Prefixes <- MCPrefixes
  Heap = 6
  Inline = 1
INVARIANTS
  NoMatchLost
  PrintedInOrder
CHECK_DEADLOCK FALSE
