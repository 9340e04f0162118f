SPECIFICATION Spec
CONSTANTS
  Parts <- MCParts
  Size <- MCSize
  ReadOnly <- MCReadOnly
  NameLen <- MCNameLen
  Root = "a10"
  Pairs <- AllPairs
  Round = 4
  MinAlloc = 8
  MapLen <- MCMapLen
  ListMax = 65
  Formatted <- MCFormatted
  Maps = 2
  MaxErrors = 1
  Nil = Nil
  None = None
INVARIANTS LaidOut Recoverable MemoryAgrees
PROPERTY Refines
CHECK_DEADLOCK FALSE
