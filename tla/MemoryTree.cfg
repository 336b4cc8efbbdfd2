SPECIFICATION Spec
CONSTANTS
  ORDER <- MCOrder
  Pairs <- MCPairs
  MaxCalls = 8
CHECK_DEADLOCK FALSE
INVARIANTS
  TypeOK
  InOrder
  FoundOnce
  ListsStored
PROPERTIES
  OnlyKnownStrays
  KeysChangeByOne
