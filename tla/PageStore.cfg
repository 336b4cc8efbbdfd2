SPECIFICATION Spec
CONSTANTS
  MaxPages = 4
  FirstWord <- MCFirstWord
INVARIANTS
  TypeOK
  FreeListSound
  NeverHandsOutUsedPage
PROPERTIES
  PagesLeakOnlyAtTheEnd
