SPECIFICATION Spec
CONSTANTS
  ORDER = 4
  MaxKey = 19
  MaxPages = 20
  MaxCrashes = 2
CHECK_DEADLOCK FALSE
INVARIANTS
  TypeOK
  EveryRowFound
  NextLeafKnowsItsParent
  OneParent
  NoDanglingRead
  IdsNeverReused
  ScanIsPrefix
PROPERTY
  ImplementsTable
