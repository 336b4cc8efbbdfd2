SPECIFICATION Spec
CONSTANTS
  Name = {"t", "u"}
  MaxColumns = 2
  MaxPages = 11
  MaxRows = 2
  MaxCrashes = 2
CHECK_DEADLOCK FALSE
INVARIANTS
  TypeOK
  EntriesHaveRows
  RowsIndexed
  RootMarksWholeTable
  NextIdsAbove
  PagesHaveOneUse
