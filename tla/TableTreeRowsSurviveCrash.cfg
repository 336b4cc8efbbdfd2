SPECIFICATION Spec
CONSTANTS
  ORDER = 4
  MaxKey = 14
  MaxPages = 16
  MaxCrashes = 1
CHECK_DEADLOCK FALSE
INVARIANT
  RowsSurviveCrash
