SPECIFICATION Spec
CONSTANTS
  ORDER = 4
  Value <- MCTables
  Arrives <- OneOrTwo
  MaxRows = 16
  MaxPages = 16
CHECK_DEADLOCK FALSE
INVARIANTS
  SelectsWhereEqual
