SPECIFICATION Spec
CONSTANTS
  ORDER = 3
  Value <- MCSome
  Arrives <- OneRepeated
  MaxRows = 7
  MaxPages = 16
CHECK_DEADLOCK FALSE
INVARIANTS
  TypeOK
  EntriesConserved
  FindAllExact
