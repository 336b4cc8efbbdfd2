SPECIFICATION Spec
CONSTANTS
  IDENT_MAX_LENGTH = 2
  Lines <- MCLines
  Departures <- MCDepartures
  MaxTables = 2
  MaxRows = 2
CHECK_DEADLOCK FALSE
INVARIANTS
  TypeOK
  UnderstoodAsMeant
PROPERTIES
  NamedTwiceIsFrozen
  ImplementsRelations
