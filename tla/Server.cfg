SPECIFICATION Spec
CONSTANTS
  c1 = c1
  c2 = c2
  c3 = c3
  None = None
  Prompt = FALSE
  Client <- MCTwo
CHECK_DEADLOCK FALSE
INVARIANTS
  TypeOK
  DbExclusive
  ExecutedOnce
PROPERTY
  WaitersServed
