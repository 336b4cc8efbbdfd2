SPECIFICATION Spec
CONSTANTS
  c1 = c1
  c2 = c2
  c3 = c3
  None = None
  Prompt = TRUE
  Client <- MCTwo
CHECK_DEADLOCK FALSE
PROPERTY
  ClientsAnswered
