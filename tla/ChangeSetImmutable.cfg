SPECIFICATION Spec
CONSTANTS
  Clients = {k1}
  Changes = {c1, c2}
  None = None
  MaxFaults = 0
  Unanswered = FALSE
PROPERTY DecisionsAreKept
CHECK_DEADLOCK FALSE
