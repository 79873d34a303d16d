SPECIFICATION Spec
CONSTANTS
  Workers = {w1}
  Clients = {k1}
  Jobs = {j1}
  Commits = {s1}
  None = None
  MaxAttempts = 2
  MaxFaults = 1
PROPERTIES
  DeterministicIsFinal
CHECK_DEADLOCK FALSE
