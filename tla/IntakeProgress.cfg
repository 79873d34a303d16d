SPECIFICATION FairSpec
CONSTANTS
  Workers = {w1}
  Clients = {k1}
  Jobs = {j1}
  Commits = {s1, s2}
  None = None
  MaxAttempts = 2
  MaxFaults = 1
PROPERTIES
  CompletedStands
  IntakeSettles
CHECK_DEADLOCK FALSE
