SPECIFICATION Spec
CONSTANTS
  Workers = {w1, w2}
  Clients = {k1}
  Jobs = {j1, j2}
  Commits = {s1, s2}
  None = None
  MaxAttempts = 2
  MaxFaults = 0
SYMMETRY Symmetry
INVARIANTS
  TypeOK
  RepositoryIsIngested
CHECK_DEADLOCK FALSE
