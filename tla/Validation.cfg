SPECIFICATION Spec
CONSTANTS
  Workers = {w1, w2}
  Clients = {k1}
  Originals = {o1}
  Generated = {g1}
  Repos <- TwoRepos
  None = None
  MaxAttempts = 2
  MaxFaults = 1
SYMMETRY Symmetry
INVARIANTS
  TypeOK
  PassedIsEarned
  RowsTellTheRun
PROPERTIES
  ResultsStand
CHECK_DEADLOCK FALSE
