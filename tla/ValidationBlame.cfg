SPECIFICATION Spec
CONSTANTS
  Workers = {w1, w2}
  Clients = {k1}
  Originals = {o1}
  Generated = {g1}
  Repos <- SharedRepos
  None = None
  MaxAttempts = 2
  MaxFaults = 0
INVARIANTS
  BlamedOnTheRepository
CHECK_DEADLOCK FALSE
