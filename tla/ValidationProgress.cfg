SPECIFICATION FairSpec
CONSTANTS
  Workers = {w1, w2}
  Clients = {k1}
  Originals = {}
  Generated = {g1}
  Repos <- SmallRepos
  None = None
  MaxAttempts = 2
  MaxFaults = 1
PROPERTIES
  DeliveriesSettle
CHECK_DEADLOCK FALSE
