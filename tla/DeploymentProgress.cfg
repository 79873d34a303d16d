CONSTANTS
  Workers = {w1}
  Creds = {k1, k2}
  None = None
  MaxTx = 1
  Carried <- OneArtifact
  MaxCrashes = 1
  LosesLock = {}
  DatabaseFaults = {}
  MayEvict = FALSE
  Requests = {}
SPECIFICATION FairSpec
CHECK_DEADLOCK FALSE
INVARIANTS
  RowsReflectNetwork
PROPERTIES
  CompletedMeansMined
  RunSettles
