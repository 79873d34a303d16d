CONSTANTS
  Workers = {w1}
  Creds = {k1, k2}
  None = None
  MaxTx = 1
  Carried <- NoArtifact
  MaxCrashes = 1
  LosesLock = {}
  DatabaseFaults = {"refused"}
  MayEvict = TRUE
  Requests = {"cancel", "reconcile"}
SPECIFICATION Spec
SYMMETRY Symmetry
CHECK_DEADLOCK FALSE
INVARIANTS
  TypeOK
  BoundaryIsIrreversible
  DeployerIsTheKeyInUse
PROPERTIES
  SentIsNotSimplyFailed
  ImplementsBroadcastOnce
