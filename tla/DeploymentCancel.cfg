CONSTANTS
  Workers = {w1}
  Creds = {k1, k2}
  None = None
  MaxTx = 1
  Carried <- NoArtifact
  MaxCrashes = 1
  LosesLock = {}
  DatabaseFaults = {}
  MayEvict = FALSE
  Requests = {"cancel", "reconcile"}
SPECIFICATION Spec
CHECK_DEADLOCK FALSE
INVARIANTS
  CancelledSentNothing
