CONSTANTS
  Workers = {w1, w2}
  Creds = {k1, k2}
  None = None
  MaxTx = 1
  Carried <- NoArtifact
  MaxCrashes = 1
  LosesLock = {"prepare"}
  DatabaseFaults = {}
  MayEvict = FALSE
  Requests = {}
SPECIFICATION Spec
SYMMETRY Symmetry
CHECK_DEADLOCK FALSE
INVARIANTS
  FreshKeyAtLaunch
  ConfirmedBeforeLaunch
