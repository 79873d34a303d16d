CONSTANTS
  Files <- MCFiles
  Repos <- MCRepos
  Migrations <- MCMigrations
  OracleMissing = {"linea"}
  MaxFiles = 20
  MaxFileBytes = 5
  MaxTotalBytes = 100
  MaxDepth = 5
  Failing = {"addresses", "chain-id"}
  MaxPasses = 2
  MaxLines = 2
SPECIFICATION Spec
INVARIANTS
  PatchesAreDeterministic
CHECK_DEADLOCK FALSE
