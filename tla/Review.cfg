SPECIFICATION FairSpec
CONSTANTS
  Clients = {k1, k2}
  MaxFaults = 2
INVARIANTS
  TypeOK
  OneReport
  RowsHaveResults
  PlanHasOneReport
PROPERTIES
  RowSettles
