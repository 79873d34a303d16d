SPECIFICATION FairSpec
CONSTANTS
  Clients = {k1}
  Changes = {c1, c2}
  None = None
  MaxFaults = 1
  Unanswered = TRUE
INVARIANTS
  TypeOK
  RevisionIsTheReview
  CompleteMeansAllAccepted
  NothingShipsUnaccepted
  RolledBackSelectsOriginal
PROPERTIES
  FinalizedIsKept
  ChangeSetSettles
CHECK_DEADLOCK FALSE
