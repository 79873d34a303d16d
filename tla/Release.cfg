SPECIFICATION Spec
CONSTANTS
  Clients = {k1, k2}
  Contents = {all, some}
  Scripts <- TwoScripts
  Certain = {"deploy"}
  ForFoundry = {"helpers", "deploy"}
  Plans <- MCPlans
  Others <- NoPlan
  Strangers <- OneStranger
  None = None
  Unnamed = Unnamed
  Tested = {"GENERATED"}
  MaxRuns = 2
SYMMETRY Symmetry
INVARIANTS
  TypeOK
  DeployedIsValidated
  RollbackStopsWhatWaits
  DoubledByNameOnly
