SPECIFICATION Spec
CONSTANTS
  Clients = {k1}
  Contents = {"all"}
  Scripts <- OneScript
  Certain = {"deploy"}
  ForFoundry = {"helpers", "deploy"}
  Plans <- MCPlans
  Others <- EmptyPlan
  Strangers <- NoStranger
  None = None
  Unnamed = Unnamed
  Tested = {"ORIGINAL", "GENERATED"}
  MaxRuns = 1
INVARIANTS
  DeployedIsFinalized
