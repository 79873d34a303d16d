SPECIFICATION Spec
CONSTANTS
  Clients = {k1}
  Contents = {"all"}
  Scripts <- OneScript
  Certain = {"deploy"}
  ForFoundry = {"helpers", "deploy"}
  Plans <- EmptyToo
  Others <- EmptyPlan
  Strangers <- NoStranger
  None = None
  Unnamed = Unnamed
  Tested = {"ORIGINAL", "GENERATED"}
  MaxRuns = 2
INVARIANTS
  CompletedOnce
