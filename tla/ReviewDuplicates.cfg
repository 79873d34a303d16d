SPECIFICATION Spec
CONSTANTS
  Clients = {k1, k2}
  MaxFaults = 0
INVARIANTS
  ActionsAreThereOnce
  FindingsAreOfTheScore
