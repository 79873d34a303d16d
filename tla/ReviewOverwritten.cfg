SPECIFICATION Spec
CONSTANTS
  Clients = {k1, k2}
  MaxFaults = 1
PROPERTIES
  CompletedRowsStand
