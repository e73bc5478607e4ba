CONSTANTS
  a = a
  b = b
  x = x
  y = y
  u = u
  Models = {a, b}
  Clients = {x, y, u}
  Wants <- MCWants
  Unloaders = {u}
  MaxModels = 1
  Faults = {"crash", "spawn", "lag"}
  MaxLines = 1
SPECIFICATION FairSpec
CHECK_DEADLOCK FALSE
INVARIANTS TypeOK WithinModelsMax
PROPERTIES EveryClientAnswered StopCompletes
