CONSTANTS
  a = a
  b = b
  x = x
  y = y
  u = u
  Models = {a, b}
  Clients = {x, y, u}
  Wants <- MCWants
  Unloaders = {u}
  MaxModels = 1
  Faults = {"crash", "spawn", "lag"}
  MaxLines = 1
SPECIFICATION Spec
CHECK_DEADLOCK FALSE
INVARIANTS KillsOnlyTheModel
