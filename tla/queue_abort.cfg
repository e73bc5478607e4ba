CONSTANTS
  a = a
  b = b
  c = c
  d = d
  e = e
  k = k
  m = m
  p = p
  NoTask = NoTask
  Tasks = {p, c}
  Requests = {p}
  Owner <- MCOwner
  Kind <- MCKind
  Parent <- MCParent
  Pin <- MCPin
  NSlots = 2
  ContBatching = TRUE
  MaxTokens = 1
  Faults = {"reject"}
SPECIFICATION Spec
CHECK_DEADLOCK FALSE
INVARIANTS NoAbort
