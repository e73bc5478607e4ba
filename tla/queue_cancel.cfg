CONSTANTS
  a = a
  b = b
  c = c
  d = d
  e = e
  k = k
  m = m
  p = p
  NoTask = NoTask
  Tasks = {p, c, m, k}
  Requests = {p, m, k}
  Owner <- MCOwner
  Kind <- MCKind
  Parent <- MCParent
  Pin <- MCPin
  NSlots = 2
  ContBatching = TRUE
  MaxTokens = 2
  Faults = {"launch", "empty", "reject", "shift", "decode", "gone"}
SPECIFICATION Spec
CHECK_DEADLOCK FALSE
INVARIANTS TypeOK OneHome NoStrayResult
