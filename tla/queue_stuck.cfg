CONSTANTS
  a = a
  b = b
  c = c
  d = d
  e = e
  k = k
  m = m
  p = p
  NoTask = NoTask
  Tasks = {a, b, d}
  Requests = {a, b, d}
  Owner <- MCOwner
  Kind <- MCKind
  Parent <- MCParent
  Pin <- MCPin
  NSlots = 1
  ContBatching = TRUE
  MaxTokens = 1
  Faults = {"launch"}
SPECIFICATION FairSpec
CHECK_DEADLOCK FALSE
PROPERTIES DeferredUntilSlotAvailable
