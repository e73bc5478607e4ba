CONSTANTS
  a = a
  b = b
  c = c
  d = d
  e = e
  k = k
  m = m
  p = p
  NoTask = NoTask
  Tasks = {p, c, b, e}
  Requests = {p, b, e}
  Owner <- MCOwner
  Kind <- MCKind
  Parent <- MCParent
  Pin <- MCPin
  NSlots = 2
  ContBatching = FALSE
  MaxTokens = 1
  Faults = {"decode"}
SPECIFICATION FairSpec
CHECK_DEADLOCK FALSE
INVARIANTS DeferredHasWaker ChildrenKept
PROPERTIES EveryRequestAnswered
