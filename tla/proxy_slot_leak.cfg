CONSTANTS
  c1 = c1
  m1 = m1
  m2 = m2
  b1 = b1
  None = None
  Requests = {c1, m1}
  Priority <- MCPriority
  Slots = 2
  Reserved = 1
  Smart = FALSE
  Faults <- AllFaults
SPECIFICATION Spec
CHECK_DEADLOCK FALSE
INVARIANTS SlotHasLiveOwner
