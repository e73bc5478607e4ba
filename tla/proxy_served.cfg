CONSTANTS
  c1 = c1
  m1 = m1
  m2 = m2
  b1 = b1
  None = None
  Requests = {c1, m1, b1}
  Priority <- MCPriority
  Slots = 1
  Reserved = 0
  Smart = TRUE
  Faults <- NoFaults
SPECIFICATION FairSpec
CHECK_DEADLOCK FALSE
INVARIANTS UpstreamWithinSlots 
PROPERTIES EveryRequestServed
