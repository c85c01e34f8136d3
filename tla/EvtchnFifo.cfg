CONSTANTS
  PortCount = 3
  PriorityOf <- Priorities
  PerPage = 2
  MaxReset = 1
SPECIFICATION Spec
INVARIANT LinksInv
CHECK_DEADLOCK FALSE
