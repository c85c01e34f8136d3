CONSTANTS
  PortCount = 2
  PriorityOf <- Priorities
  PerPage = 2
  MaxReset = 1
SPECIFICATION FairSpec
PROPERTIES ImplementsAbi Delivered
CHECK_DEADLOCK FALSE
