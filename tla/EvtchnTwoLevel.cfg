CONSTANTS
  PortCount = 2
  PerSelector = 1
SPECIFICATION FairSpec
PROPERTIES ImplementsAbi Delivered
CHECK_DEADLOCK FALSE
