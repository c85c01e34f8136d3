CONSTANTS
  Cpu = {c0, c1}
  Cpu0 = c0
  None = None
  MaxSuspend = 1
SPECIFICATION Spec
INVARIANT SingleThreaded
CHECK_DEADLOCK FALSE
