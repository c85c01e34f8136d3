CONSTANTS
  Pdos = {p1, p2}
  Class = {c1}
  Synthetic = {}
  Workloads <- Split
  Budget = 1
SPECIFICATION FairSpec

PROPERTIES Completes SuspendSeen 
CHECK_DEADLOCK FALSE
