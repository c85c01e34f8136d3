CONSTANTS
  Pdos = {p1, p2}
  Class = {c1}
  Synthetic = {}
  Workloads <- Around
  Budget = 2
SPECIFICATION Spec
INVARIANTS  ListInv
PROPERTIES DestroyedOnce
CHECK_DEADLOCK FALSE
