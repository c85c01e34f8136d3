CONSTANTS
  Clients = {c1, c2}
  Mixes <- BothLevels
  IdMod = 3
  TxIds = {1}
  MaxRing = 1
  MaxSuspends = 2
SPECIFICATION Spec
SYMMETRY Interchangeable
INVARIANTS ListsInv WakeInv
CHECK_DEADLOCK FALSE
