CONSTANTS
  Cpu = {c0, c1, c2}
  Cpu0 = c0
  None = None
  MaxSuspend = 2
SPECIFICATION FairSpec
INVARIANTS Quiesced ReleasedAll SuspendInv
PROPERTY Resumes
CHECK_DEADLOCK FALSE
