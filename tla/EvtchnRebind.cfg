CONSTANTS
  Channel = {c1}
  Cpu = {p0, p1}
  Cpu0 = p0
  Thread = {t1}
  AutoMask = {}
  VirqCpus = {p1}
  TwoLevel = TRUE
  BindTo = {p0, p1}
  ClientTrigger = TRUE
  MaxSuspend = 0
  QuietRelease = TRUE
  None = None
SPECIFICATION Spec
INVARIANTS TypeOK  
CHECK_DEADLOCK FALSE
