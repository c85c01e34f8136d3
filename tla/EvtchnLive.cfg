CONSTANTS
  Channel = {c1, c2}
  Cpu = {p0}
  Cpu0 = p0
  Thread = {t1}
  AutoMask = {c2}
  VirqCpus = {}
  TwoLevel = FALSE
  BindTo = {}
  ClientTrigger = FALSE
  MaxSuspend = 1
  QuietRelease = TRUE
  None = None
SPECIFICATION FairSpec
INVARIANTS PollSafe NoneOutstanding
PROPERTY EventTaken
CHECK_DEADLOCK FALSE
