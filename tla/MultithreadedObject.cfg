SPECIFICATION FairSpec
CONSTANTS
  Threads = {t1, t2, t3}
  Clients = {c1, c2}
  Functions = {f1, f2, f3}
  None = None
CHECK_DEADLOCK FALSE
INVARIANTS
  ThreadsCounted
  NoLostWakeup
PROPERTIES
  StopEndsAll
