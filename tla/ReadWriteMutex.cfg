SPECIFICATION FairSpec
CONSTANTS
  Threads = {t1, t2, t3, t4, t5}
  MaxLocks = 3
  StrayWhileGathering = FALSE
INVARIANTS
  WriterExclusion
  LocksConserved
  NoLostWakeup
PROPERTY SomeoneGetsIn
