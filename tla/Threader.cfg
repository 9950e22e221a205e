SPECIFICATION FairSpec
CONSTANTS
  Threads = {t1, t2, t3}
  Clients = {c1, c2}
  Jobs = {j1, j2, j3}
  NoJob = NoJob
  Handlers = {h1}
  NoHandler = NoHandler
INVARIANTS
  CountsMatch
  JobsStartOnce
  NoLostWakeup
PROPERTIES
  RequestsEnd
