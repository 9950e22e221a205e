SPECIFICATION FairSpec
CONSTANTS
  Threads = {t1, t2, t3}
  v1 = v1
  v2 = v2
  v3 = v3
  ItemsOf <- MCItems
  None = None
  Capacities = {0, 2}
  Target = 1
  CallsOf <- MCCalls
CHECK_DEADLOCK FALSE
INVARIANTS
  NoLostWakeup
  OneHandoff
PROPERTIES
  ImplementsChannel
  CallsEnd
  ItemsAreTaken
