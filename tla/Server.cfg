SPECIFICATION FairSpec
CONSTANTS
  Conns = {k1, k2}
  Clients = {c1}
  Listeners = {l1, l2}
  None = None
  Maxima = {0, 1}
  DefaultMax = 3
INVARIANTS
  ThreadCountExact
  ConsAreOpen
  NoLostWakeup
  AcceptsBelowLimit
PROPERTIES
  ClearReturns
