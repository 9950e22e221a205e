SPECIFICATION FairSpec
CONSTANTS
  N = 3
  Routes <- MCDirected
  Crashing = {1}
  MaxMessages = 2
  MaxEpoch = 1
CHECK_DEADLOCK FALSE
INVARIANTS
  CountersExact
PROPERTIES
  ImplementsSupersteps
  ReceiveReturns
