SPECIFICATION Spec
CONSTANTS
  N = 3
  Routes <- MCChain
  Crashing = {}
  MaxMessages = 2
  MaxEpoch = 1
CHECK_DEADLOCK FALSE
PROPERTY BarrierIsQuiet
