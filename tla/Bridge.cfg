SPECIFICATION BridgeFairSpec
CONSTANTS
  ReceiveMax = 2
  TransmitMax = 2
  WireMax = 1
  BufferMax = 1
CHECK_DEADLOCK FALSE
INVARIANTS
  StatusesBracketObjects
  ConnectionIsStable
PROPERTIES
  DestructorReturns
  BrokenIsGivenUp
