SPECIFICATION FairSpec
CONSTANTS
  c1 = c1
  c2 = c2
  Callers = {c1, c2}
  MaxQueue = 2
  MaxMissed = 2
  MaxBlocks = 3
  MaxCalls = 4
  MaxFailures = 1
INVARIANTS
  IInv
  EachBlockOnce
  StopsLoseLittle
  QueueIsBounded
  StopStops
PROPERTIES
  EveryCallReturns
  EveryBlockIsAnalysed
CHECK_DEADLOCK FALSE
