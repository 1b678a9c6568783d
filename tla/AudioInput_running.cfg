SPECIFICATION Spec
CONSTANTS
  c1 = c1
  c2 = c2
  Callers = {c1, c2}
  MaxQueue = 2
  MaxMissed = 2
  MaxBlocks = 2
  MaxCalls = 2
  MaxFailures = 1
INVARIANTS
  RunningIsProcessing
CHECK_DEADLOCK FALSE
