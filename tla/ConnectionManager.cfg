\* Two messages compete for one connection, keys may collide, one thread may fail.
SPECIFICATION FairSpec
CONSTANTS
  Messages = {m1, m2}
  Connections = {c1}
  NoMessage = NoMessage
  MaxTrials = 2
  TimeDist = 1
  DistinctKeys = FALSE
  Drift = 1
  MaxClock = 1
  MaxFailures = 1
INVARIANTS IInv EachMessageInOnePlace TrialsAreCounted AvailableIsIdle NoLostWakeUp
PROPERTIES AddedIsFinished DestructionCompletes FinalReportIsFinal RetryWaits ImplementsDelivery
CHECK_DEADLOCK FALSE
