\* Two keys of the queue may be computed from equal clock readings.
SPECIFICATION Spec
CONSTANTS
  Messages = {m1, m2}
  Connections = {c1}
  NoMessage = NoMessage
  MaxTrials = 2
  TimeDist = 1
  DistinctKeys = FALSE
  Drift = 0
  MaxClock = 1
  MaxFailures = 0
INVARIANTS NoMessageDisplaced
CHECK_DEADLOCK FALSE
