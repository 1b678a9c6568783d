SPECIFICATION FairSpec
CONSTANTS
  Clients = {k1}
  Endpoints = 2
  Listening = 2
  Parts = 1
  Stranger = stranger
  MaxConnections = 2
  MaxItems = 2
  MaxFailures = 1
  MaxRuns = 2
INVARIANTS TypeOK FoundOnce StaleNeedsInterruption RunServes
PROPERTIES FailureTriedAll ClientReturns TransmittedIsFound
CHECK_DEADLOCK FALSE
