SPECIFICATION Spec
CONSTANTS
  a = a
  b = b
  Codes = {a, b}
  Whitelist = {a}
  MinDistance = 2
  RecordFrom = 0
  RecordUntil = 2
  Buffer = 2
  MaxDelay = 1
  PasserLag = 2
  RecorderLag = 4
  MaxTime = 9
  MaxSequences = 2
  MaxFailures = 1
  NoSequence = NoSequence
INVARIANTS
  TimelyInv
  SuppressedStaysSilent
  RecordingsAreComplete
PROPERTIES
  ImplementsLifecycle
CHECK_DEADLOCK FALSE
