SPECIFICATION Spec
CONSTANTS
  a = a
  b = b
  Codes = {a, b}
  Whitelist = {}
  MinDistance = 3
  RecordFrom = 0
  RecordUntil = 1
  Buffer = 1
  MaxDelay = 2
  PasserLag = 5
  RecorderLag = 5
  MaxTime = 5
  MaxSequences = 3
  MaxFailures = 0
  NoSequence = NoSequence
INVARIANTS
  RepetitionsAreSuppressed
