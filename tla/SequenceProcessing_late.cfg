SPECIFICATION FairSpec
CONSTANTS
  a = a
  b = b
  Codes = {a, b}
  Whitelist = {}
  MinDistance = 2
  RecordFrom = 0
  RecordUntil = 1
  Buffer = 0
  MaxDelay = 2
  PasserLag = 5
  RecorderLag = 5
  MaxTime = 5
  MaxSequences = 3
  MaxFailures = 1
  NoSequence = NoSequence
INVARIANTS
  NothingIsForgotten
  AlarmsAreApart
PROPERTIES
  EverySequenceIsDecided
  EveryAlarmIsRecorded
