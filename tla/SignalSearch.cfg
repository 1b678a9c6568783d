SPECIFICATION FairSpec
CONSTANTS
  Signals <- MCSignals
  Silence <- MCSilence
  Length = 32
  CoarseLength = 11
  CoarseStep = 3
  FineBatches = {0, 11}
  CoarseBatches = {0, 4}
  EvalToneLength = 4
  NumNeighbours = 2
  CodeLength = 3
  ExcessTime = 1
  DeltaTMaxTwice = 8
  MinLength = 1
  MaxLength = 4
  MaxToneLevelRatio = 2
INVARIANTS TonesAreRuns ReportsAreExact
PROPERTIES EveryToneIsSearched
