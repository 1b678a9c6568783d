SPECIFICATION Spec
CONSTANTS
  MonthLength <- MCMonthLength
  HoursPerDay = 4
  DaysPerWeek = 2
  DstBegin = 35
  DstEnd = 91
  a = a
  b = b
  x = x
  y = y
  Codes = {a, b}
  Messages = {x, y}
  EmptyMessages = {y}
  AlarmTimes = {32, 35, 36, 61, 66, 67, 68, 92, 99}
  Validities <- MCValidities
  Datasets <- MCDatasets
  Databases <- MCDatabases
  MaxChanges = 2
INVARIANTS
  CacheIsCurrent
  DatasetsAreComplete
PROPERTIES
  ImplementsLookup
CHECK_DEADLOCK FALSE
