SPECIFICATION Spec
CONSTANTS
  email = email
  program = program
  a = a
  b = b
  Types = {email, program}
  Codes = {a, b}
  Messages <- MCMessages
  Databases <- MCDatabases
  MaxChanges = 4
  MaxAlarms = 2
INVARIANTS
  OnlyListedAreRecorded
CHECK_DEADLOCK FALSE
