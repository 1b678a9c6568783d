SPECIFICATION Spec
CONSTANTS
  email = email
  program = program
  a = a
  b = b
  Types = {email, program}
  Codes = {a, b}
  Messages <- MCMessages
  Databases <- MCDatabases
  MaxChanges = 5
  MaxAlarms = 2
INVARIANTS
  SendsAreComplete
  WhitelistIsRespected
CHECK_DEADLOCK FALSE
