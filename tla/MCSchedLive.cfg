SPECIFICATION UnkilledSpec
CONSTANTS
  MAX_PROCESSES = 3
  MAX_PID = 4
  Futexes = {1}
  Requests <- ShortSleeps
  Codes = {259}
  Calls <- Families
  WaitAny = FALSE
INVARIANTS
  ReapingSound
  StatusIsExitStatus
  NoChildMissed
PROPERTIES
  WaitReturns
  TasksProgress
