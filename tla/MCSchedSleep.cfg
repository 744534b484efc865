SPECIFICATION FairSpec
CONSTANTS
  MAX_PROCESSES = 3
  MAX_PID = 3
  Futexes = {1}
  Requests <- ShortSleeps
  Codes = {3}
  Calls <- Parents
  WaitAny = FALSE
PROPERTIES
  NanosleepReturns
