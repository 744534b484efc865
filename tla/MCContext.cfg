SPECIFICATION ContextSpec
CONSTANTS
  MAX_PROCESSES = 3
  MAX_PID = 3
  Futexes = {1}
  Requests <- ShortSleeps
  Codes = {3}
  Calls <- Mixture
  WaitAny = FALSE
INVARIANTS
  TableSound
  WaitsSound
  OwnMemory
  OwnFsBase
PROPERTIES
  ReadyGetsCloser
