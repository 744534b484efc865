SPECIFICATION FairSpec
CONSTANTS
  N = 3
  ITERATIONS = 2
INVARIANTS
  MutexSound
PROPERTIES
  WorkersReturn
  ImplementsLockedCounter
CHECK_DEADLOCK FALSE
