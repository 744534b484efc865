SPECIFICATION Spec
CONSTANTS
  MAX_PROCESS_VMAS = 3
  VPAGES = 3
  MAX_PAGES = 2
  WORD = 2
INVARIANTS
  FramesNotShared
  AreasSound
PROPERTIES
  ImplementsAddressSpace
  FaultKeepsPages
CHECK_DEADLOCK FALSE
