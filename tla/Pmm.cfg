SPECIFICATION Spec
CONSTANTS
  MAX_PAGES = 9
  WORD = 3
  BOOT_FRAMES = 2
INVARIANTS
  ScanIsFirstFit
PROPERTIES
  FramesAccounted
