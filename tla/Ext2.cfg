SPECIFICATION Spec
CONSTANTS
  INODES = 2
  BLOCKS = 3
  BLOCK_SIZE = 2
  DIRECT = 2
  DIR_ENTRIES = 2
  NODES = 3
  Names = {a, b}
  Fds = {3, 4}
  Lengths = {1, 3}
  MAX_WRITES = 2
  MAX_FAULTS = 2
INVARIANTS
  DiskConsistent
  DataKept
  SpaceUsable
SYMMETRY NameSymmetry
CHECK_DEADLOCK FALSE
