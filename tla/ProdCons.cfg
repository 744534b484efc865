SPECIFICATION FairSpec
CONSTANTS
  QUEUE_SIZE = 8
  TOTAL_ITEMS = 10
INVARIANTS
  PipelineSound
PROPERTIES
  PipelineCompletes
  ImplementsFifo
CHECK_DEADLOCK FALSE
