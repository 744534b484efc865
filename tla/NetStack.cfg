SPECIFICATION NetFairSpec
CONSTANTS
  QUEUE_SIZE = 2
  INDEX = 4
  RX_BUFFERS = 2
  Local = {"gw", "dns", "peer"}
  Remote = {"far"}
  ARP_CACHE_SIZE = 2
  MAX_UDP_PORTS = 2
  MAX_CALLS = 2
  MAX_REQUESTS = 1
INVARIANTS
  BuffersConserved
  FramesIntact
  TablesSound
  AnswerIsOwn
PROPERTIES
  CallReturns
CHECK_DEADLOCK FALSE
