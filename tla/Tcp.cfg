SPECIFICATION FairSpec
CONSTANTS
  TCP_RX_BUF_SIZE = 3
  TCP_DEFAULT_MSS = 1
  REQUEST = 2
  STREAM = 4
  PEER_MSS = 2
  RecvSizes = {2}
  MIN_DATA = 2
  MAX_FAULTS = 1
INVARIANTS
  BytesKept
  FailedStaysClosed
  PeerReadsRequest
PROPERTIES
  ImplementsByteStream
  StreamCompletes
CHECK_DEADLOCK FALSE
