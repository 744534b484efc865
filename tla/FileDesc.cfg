SPECIFICATION Spec
CONSTANTS
  MAX_PROCESSES = 3
  VFS_MAX_FD = 5
  Files = {f1}
  MAX_NET_SOCKETS = 2
  TCP_MAX_SOCKETS = 1
  MAX_REFS = 2
  MAX_OPEN = 3
INVARIANTS
  RefcountSound
  SocketsHaveOneDescriptor
  TcpOwnedOnce
