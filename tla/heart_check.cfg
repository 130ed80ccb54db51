CONSTANTS
  Sockets = {s1, s2, s3}
  NoSocket = NoSocket
  EarlyConnect = FALSE
SPECIFICATION Spec
INVARIANTS TypeOK SilentIsClosed
PROPERTIES HandledIsKept
SYMMETRY SocketSymmetry
