SPECIFICATION Spec
CONSTANTS
  SockIds = {s1, s2, s3}
  NoSocket = NoSocket
  Addresses = {a, b}
  Remotes = {r, q}
  Unspecified = Unspecified
  LocalPorts = {2}
  EPHEMERAL_PORTRANGE_START = 2
  EPHEMERAL_PORTRANGE_END = 4
INVARIANTS LastBoundReceives
SYMMETRY SocketSymmetry
CHECK_DEADLOCK FALSE
