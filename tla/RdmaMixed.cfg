SPECIFICATION Spec
CONSTANTS
  a = a
  b = b
  c = c
  NoPacket = NoPacket
  Hosts = {a, b, c}
  DestAddresses <- TwoToOne
  Lengths = {8}
  LocalPort <- Port1
  DestPort <- Port1
  MaxPort = 3
  ModuleId <- Ids
  Mtu = 0
  IPV4_HEADER_LENGTH = 2
  RDMA_HEADER_LENGTH = 2
  RDMA_MAX_MESSAGE_SIZE = 6
  FragmentUnit = 2
  IdModulus = 65536
  MaxSent = 1
  MaxLosses = 0
  MaxLifecycle = 0
INVARIANTS FullDatagram
CHECK_DEADLOCK FALSE
