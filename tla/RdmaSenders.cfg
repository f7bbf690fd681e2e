SPECIFICATION FairSpec
CONSTANTS
  a = a
  b = b
  c = c
  NoPacket = NoPacket
  Hosts = {a, b, c}
  DestAddresses <- TwoToOne
  Lengths = {3, 10}
  LocalPort <- DistinctPorts
  DestPort <- Port1
  MaxPort = 3
  ModuleId <- Ids
  Mtu = 0
  IPV4_HEADER_LENGTH = 2
  RDMA_HEADER_LENGTH = 2
  RDMA_MAX_MESSAGE_SIZE = 6
  FragmentUnit = 2
  IdModulus = 65536
  MaxSent = 2
  MaxLosses = 0
  MaxLifecycle = 0
INVARIANTS FragmentsTile DeliveredInOrder ArrivedIsDelivered FullDatagram
PROPERTIES EventuallyReceived
CHECK_DEADLOCK FALSE
