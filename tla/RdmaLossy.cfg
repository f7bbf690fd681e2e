SPECIFICATION Spec
CONSTANTS
  a = a
  b = b
  c = c
  NoPacket = NoPacket
  Hosts = {a, b}
  DestAddresses <- OneToOne
  Lengths = {3, 8}
  LocalPort <- Port1
  DestPort <- NoPort
  MaxPort = 2
  ModuleId <- Ids
  Mtu = 8
  IPV4_HEADER_LENGTH = 2
  RDMA_HEADER_LENGTH = 2
  RDMA_MAX_MESSAGE_SIZE = 6
  FragmentUnit = 2
  IdModulus = 8
  MaxSent = 3
  MaxLosses = 2
  MaxLifecycle = 1
INVARIANTS TypeOK ReceptionsBounded ReceptionAccounting
CHECK_DEADLOCK FALSE
