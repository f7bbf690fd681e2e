SPECIFICATION FairSpec
CONSTANTS
  Kinds <- MCKinds
  EthernetSockets = {s1}
  RawSockets = {r1}
  NoSocket = NoSocket
  NoPacket = NoPacket
  MaxDatagrams = 3
  MaxDisturbances = 1
INVARIANTS TypeOK DoubleScheduleOnlyAtTie QueuesAreServed GivenUpIsNotHanded
PROPERTIES PathIsFifo PathDrains
CHECK_DEADLOCK FALSE
