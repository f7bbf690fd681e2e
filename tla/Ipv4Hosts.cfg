SPECIFICATION MCSpec
CONSTANTS
  a = a
  b = b
  NoPacket = NoPacket
  HasChannel = TRUE
  NextHops = {a, b}
  PayloadLengths = {2, 5, 8}
  Protocols = {"other"}
  DontFragment = {TRUE, FALSE}
  Forwarding = TRUE
  ArpMayFail = TRUE
  MaxDatagrams = 2
  MaxLifecycle = 1
  UninitializedLengths <- MCUninitialized
  HeaderLength <- MCHeaderLength
  FragmentUnit <- MCFragmentUnit
  Mtu <- MCMtu
INVARIANTS OneInWork NoneWaitsForKnownHop DatagramsInOrder SentWhole
PROPERTY HostsSend
CHECK_DEADLOCK FALSE
