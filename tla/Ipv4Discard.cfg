SPECIFICATION FairSpec
CONSTANTS
  a = a
  b = b
  NoPacket = NoPacket
  HasChannel = TRUE
  NextHops = {a}
  PayloadLengths = {2, 5}
  Protocols = {"other"}
  DontFragment = {FALSE}
  Forwarding = TRUE
  ArpMayFail = FALSE
  MaxDatagrams = 2
  MaxLifecycle = 0
  UninitializedLengths <- MCUninitialized
  HeaderLength <- MCHeaderLength
  FragmentUnit <- MCFragmentUnit
  Mtu <- MCMtu
PROPERTY RoutedIsSent
CHECK_DEADLOCK FALSE
