SPECIFICATION MCSpec
CONSTANTS
  h1 = h1
  h2 = h2
  r = r
  NoHost = NoHost
  Hosts = {h1, h2, r}
  ModuleId <- MCModuleId
  DestAddresses <- MCDestAddresses
  HasChannel <- MCHasChannel
  MessageLengths <- MCMessageLengths
  IdStride = 1
  FirstPacket = 1
  FragmentSize = 2
  IsGlobalArp = TRUE
  HasStopTime <- MCHasStopTime
  PacketsToSend <- MCPacketsToSend
  MaxLosses = 1
  MaxLifecycle = 1
INVARIANTS TypeOK MessagesInSequence MixedOnlyByIdCollision ReceivedInFull CountedOnce
INVARIANTS ArrivedIsCounted SwallowedIsFirst
PROPERTIES OpensAgainOnlyMidMessage BegunIsFinished
CHECK_DEADLOCK FALSE
