SPECIFICATION FairSpec
CONSTANTS
  self = self
  other = other
  third = third
  Unspecified = Unspecified
  startTime = 1
  stopTime = 4
  SendIntervals = {1, 2, 3}
  Names = {self, other, third}
  Tokens <- SelfAndOthers
  Local = {self}
  excludeLocalDestAddresses = TRUE
  InitiallyResolvable = {self}
  stopOperationTimeout = 1
  MaxTime = 5
  MaxLifecycle = 2
INVARIANTS NoTimerError SendsWithinWindow TimerInv ListsCover
PROPERTIES StopsForGood
CHECK_DEADLOCK FALSE
