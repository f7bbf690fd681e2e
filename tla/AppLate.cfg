SPECIFICATION Spec
CONSTANTS
  self = self
  other = other
  third = third
  Unspecified = Unspecified
  startTime = 1
  stopTime = 5
  SendIntervals = {1, 2, 3}
  Names = {self, other, third}
  Tokens <- SelfThenOther
  Local = {self}
  excludeLocalDestAddresses = TRUE
  InitiallyResolvable = {self}
  stopOperationTimeout = 2
  MaxTime = 2
  MaxLifecycle = 0
INVARIANTS ExcludesLocal
CHECK_DEADLOCK FALSE
