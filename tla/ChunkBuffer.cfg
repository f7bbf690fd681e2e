SPECIFICATION Spec
CONSTANTS
  Offsets = {0, 1, 2, 4, 5}
  Lengths = {1, 2, 4}
  MaxSteps = 4
INVARIANTS CompleteIffCovered
PROPERTIES ImplementsByteStore
CHECK_DEADLOCK FALSE
