SPECIFICATION Spec
INVARIANTS SetsMatchRequest SetsPerDrain
PROPERTIES KeepsPromise Settles
CHECK_DEADLOCK FALSE
CONSTANTS
  None = None
  b1 = b1
  b2 = b2
  NumCorners = 2
  Banks = {b1, b2}
  Sizes = {0, 2}
  Tolerance = 1
  Debounce = 1
  BlockSizes = {1}
  MaxChanges = 2
