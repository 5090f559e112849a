SPECIFICATION Spec
PROPERTY NeverHardCut
CHECK_DEADLOCK FALSE
CONSTANTS
  None = None
  b1 = b1
  Zero = Zero
  Cur = Cur
  Old = Old
  Empty = Empty
  Fresh = Fresh
  Stale = Stale
  NumCorners = 1
  Banks = {b1}
  Sizes = {0, 1}
  Tolerance = 0
  Debounce = 2
  BlockSizes = {1}
  MaxChanges = 3
  MaxParts = 9
  Lengths = {9}
  MaxFade = 1
  MaxSteps = 9
  RingSlots = 2
  RetiredSlots = 6
  GainFloor = 4
  Caps = {2}
  Gates = {TRUE}
  QueuesPerDrain = 3
  AgeCap = 9
  QuietHalvings = 2
