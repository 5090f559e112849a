SPECIFICATION Spec
INVARIANTS TypeOK PoolConserved SettledExact
CONSTANTS
  None = None
  Zero = Zero
  Cur = Cur
  Old = Old
  Empty = Empty
  Fresh = Fresh
  Stale = Stale
  MaxParts = 4
  Lengths = {1, 2, 3, 4}
  MaxFade = 3
  MaxSteps = 2
  RingSlots = 1
  RetiredSlots = 4
  GainFloor = 1
  Caps = {1}
  Gates = {TRUE}
  QueuesPerDrain = 2
  AgeCap = 4
