SPECIFICATION PluginSpec
INVARIANTS EpochsDisjoint NothingDropped OneListener NoStaleTail
PROPERTIES NeverMute EvictedHasFaded SwapSettles VoicesRingOut
CONSTANTS
  None = None
  Zero = Zero
  Cur = Cur
  Old = Old
  Empty = Empty
  Fresh = Fresh
  Stale = Stale
  MaxParts = 4
  Lengths = {4}
  MaxFade = 2
  MaxSteps = 1
  RingSlots = 2
  RetiredSlots = 5
  GainFloor = 2
  Caps = {1, 2}
  Gates = {TRUE, FALSE}
  QueuesPerDrain = 2
  AgeCap = 4
