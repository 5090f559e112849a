SPECIFICATION Spec
CONSTANTS
  c1 = c1
  c2 = c2
  c3 = c3
  None = None
  Channels = 2
  MaxFrames = 1
  MaxEdits = 2
  MaxRefusals = 1
  Shapes <- MCShapes
  EventLists <- MCEventLists
  FlushLists <- MCFlushLists
INVARIANT NoGestureLost
INVARIANT NoneStranded
INVARIANT BlockIsThisBlocks
INVARIANT AutomationHeard
PROPERTY EditsArrive
