SPECIFICATION Spec
CONSTANTS
  Sizes = {1, 3, 4}
  ScaleUnit = 4
  LogicalUnit = 35
  Scales = {4, 5, 7}
  Logicals = {76, 140}
  Pointers = {0, 52}
  Min = 2
  Max = 5
  None = None
  MaxResyncs = 2
  MaxDrags = 2
CHECK_DEADLOCK FALSE
INVARIANT SizeSettles
INVARIANT HostHasTheLastWord
INVARIANT DragKeepsItsStart
