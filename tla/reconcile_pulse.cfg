SPECIFICATION Spec
PROPERTIES EachFlipRereads
CHECK_DEADLOCK FALSE
CONSTANTS
  None = None
  b1 = b1
  NumCorners = 1
  Banks = {b1}
  Sizes = {0}
  Tolerance = 0
  Debounce = 1
  BlockSizes = {1}
  MaxChanges = 3
