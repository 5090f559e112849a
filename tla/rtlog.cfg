SPECIFICATION Spec
CONSTANTS
  Writers = {w1, w2}
  Capacity = 2
  MaxRecords = 4
INVARIANT NothingLostSilently
INVARIANT IntactUnlessLapped
PROPERTY RecordsArrive
