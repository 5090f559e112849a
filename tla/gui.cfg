SPECIFICATION Spec
INVARIANTS AllOwned OwnSession
PROPERTY ClosedEditorGoes
CHECK_DEADLOCK FALSE
CONSTANTS
  None = None
  p1 = p1
  p2 = p2
  Parents = {p1, p2}
  HostThreads = {"gui", "other"}
  Forgets = TRUE
  MaxCalls = 8
  MaxFailures = 2
