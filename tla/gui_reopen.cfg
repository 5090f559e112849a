SPECIFICATION Spec
PROPERTY EditorComes
CHECK_DEADLOCK FALSE
CONSTANTS
  None = None
  p1 = p1
  p2 = p2
  Parents = {p1}
  HostThreads = {"gui"}
  Forgets = FALSE
  MaxCalls = 5
  MaxFailures = 0
