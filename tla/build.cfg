SPECIFICATION Spec
CONSTANTS
  Platform = "macos"
  Product <- MCProduct
  Metas = {"m1", "m2", "m3"}
  Metadata <- MCMetadata
  DotEnv <- MCDotEnv
  Requests <- MCRequests
  MaxRuns = 2
  MaxFaults = 2
  MaxEdits = 1
  None = None
CHECK_DEADLOCK FALSE
INVARIANTS Isolation InstallsThisBuild ValidatesThisBuild UninstallLeavesNone
