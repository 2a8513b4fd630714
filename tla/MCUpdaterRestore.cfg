SPECIFICATION Spec
CONSTANTS
  managedPaths <- MCPaths
  Required = {"mods"}
  Faults = {"download", "extract", "conf", "backup", "copy", "launcher", "restore"}
  None = None
  Torn = Torn
  MaxUpdates = 1
  MaxCrashes = 0
INVARIANT Recoverable
CHECK_DEADLOCK FALSE
