SPECIFICATION FairSpec
CONSTANTS
  managedPaths <- MCPaths
  Required = {"mods"}
  Faults = {"download", "extract", "conf", "backup", "copy", "launcher"}
  None = None
  Torn = Torn
  MaxUpdates = 2
  MaxCrashes = 2
INVARIANTS TypeOK Recoverable AllOrNothing LauncherKept
PROPERTY UpdateEnds
CHECK_DEADLOCK FALSE
