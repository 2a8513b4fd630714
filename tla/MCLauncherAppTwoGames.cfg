SPECIFICATION Spec
CONSTANTS
  managedPaths <- MCPaths
  Required = {"bin"}
  Faults = {"copy"}
  None = None
  Torn = Torn
  MaxUpdates = 1
  MaxCrashes = 0
  Bin = "bin"
  Thread = {t1, t2}
  Engine = {e1, e2}
  Nick = {n1}
  Garbled = Garbled
  Empty = Empty
  Corrupt = Corrupt
SYMMETRY MCSymmetry
INVARIANT OneGame
CHECK_DEADLOCK FALSE
