SPECIFICATION Spec
CONSTANTS
  managedPaths <- MCPaths
  Required = {"bin"}
  Faults = {}
  None = None
  Torn = Torn
  MaxUpdates = 1
  MaxCrashes = 1
  Bin = "bin"
  Thread = {t1, t2}
  Engine = {e1, e2}
  Nick = {n1}
  Garbled = Garbled
  Empty = Empty
  Corrupt = Corrupt
SYMMETRY MCSymmetry
INVARIANTS TypeOK OneGameUnlessRaced NoUpdateUnlessRaced ProfileSaved GameStatusClears
CONSTRAINT MCCalls
CHECK_DEADLOCK FALSE
