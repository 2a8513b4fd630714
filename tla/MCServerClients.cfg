SPECIFICATION ServerSpec
CONSTANTS
  Obj = {o1, o2}
  Id = {i1, i2}
  Addr = {a1, a2}
  MaxCommands = 1
  None = None
SYMMETRY MCSymmetry
INVARIANTS TypeOK AliveWhileUsed RemovedForCause ClientsFollowPeers DataOfItsClient
CHECK_DEADLOCK FALSE
