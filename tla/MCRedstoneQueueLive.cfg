SPECIFICATION FairSpec
CONSTANTS
  off = off
  on = on
  air = air
  Pos = {1, 2}
  Node = {off, on}
  Redstone = {off, on}
  Emits = {off, on}
  Updates = {off, on}
  Name <- MCOneName
  NoNode = NoNode
  NoEvent = NoEvent
  Delays = {1, 2}
  Priorities = {1, 2}
  StepArgs = {}
  Update <- MCUpdateFirst
  Initial <- MCNoInitial
  Fire <- MCFire
  Marks <- MCAllMarks
  SideMarks <- MCSideMarks
  MaxEvents = 2
  QueueBound = 3
  Copies = {1}
  MaxTick = 3
PROPERTIES PendingServed UpdateSettles
