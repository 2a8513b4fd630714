SPECIFICATION Spec
CONSTANTS
  off = off
  on = on
  air = air
  Pos = {1}
  Node = {off, on, air}
  Redstone = {off, on}
  Emits = {on}
  Updates = {off, on}
  Name <- MCName
  NoNode = NoNode
  NoEvent = NoEvent
  Delays = {1, 2}
  Priorities = {1, 2}
  StepArgs = {1}
  Update <- MCUpdateAll
  Initial <- MCInitial
  Fire <- MCFire
  Marks <- MCMarks
  SideMarks <- MCSideMarks
  MaxEvents = 3
  QueueBound = 4
  Copies = {c1, c2}
  MaxTick = 3
INVARIANTS TypeOK TableInQueue OneSwapPerTick OnTime ClockMoves ReplacedNodeKeepsNoUpdate
PROPERTIES ClockSteps BetterPriorityWins
SYMMETRY MCSymmetry
