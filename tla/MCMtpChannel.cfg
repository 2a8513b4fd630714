SPECIFICATION Spec
CONSTANTS
  SEQNUM_MAX = 11
  MAX_RELIABLE_WINDOW_SIZE = 6
  SEQNUM_INITIAL = 9
  MIN_WINDOW = 4
  START_WINDOW = 4
  MAX_WINDOW = 4
  WINDOW_STEP = 2
  MAX_REQUEUED = 2
  MaxChunks = 2
  Lifetime = 5
  MaxCommands = 7
  Lossy = FALSE
INVARIANTS TypeOK InOrder NothingLost WithinReach
PROPERTIES IsFifoLink
CHECK_DEADLOCK FALSE
