SPECIFICATION FairSpec
CONSTANTS
  SEQNUM_MAX = 11
  MAX_RELIABLE_WINDOW_SIZE = 6
  SEQNUM_INITIAL = 10
  MIN_WINDOW = 1
  START_WINDOW = 1
  MAX_WINDOW = 2
  WINDOW_STEP = 1
  MAX_REQUEUED = 1
  MaxChunks = 2
  Lifetime = 5
  MaxCommands = 2
  Lossy = TRUE
PROPERTIES Delivers
CHECK_DEADLOCK FALSE
