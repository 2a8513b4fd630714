SPECIFICATION FairSpec
CONSTANTS
  Pos = {1, 2, 3, 4, 5}
  Chunk <- MCChunk
  Area <- MCArea
  OverLimit = {5}
  OutOfLimit = {"far"}
  NThreads = 2
  Peer = {p1}
  m_qlimit_total = 2
  m_qlimit_diskonly = 2
  m_qlimit_generate = 1
  Request = {r1}
  MaxLookups = 1
  Deletable = {3}
  DeletesHeld = FALSE
  MaxErrors = 1
  None = None
INVARIANTS TypeOK QueuesAgree RequestInOnePlace AreaIsHeld NotRegenerated
PROPERTY Answered
