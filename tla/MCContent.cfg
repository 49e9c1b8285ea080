CONSTANTS
  r1 = r1
  r2 = r2
  x1 = x1
  x2 = x2
  w1 = w1
  w2 = w2
  p1 = p1
  p2 = p2
  Reader <- MCReader
  Writer <- MCWriter
  Worker <- MCWorker
  ApiKeys = {TRUE, FALSE}
  Ttl = 1
  Expiry = 0
  MaxDelay = 1
  MaxClock = 3
  Process <- MCProcess
  Requests <- MCRequests
  Slot = {1, 2}
  Similarity <- MCSimilarity
  Thresholds = {85, 95}
  CacheTtl = 1
  MemorySize = 1
  IndexSize = 2
  LastInstant = 2
  Asks = 3
  Upstreams <- MCUpstreams
  Bodies <- MCBodies
SPECIFICATION MCSpec
SYMMETRY MCSym
INVARIANTS
  BoundedStaleness
  InvalidationHolds
  AnswersHonest
  OvergrownByLive
  Delivered
  WorkRecorded
  SameTalk
CHECK_DEADLOCK FALSE
