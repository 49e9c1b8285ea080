CONSTANTS
  r1 = r1
  r2 = r2
  r3 = r3
  k1 = k1
  k2 = k2
  poller = poller
  query = query
  Req <- MCReq3
  Server <- MCServer
  Model <- MCModel
  Overflow <- MCOverflow
  MaxModels = 2
  IdleEvict = 0
  ReaderThread = TRUE
  MaxClock = 2
  MaxBytes = 1
  Request <- MCRequest
  Pair <- MCPair
  Flusher <- MCFlusher
  Window = 2
  IdleAfter = 2
  MinuteLen = 2
  Retain = 0
  LongSpan = 2
  LongBin = 2
  LastSecond = 0
  MaxMoves = 0
  MaxPolls = 0
  MaxDrains = 0
  MaxFaults = 0
SPECIFICATION MCSpec
CHECK_DEADLOCK FALSE
SYMMETRY MCSym
INVARIANTS
  NoResidue
