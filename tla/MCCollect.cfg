CONSTANTS
  r1 = r1
  r2 = r2
  r3 = r3
  k1 = k1
  k2 = k2
  poller = poller
  query = query
  Req <- MCReq3
  Server <- MCServer
  Model <- MCModel
  Overflow <- MCOverflow
  MaxModels = 1
  IdleEvict = 0
  ReaderThread = FALSE
  MaxClock = 2
  MaxBytes = 1
  Request <- MCRequest
  Pair <- MCPair
  Flusher <- MCFlusher
  Window = 2
  IdleAfter = 2
  MinuteLen = 2
  Retain = 0
  LongSpan = 2
  LongBin = 2
  LastSecond = 3
  MaxMoves = 1
  MaxPolls = 1
  MaxDrains = 2
  MaxFaults = 1
SPECIFICATION MCSpec
CHECK_DEADLOCK FALSE
SYMMETRY MCSym
INVARIANTS
  CountsMatch
  BytesMatch
  OpenKeyKept
  RequestsAccounted
  HistoryAccounted
