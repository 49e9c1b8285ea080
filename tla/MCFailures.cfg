CONSTANTS
  r1 = r1
  r2 = r2
  u1 = u1
  u2 = u2
  primary = primary
  second = second
  third = third
  Req <- MCReq2
  Url <- MCUrl
  Place <- MCPlace
  Urls <- MCUrls
  Primary = primary
  Chain <- MCChain
  HasChain = TRUE
  Retrying = {r1}
  MaxAttempts = 2
  FailureThreshold = 2
  RecoveryTimeout = 0
  RateLimit = 2
  Overloaded = 2
  ServerErr = 1
  Answers <- AllAnswers
  q1 = q1
  q2 = q2
  q3 = q3
  w1 = w1
  w2 = w2
  Caller <- MCCaller
  Worker <- MCWorker
  Limits = {1, 2}
  MaxMishaps = 2
SPECIFICATION MCSpec
SYMMETRY Renaming
INVARIANTS
  CircuitConsistent
  NoLostSlot
  LocalNoLostSlot
  FallbackBound
PROPERTIES
  NoHammering
  ChainHonoured
CHECK_DEADLOCK FALSE
