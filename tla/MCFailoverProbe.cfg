CONSTANTS
  r1 = r1
  r2 = r2
  u1 = u1
  u2 = u2
  primary = primary
  second = second
  third = third
  Req <- MCReq2
  Url <- OneUrl
  Place <- OnePlace
  Urls <- OneUrls
  Primary = primary
  Chain <- NoTargets
  HasChain = FALSE
  Retrying = {}
  MaxAttempts = 3
  FailureThreshold = 2
  RecoveryTimeout = 1
  RateLimit = 1
  Overloaded = 1
  ServerErr = 1
  Answers <- Transport
SPECIFICATION Spec
PROPERTY OneProbe
