CONSTANTS
  r1 = r1
  r2 = r2
  u1 = u1
  u2 = u2
  primary = primary
  second = second
  third = third
  Req <- MCReq2
  Url <- MCUrl
  Place <- TwoPlaces
  Urls <- TwoPlaceUrls
  Primary = primary
  Chain <- OneTarget
  HasChain = TRUE
  Retrying = {r1, r2}
  MaxAttempts = 2
  FailureThreshold = 2
  RecoveryTimeout = 0
  RateLimit = 1
  Overloaded = 1
  ServerErr = 1
  Answers <- Mixed
  None = None
  slow = slow
  fast = fast
  gpu = gpu
  machine = machine
  model = model
  other = other
  Norm <- MCNorm
  Servers <- MCServers
  Hosts <- MCHosts
  Address <- MCAddress
  Models <- MCModels
  Seen <- MCSeen
  Slow <- MCSlow
  PerModel <- MCPerModel
  Breakable <- MCSlow
  Capacity = 1
  MaxDelay = 2
  MaxFailures = 2
  MaxChanges = 2
SPECIFICATION MCSpec
INVARIANTS
  AnswersClosed
  ViewHonest
  BackoffEarned
  AttributionCurrent
PROPERTIES
  Answered
  HealthyAsked
