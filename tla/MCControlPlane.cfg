CONSTANTS
  Session = {1, 2}
  MaxRequests = 3
  Account = {"a", "b", "c"}
  DefaultAdmin = "a"
  Invite = {"i"}
  KeyLimits = {1, 2}
  NewRoles = {"VIEWER"}
  Changes <- FewChanges
  RequireInvite = TRUE
  Catalog <- OneCatalog
  Defaults <- OneDefault
  Entries <- SetByHand
  Rates = {2, 3}
  OldRate = 5
  Unknown = 9
  Worker = {"w1", "w2"}
  Tool = {"t"}
  EnvTools = {"t"}
  Config = {"c", "bad"}
  Broken = {"bad"}
  Span = {"x"}
  Server = {"s1", "s2"}
  Kind <- Kinds
  Name <- Names
  Provider = {"", "vllm", "s2"}
  HostSets <- Hostings
  PermitSets <- Permissions
  Registered <- Registry
  Aliases <- OneAlias
  Loads <- Either
  Strategies = {"static", "least busy", "random"}
  Req = {1, 2, 3}
  Limits <- MCLimits
  M = 2
  BucketTTL = 2
  MaxInflight = 2
  MaxAttempts = 2
  LoginWindow = 2
  MaxTokens = 2
  UseRedis = TRUE
  MaxClock = 3
  MaxArrivals = 4
  MaxFaults = 1
  Replica = {"w1", "w2"}
  Offers <- OneOrOther
  ListTtl = 1
  Patience = 1
  MaxMoment = 5
SPECIFICATION MCSpec
INVARIANTS
  AccountLimits
  ManualPrice
  RunsWhatIsStored
  ExportedOnce
  ConsumptionBounded
  WindowsBounded
  GuardExact
PROPERTIES
  RightsGuarded
  RoutedWell
  KeptOnceSettled
CHECK_DEADLOCK FALSE
