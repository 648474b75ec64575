SPECIFICATION ServicesSpec
CONSTANTS
  s1 = s1
  s2 = s2
  l1 = l1
  l2 = l2
  a = a
  b = b
  c1 = c1
  c2 = c2
  p = p
  q = q
  JobNames = {"cleanup"}
  Defaults = {"cleanup"}
  AutoStart = {}
  Slots <- TwoSlots
  RetryOptions = {0, 1}
  MaxCrons = 3
  MaxRuns = 2
  Keys <- TwoKeys
  EmptyKey = a
  Loaders <- TwoLoaders
  MaxEntries = 1
  DefaultTtl = 2
  Ttls = {0, 1}
  OldAge = 2
  Channels <- TwoKeys
  Configured <- OneConfigured
  Subs <- TwoLoaders
  MaxMessages = 3
  Named = {"tcp", "redis"}
  Unknown = {"grpc"}
  Queues = {"email"}
  DatabaseTypes = {"unset", "mongodb", "mariadb"}
  Providers = {"unset", "azure", "aws"}
  Files <- OneFile
  Clients <- TwoClients
  Sizes = {1, 2}
  HighWaterMark = 2
  MaxAttempts = 2
  Runners <- TwoRunners
  Indexes = 2
  MaxStarts = 3
CHECK_DEADLOCK FALSE
INVARIANTS
  ServicesTypeOK
  NoOrphanedTimers
  RunsAreCountedOnce
  StatusCatchesUp
  FlaggedMeansRoutable
  ClosedAfterDestroy
  OrderProcessedOnce
  HealthyMeansBothAnswered
  WholeBodies
  OutcomeMatchesEffects
  AppliedMeansBuilt
PROPERTIES
  RunsEnd
  NoGrowthPastBound
  StaleValuesGo
