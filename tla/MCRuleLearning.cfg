SPECIFICATION RulesSpec
CONSTANTS
  a1 = a1
  a2 = a2
  b1 = b1
  h1 = h1
  h2 = h2
  Pages = {a1, a2}
  Hosts = {h1}
  Instances = {i1, i2}
  HostOf <- HostsOfPages
  LayoutOf <- NewLayouts
  Part <- PartPages
  Layouts = {1, 2}
  Nobody = Nobody
  MaxVersion = 3
  MaxLLMRetries = 1
  StaleThreshold = 1
  BreakerThreshold = 1
  Cap = 2
  PendingMax = 1
  MinSamples = 1
  MaxTrouble = 1
  Providers <- TwoProviders
  Policy = "fixed"
  Cost <- SameCost
  RateAttempts = 2
  NetworkAttempts = 2
SYMMETRY InstanceSymmetry
CHECK_DEADLOCK FALSE
INVARIANTS
  GenerationsExclusive
  CallsPerPage
  BudgetOvershoot
PROPERTIES
  LockFreedByHolder
  DisableHolds
