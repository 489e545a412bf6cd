CONSTANTS
  c1 = c1
  c2 = c2
  c3 = c3
  c4 = c4
  Calls <- MCCalls
  IPs <- MCIPs
  RPS = 1
  Burst = 2
  TTL = 3
  MaxDelay = 1
  MaxTime = 7
  MaxInt = 7
  Currencies = {"USD", "EUR"}
  WideCodes = {"wide"}
  SeedUsers <- MCSeedUsers
  SeedProducts <- MCSeedProducts
  PageSize = 2
  MaxOrders = 4
  Workloads <- MCWorkloads
SPECIFICATION Spec
INVARIANTS
  TypeOK
  TokensAreTrue
  LostOnlyToOverlap
  OrphanOnlyFromInterruptedSeed
  ReportCountsAll
  PanicsExplained
  EvictionInvisible
CHECK_DEADLOCK FALSE
