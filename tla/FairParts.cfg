SPECIFICATION FairPartsSpec
CONSTANTS
  Parts = {"final", "gate", "fetch", "book"}
  f1 = f1
  f2 = f2
  f3 = f3
  Conflicts = {e1, e2}
  Handlers = {h1, h2}
  EvidenceMayFail = FALSE
  MaxBreaks = 1
  Contents <- Slates
  Proposed <- OneTheme
  Becomes <- Additions
  Required = TRUE
  Rechecks = TRUE
  MaxHalts = 2
  Fetchers = {x1, x2}
  Rate = 1
  Cost = 2
  Burst = 4
  BucketTtl = 4
  MaxWait = 2
  MaxAttempts = 2
  MaxBackoff = 1
  MaxRedirects = 1
  Threshold = 2
  Cooldown = 2
  CounterTtl = 6
  Skew <- OneClock
  MaxTime = 3
  Dates = {1, 2}
  Lots = {1}
  Ratios = {2}
  Recorders = {c1, c2}
  MaxRecords = 4
  MaxReviews = 2
INVARIANTS
  FairTypesOK
  PassedMeansApproved
  PaceIsKept
  SplitsArrive
  HoldingIsTheHistory
  EpisodesAreRoundTrips
  ReviewsStand
PROPERTIES
  AgreedRunsGoOn
  KeepsThePromise
  ApprovedIsUsed
  CircuitOpensForCause
  EveryFetchEnds
CHECK_DEADLOCK FALSE
