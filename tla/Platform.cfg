SPECIFICATION PlatformSpec
CONSTANTS
  Parts = {"spend", "standing", "requests", "audit", "store", "drafting", "final", "ladder", "watch"}
  steady = steady
  broad = broad
  only = only
  left = left
  right = right
  Jobs <- TwoJobs
  Steps <- ThreeSteps
  JobOf <- StepsJob
  Order <- StepsOrder
  Estimate <- Estimated
  Waves <- TwoWaves
  OneAtATime = TRUE
  Prices = {1, 2}
  Premium = 1
  FirstCap = 2
  PlatformCap = 3
  MonthlyCap = 3
  MaxCalls = 3
  MaxLosses = 1
  Entries = {1}
  Requests = {1, 2}
  RunCap = 1
  Budget = 1
  Clerks = {k1, k2}
  Walkers = {k2}
  MaxSpent = 2
  MaxRevived = 1
  Runs = {j1, j2, j3}
  Tabs = {t1}
  ContinuesOld = FALSE
  MaxEdits = 2
  Writers = {w1, w2}
  Payloads = {a, b}
  Actors = {x, y}
  PageSize = 2
  MaxEvents = 3
  MaxHarm = 1
  Digests = {d1}
  Archivers = {a1, a2}
  CollectsAlone = TRUE
  MaxRot = 1
  MaxDeaths = 1
  Sections = {1, 2, 3, 4, 5}
  Custom = {4, 5}
  Pinned = {4}
  FromRecord = {3}
  Values = {1, 2}
  Attacks = {{}, {1}, {2}, {4}, {1, 2}}
  Severities = {1, 2, 3}
  Material = 2
  FanOut = 2
  MaxRevised = 1
  MaxChallenges = 2
  MaxStops = 1
  Conflicts = {e1, e2}
  Handlers = {h1}
  EvidenceMayFail = TRUE
  MaxBreaks = 2
  Figures <- SomeFigures
  MaxFacts = 3
  MaxPairs = 3
  Powers = {1, 2}
  Premises = {1, 2}
  Growth = {2}
  Floor = 2
  Amounts = {1, 2}
  Years = {1, 2, 3}
  Days = {1, 2}
  HeldOn = 0
  Monitors = {m1}
  Pages = {t2}
  MaxPasses = 2
  MaxActs = 1
INVARIANTS
  TypesOK
  OverspendIsBounded
  EveryPoundIsCounted
  CommissionsFitTheBudget
  TheVerdictIsRight
  CitedBytesAreKept
  ClaimsAreTheDrafts
  TheSealIsTrue
  TheWorstAreRevised
  SealIsThePayload
  NoSilentWinner
  OneGatePerYear
PROPERTIES
  WorkedToOrder
  NoHarmGoesUnseen
  PassedDraftsStand
  FinalGateIsAGate
  DefeatIsNotMissed
CHECK_DEADLOCK FALSE
