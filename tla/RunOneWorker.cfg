SPECIFICATION Spec
CONSTANTS
  w1 = w1
  c1 = c1
  plan = plan
  ask = ask
  gate = gate
  left = left
  right = right
  close = close
  Steps <- FiveSteps
  Needs <- FiveNeeds
  Sequence <- FiveSequence
  Gates <- OneGate
  EvidenceGates <- NoGates
  Conditional <- NoGates
  Waived <- NoGates
  GateRank <- OneRank
  Paid <- PaidSteps
  Closing = close
  MaxParallel = 2
  Workers <- OneWorker
  Shells <- NoShells
  QueueMayRefuse = TRUE
  MaxTickets = 4
  MaxCrashes = 1
INVARIANTS
  RunningMeansSomeoneRuns
  WaitingJobsShowWhy
PROPERTIES
  CompletedStepsAreKept
  FailureIsNotForgotten
  CancelledRunsStartNothing
CHECK_DEADLOCK FALSE
