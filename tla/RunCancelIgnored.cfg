SPECIFICATION FairSpec
CONSTANTS
  w1 = w1
  c1 = c1
  plan = plan
  ask = ask
  gate = gate
  left = left
  right = right
  close = close
  Steps <- FiveSteps
  Needs <- FiveNeeds
  Sequence <- FiveSequence
  Gates <- OneGate
  EvidenceGates <- NoGates
  Conditional <- NoGates
  Waived <- NoGates
  GateRank <- OneRank
  Paid <- PaidSteps
  Closing = close
  MaxParallel = 2
  Workers <- OneWorker
  Shells <- NoShells
  QueueMayRefuse = FALSE
  MaxTickets = 3
  MaxCrashes = 0
PROPERTIES
  CancellationTakesEffect
CHECK_DEADLOCK FALSE
