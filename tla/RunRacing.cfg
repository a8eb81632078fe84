SPECIFICATION Spec
CONSTANTS
  w1 = w1
  c1 = c1
  plan = plan
  ask = ask
  gate = gate
  left = left
  right = right
  close = close
  Steps <- BesideSteps
  Needs <- BesideNeeds
  Sequence <- BesideSequence
  Gates <- OneGate
  EvidenceGates <- OneGate
  Conditional <- NoGates
  Waived <- NoGates
  GateRank <- OneRank
  Paid <- OnePaid
  Closing = close
  MaxParallel = 2
  Workers <- OneWorker
  Shells <- OneShell
  QueueMayRefuse = TRUE
  MaxTickets = 3
  MaxCrashes = 1
INVARIANTS
  NothingPastAnUndecidedGate
  NobodyIsStuck
PROPERTIES
  KeepsThePlan
CHECK_DEADLOCK FALSE
