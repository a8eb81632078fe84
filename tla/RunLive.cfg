SPECIFICATION FairSpec
CONSTANTS
  w1 = w1
  c1 = c1
  plan = plan
  ask = ask
  gate = gate
  left = left
  right = right
  close = close
  Steps <- AskSteps
  Needs <- AskNeeds
  Sequence <- AskSequence
  Gates <- TwoGates
  EvidenceGates <- NoGates
  Conditional <- AskGate
  Waived <- AskGate
  GateRank <- TwoRanks
  Paid <- OnePaid
  Closing = close
  MaxParallel = 2
  Workers <- OneWorker
  Shells <- NoShells
  QueueMayRefuse = FALSE
  MaxTickets = 3
  MaxCrashes = 0
PROPERTIES
  ExecutionsEnd
  ApprovedGatesArePassed
CHECK_DEADLOCK FALSE
