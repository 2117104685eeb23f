SPECIFICATION Spec
CONSTANTS
  c1 = c1
  c2 = c2
  Calls <- TwoCalls
  milestoneCount = 3
  batchSize = 2
  FaultSets <- RejectedOnly
  MaxContracts = 3
CHECK_DEADLOCK FALSE
INVARIANT AllMilestonesDeployed
