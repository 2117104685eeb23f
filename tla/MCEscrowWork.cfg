SPECIFICATION Spec
CONSTANTS
  currencyType = "HBAR"
  PurchaserBalance = 57
  MaxTime = 3
  MaxReward = 0
  Milestones <- TwoMilestones
  SubMilestones <- TwoSubMilestones
  Parent <- OfM1
  fundAllocated <- SplitFunds
  noOfRevision <- OneRevisionOfM1
  startDate <- Starts
  plannedEndDate <- Ends
  penalties <- SplitPenalties
  royaltyAmount <- TwoRoyalties
  royaltyType <- MixedRoyalty
  UINT32_MAX = 9
  Callers <- Parties
  NewOwners = {}
  fundingType = "PROJECT"
  fundTransferType = "MILESTONE_COMPLETE"
  totalFundAllocated = 57
  initialFee = 1050
  Fees = {}
  Requests <- WorkStates
  EndDates = {2}
  Surplus = {0}
  Allowances = {}
INVARIANTS
  IncomeWithinAgreement
  DeadlineMovedByRevision
PROPERTIES
  DrawBounded
