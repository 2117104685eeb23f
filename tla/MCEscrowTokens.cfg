SPECIFICATION Spec
CONSTANTS
  currencyType = "USDC"
  PurchaserBalance = 45
  MaxTime = 0
  MaxReward = 0
  Milestones <- TwoMilestones
  SubMilestones <- OneSubMilestone
  Parent <- OfM1
  fundAllocated <- TwoFunds
  noOfRevision <- NoRevision
  startDate <- Starts
  plannedEndDate <- Ends
  penalties <- NoPenalty
  royaltyAmount <- TwoRoyalties
  royaltyType <- MixedRoyalty
  UINT32_MAX = 9
  Callers <- Parties
  NewOwners = {}
  fundingType = "MILESTONE"
  fundTransferType = "MILESTONE_COMPLETE"
  totalFundAllocated = 45
  initialFee = 1050
  Fees = {}
  Requests = {"IN_PROGRESS", "COMPLETED"}
  EndDates = {0}
  Surplus = {}
  Allowances = {45}
INVARIANTS
  IncomeWithinAgreement
