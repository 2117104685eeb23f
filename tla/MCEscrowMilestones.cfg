SPECIFICATION Spec
CONSTANTS
  currencyType = "HBAR"
  PurchaserBalance = 72
  MaxTime = 0
  MaxReward = 1
  Milestones <- TwoMilestones
  SubMilestones <- NoSubMilestones
  Parent <- NoParent
  fundAllocated <- TwoFunds
  noOfRevision <- NoRevision
  startDate <- Starts
  plannedEndDate <- Ends
  penalties <- NoPenalty
  royaltyAmount <- TwoRoyalties
  royaltyType <- MixedRoyalty
  UINT32_MAX = 9
  Callers <- WithoutIp
  NewOwners = {"purchaser"}
  fundingType = "MILESTONE"
  fundTransferType = "MILESTONE_COMPLETE"
  totalFundAllocated = 45
  initialFee = 1050
  Fees = {}
  Requests <- AllStates
  EndDates = {0}
  Surplus = {3}
  Allowances = {}
INVARIANTS
  TypeOK
  RoyaltyAfterPayout
  AllocationExact
PROPERTIES
  DrawBounded
  KeepsPromise
