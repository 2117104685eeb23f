SPECIFICATION Spec
CONSTANTS
  currencyType = "USDC"
  PurchaserBalance = 70
  MaxTime = 0
  MaxReward = 0
  Milestones <- TwoMilestones
  SubMilestones <- NoSubMilestones
  Parent <- NoParent
  fundAllocated <- TwoFunds
  noOfRevision <- NoRevision
  startDate <- Starts
  plannedEndDate <- Ends
  penalties <- NoPenalty
  royaltyAmount <- TwoRoyalties
  royaltyType <- MixedRoyalty
  UINT32_MAX = 9
  Callers <- WithoutIp
  NewOwners = {}
  fundingType = "PROJECT"
  fundTransferType = "PROJECT_COMPLETE"
  totalFundAllocated = 45
  initialFee = 1050
  Fees = {250}
  Requests <- ShortCut
  EndDates = {0}
  Surplus = {}
  Allowances = {45}
PROPERTIES
  KeepsPromise
  ProjectPaidAsAWhole
