SPECIFICATION DelegationSpec
CONSTANTS
  c1 = c1
  c2 = c2
  p1 = p1
  p2 = p2
  m1 = m1
  m2 = m2
  s1 = s1
  s2 = s2
  Calls <- TwoCalls
  Providers <- TwoProviders
  MilestoneIds <- TwoMilestones
  SubMilestoneIds <- TwoSubMilestones
  purchaser = purchaser
  Nobody = Nobody
  MaxTerms = 4
  MaxItems = 2
  PermissionUpdates <- OneUpdate
  Scenarios <- SomeScenarios
  Staffable <- AgreedOrDeployed
  Divisible <- TwoMilestones
  ForeignIds <- TwoSubMilestones
  Grantees <- FewGrantees
  FaultSets <- AnyFaults
SYMMETRY Alike
CHECK_DEADLOCK FALSE
INVARIANTS
  TurnsKept
  AgreementKept
  OneProvider
  DeployedHasFunds
  AcceptedHasRow
  MembersHavePermissions
  SubMilestonesFunded
  NumberedUniquely
  NothingInherited
  ViewsAgree
PROPERTIES
  FollowsAgreement
  ModifiedAsAsked
