SPECIFICATION Spec
CONSTANTS
  m1 = m1
  m2 = m2
  s1 = s1
  c1 = c1
  c2 = c2
  Milestones <- TwoMilestones
  SubMilestones <- OneSubMilestone
  Parent <- ParentOf
  revisions <- OneRevision
  Calls <- TwoCalls
  Scenarios <- AllModes
  price <- Prices
  Roundings <- OffByOne
  LowestLeft <- MinusTwo
SYMMETRY AnyCall
CHECK_DEADLOCK FALSE
INVARIANTS
  TypeOK
  FundsTruthful
  
  MirrorExact
PROPERTIES
  EndStatesFinal
  EveryReworkCounted
