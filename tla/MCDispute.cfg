SPECIFICATION Spec
CONSTANTS
  c1 = c1
  c2 = c2
  Calls <- TwoCalls
  raisedBy = raisedBy
  raisedTo = raisedTo
  MaxResolutions = 3
SYMMETRY AnyCall
CHECK_DEADLOCK FALSE
INVARIANTS
  EndedForAReason
  ResolvedWhenAnswered
  AnswersCurrent
PROPERTIES
  DisputeEndsOnce
