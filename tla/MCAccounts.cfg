SPECIFICATION Spec
CONSTANTS
  c1 = c1
  c2 = c2
  old = old
  new = new
  None = None
  Calls <- TwoCalls
  Passwords <- TwoPasswords
  Profile = {"experience"}
  MaxTokens = 3
  FaultSets <- OneFault
  Roles = {"PROVIDER", "PURCHASER"}
  Answers = {"ACCEPTED"}
SYMMETRY Alike
CHECK_DEADLOCK FALSE
INVARIANTS
  AlwaysVerifiable
  
  TokenWorksOnce
