SPECIFICATION Spec
CONSTANTS
  Threads = {a, b}
  Rules <- MCRules
  KindsUsed = {"filter", "properties", "manager", "proxy"}
  MaxCalls <- MCMaxCalls
  FilterRules = {"changed"}
  MaxSignals = 1
INVARIANTS
  TypeOK
  RulesAgree
  CallbackHasRule
  ReplyIsComing
PROPERTIES
  RegistrationEnds
CHECK_DEADLOCK FALSE
