SPECIFICATION Spec
CONSTANTS
  Threads = {a}
  Rules <- MCRules
  KindsUsed = {"properties"}
  MaxCalls <- MCMaxCalls
  FilterRules = {"changed"}
  MaxSignals = 1
PROPERTIES
  RegistrationReturns
CHECK_DEADLOCK FALSE
