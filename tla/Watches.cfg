SPECIFICATION Spec
CONSTANTS
  Watches = {1, 2}
  Fds = {"f"}
  NoFd = "none"
  FdOf <- MCFdOf
  FlagsOf <- MCFlagsOf
CHECK_DEADLOCK FALSE
INVARIANTS
  TypeOK
  InterestCovers
  MaskExactUnlessBehind
  UndefinedOnlyIfRaced
PROPERTIES
  EventsServed
