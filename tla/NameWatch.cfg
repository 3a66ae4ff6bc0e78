SPECIFICATION Spec
CONSTANTS
  Threads = {a, b}
  Rules <- MCRules
  Watched = {owner_changed, name_lost}
  OtherRules = {own}
  MaxCalls = 3
  MaxSignals = 3
  MaxDisconnects = 1
SYMMETRY Symmetric
INVARIANTS
  TypeOK
  InOrder
  WatchHasRule
CHECK_DEADLOCK FALSE
