SPECIFICATION Spec
CONSTANTS
  Handlers = {g, h}
  Threads = {a, b}
  Dispatcher = dispatch_thread
  NoEntry = no_entry
  Paths <- MCPaths
  Above <- MCAbove
  MaxEntries = 2
  MaxCloses = 2
SYMMETRY Symmetric
INVARIANTS
  MapsAgree
CHECK_DEADLOCK FALSE
