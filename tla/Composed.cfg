SPECIFICATION Spec
CONSTANTS
  t1 = t1
  t2 = t2
  s = s
  b = b
  Threads <- MCThreads
  Dispatcher = dispatch_thread
  NoThread = no_thread
  MaxIncoming = 1
  Reentrant = TRUE
  Calls = {s, b}
  SyncCalls = {s, b}
  SilentCalls = {}
  NoCall = no_call
  Sender <- MCSender
INVARIANTS
  QuietAfterDisconnect
PROPERTIES
  IsTheParts
  TeardownEnds
CHECK_DEADLOCK FALSE
