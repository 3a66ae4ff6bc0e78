SPECIFICATION Spec
CONSTANTS
  Threads = {t1, t2, t3}
  Dispatcher = dispatch_thread
  NoThread = no_thread
  MaxIncoming = 2
  Reentrant = TRUE
INVARIANTS
  TypeOK
  ThreadsUseLiveCtx
  OneOwner
  RestStates
  SleepsOnlyWithoutWork
PROPERTIES
  TeardownEnds
  QueuedIsDispatched
CHECK_DEADLOCK FALSE
