SPECIFICATION HSpec
CONSTANTS
  Calls = {s}
  SyncCalls = {s}
  SilentCalls = {}
  CallbackCalls = {}
  NoCall = no_call
  MayDisconnect = FALSE
PROPERTIES
  RepliedReturns
CHECK_DEADLOCK FALSE
