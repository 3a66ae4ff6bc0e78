SPECIFICATION HSpec
CONSTANTS
  Calls = {s, a}
  SyncCalls = {s}
  SilentCalls = {}
  CallbackCalls = {}
  NoCall = no_call
  MayDisconnect = TRUE
INVARIANTS
  TypeOK
  EntryFound
  FrameAliveAtReply
  OnlyOvertakenGoWrong
  SweptIsSilent
PROPERTIES
  AcceptedIsAnswered
  KeepsPromise
CHECK_DEADLOCK FALSE
