SPECIFICATION FairSpec
CONSTANTS
  User = {u1, u2}
  MaxCommands = 3
  Twice = {0}
  CloseAgain = FALSE
INVARIANTS
  RequestOrder
  QueueNotStuck
  CallbackTargetLive
  PendingAccounted
PROPERTIES
  BlockingCallReturns
CHECK_DEADLOCK FALSE
