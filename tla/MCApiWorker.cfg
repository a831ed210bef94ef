SPECIFICATION FairSpec
CONSTANTS
  Listener = {a, b}
  MaxSessions = 2
INVARIANTS
  NoCallAfterRemove
  RemovedOnce
PROPERTIES
  SessionsInTurn
  RemoveReturnsOrRuns
CHECK_DEADLOCK FALSE
