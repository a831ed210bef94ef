SPECIFICATION FairSpec
CONSTANTS
  Queue = {q1, q2}
  NoQueue = NoQueue
  Popper = {p1, p2}
  MaxEvents = 2
INVARIANTS
  DeliveredInOrder
  NoLostWakeup
  PushTargetLive
PROPERTIES
  PopReturns
CHECK_DEADLOCK FALSE
