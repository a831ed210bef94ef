SPECIFICATION FairSpec
CONSTANTS
  Thread = {t1, t2}
  MaxUpdates = 2
  Incompatible = {2}
  MaxBusy = 2
  MaxObjects = 2
  MaxCalls = 4
INVARIANTS
  RefFromOnePublication
  WaitCycles
PROPERTIES
  ActiveKept
  OpenReturns
CHECK_DEADLOCK FALSE
