SPECIFICATION Spec
CONSTANTS
  Listener = {a, b}
  MaxSessions = 1
INVARIANTS
  AddedFirst
CHECK_DEADLOCK FALSE
