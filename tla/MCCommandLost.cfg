SPECIFICATION FairSpec
CONSTANTS
  User = {u1}
  MaxCommands = 2
  Twice = {}
  CloseAgain = FALSE
PROPERTY
  BlockingCallReturnsWhenLost
CHECK_DEADLOCK FALSE
