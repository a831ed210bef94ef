SPECIFICATION FairSpec
CONSTANTS
  Io = io
  User = {u1}
  Word = {w1, w2}
  MaxWrites = 1
  BadRevision = {}
  MaxRetries = 2
PROPERTY
  ChangesAnnounced
