SPECIFICATION FairSpec
CONSTANTS
  Io = io
  User = {u1}
  Word = {w1, w2}
  MaxWrites = 3
  BadRevision = {4}
  MaxRetries = 2
INVARIANTS
  NoTornBuffer
  FreshDeviceInfo
PROPERTY
  EventuallyCurrent
  ProviderIsRegister
