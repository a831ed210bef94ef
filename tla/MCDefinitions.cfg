SPECIFICATION MCSpec
CONSTANTS
  Table <- MCTable
  UInt32 = 64
  DefBytes = 12
  ValueBytes = 10
  DataOffset = 2
  MaxCount = 5
  Capacity = 3
  Users = {u1}
  Word = {w1, w2}
  MaxWrites = 1
  MaxSpins = 2
  MaxFinds = 2
  Builders = {g}
  Group = g
  Payloads = {}
  Resizes = {}
  Definition <- MCDefinition
  Initial = 4
  MaxDefs = 5
  Handles <- MCHandles
  Handle <- MCHandle
  Lists <- MCLists
  Addable = {"h2", "h4"}
  MaxList = 4
  WordBits = 2
  MaxActions = 3
  MaxSends = 3
INVARIANTS
  CopiesAreTable
  FindAgrees
  ArrayCopyWhole
  SetMatchesRegistration
  SetPayloadExact
CHECK_DEADLOCK FALSE
